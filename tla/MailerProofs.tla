---------------------------- MODULE MailerProofs ----------------------------
(***************************************************************************)
(* Proofs about Mailer for any number of concurrent calls and recipients   *)
(* and any value of Retries the configuration lets through.                *)
(***************************************************************************)
EXTENDS Mailer, TLAPS

-----------------------------------------------------------------------------
(* The inductive invariant *)

(* Where a call stands in Mail.To.                                         *)
LoopInv ==
  \A c \in Calls :
    /\ pc[c] \in {"compose", "dial", "talk"} => to[c] <= Recipients
    /\ result[c] = "ok" => pc[c] = "done" /\ to[c] = Recipients + 1

(* What it delivered so far.                                               *)
InboxInv ==
  \A c \in Calls, i \in Tos :
    /\ i < to[c] => inbox[c][i] # 0
    /\ i > to[c] => inbox[c][i] = 0
    /\ i = to[c] /\ pc[c] \in {"idle", "next", "compose"} => inbox[c][i] = 0

(* Every copy took one try.                                                *)
TryInv ==
  /\ \A c \in Calls : /\ pc[c] = "talk" => try[c] <= Retries
                      /\ pc[c] \in {"dial", "talk"} => inbox[c][to[c]] < try[c]
  /\ \A c \in Calls, i \in Tos : inbox[c][i] = 0 \/ inbox[c][i] <= Retries

IInv == TypeOK /\ LoopInv /\ InboxInv /\ TryInv

-----------------------------------------------------------------------------
(* The initial state satisfies the inductive invariant.                    *)
LEMMA InvInit == Init => IInv
  BY RecipientsAssumption, RetriesAssumption DEF Init, IInv, TypeOK, LoopInv, InboxInv, TryInv, Tos

(* An attempt that ends, delivered or not, keeps the invariant: the copy it  *)
(* may add is paid for by the try it used.                                   *)
LEMMA AttemptEnds ==
  ASSUME IInv, NEW c \in Calls, pc[c] = "talk", pc'[c] \in {"next", "dial"}, TypeOK',
         \A d \in Calls : d # c => pc'[d] = pc[d] /\ to'[d] = to[d] /\ try'[d] = try[d],
         result' = result,
         \A d \in Calls, i \in Tos :
           inbox'[d][i] = inbox[d][i] \/ (d = c /\ i = to[c] /\ inbox'[d][i] = inbox[d][i] + 1),
         pc'[c] = "next" => to'[c] = to[c] + 1 /\ inbox'[c][to[c]] = inbox[c][to[c]] + 1,
         pc'[c] = "dial" => to'[c] = to[c] /\ try'[c] = try[c] + 1
  PROVE  IInv'
<1> USE RecipientsAssumption, RetriesAssumption
<1>1. to[c] \in Tos /\ inbox[c][to[c]] \in Nat /\ inbox[c][to[c]] < try[c] /\ try[c] <= Retries
  <2>1. to[c] \in Tos
    BY DEF IInv, TypeOK, LoopInv, Tos
  <2>2. inbox[c][to[c]] \in Nat
    BY <2>1 DEF IInv, TypeOK
  <2>3. inbox[c][to[c]] < try[c] /\ try[c] <= Retries
    BY Zenon DEF IInv, TryInv
  <2>4. QED
    BY <2>1, <2>2, <2>3
<1>2. \A d \in Calls, i \in Tos : inbox[d][i] \in Nat /\ to[d] \in Nat /\ try[d] \in Nat
  BY DEF IInv, TypeOK
<1>3. LoopInv'
  <2> SUFFICES ASSUME NEW d \in Calls
               PROVE  /\ pc'[d] \in {"compose", "dial", "talk"} => to'[d] <= Recipients
                      /\ result'[d] = "ok" => pc'[d] = "done" /\ to'[d] = Recipients + 1
    BY DEF LoopInv
  <2>1. CASE d = c
    BY <1>1, <2>1 DEF IInv, LoopInv, Tos
  <2>2. CASE d # c
    BY <2>2 DEF IInv, LoopInv
  <2>3. QED
    BY <2>1, <2>2
<1>4. InboxInv'
  <2> SUFFICES ASSUME NEW d \in Calls, NEW i \in Tos
               PROVE  /\ i < to'[d] => inbox'[d][i] # 0
                      /\ i > to'[d] => inbox'[d][i] = 0
                      /\ i = to'[d] /\ pc'[d] \in {"idle", "next", "compose"} => inbox'[d][i] = 0
    BY DEF InboxInv
  <2>0. /\ i < to[d] => inbox[d][i] # 0
        /\ i > to[d] => inbox[d][i] = 0
        /\ i = to[d] /\ pc[d] \in {"idle", "next", "compose"} => inbox[d][i] = 0
    BY DEF IInv, InboxInv
  <2>1. CASE d = c
    BY <1>1, <1>2, <2>0, <2>1 DEF Tos
  <2>2. CASE d # c
    BY <2>0, <2>2
  <2>3. QED
    BY <2>1, <2>2
<1>5. TryInv'
  <2>1. ASSUME NEW d \in Calls
        PROVE  /\ pc'[d] = "talk" => try'[d] <= Retries
               /\ pc'[d] \in {"dial", "talk"} => inbox'[d][to'[d]] < try'[d]
    <3>1. CASE d = c
      BY <1>1, <1>2, <3>1
    <3>2. CASE d # c /\ pc[d] \in {"dial", "talk"}
      <4>1. to[d] \in Tos
        BY <3>2 DEF IInv, TypeOK, LoopInv, Tos
      <4>2. inbox'[d][to[d]] = inbox[d][to[d]]
        BY <3>2, <4>1
      <4>3. /\ pc[d] = "talk" => try[d] <= Retries
            /\ inbox[d][to[d]] < try[d]
        BY <3>2, Zenon DEF IInv, TryInv
      <4>4. QED
        BY <3>2, <4>2, <4>3
    <3>3. CASE d # c /\ pc[d] \notin {"dial", "talk"}
      BY <3>3
    <3>4. QED
      BY <3>1, <3>2, <3>3
  <2>2. ASSUME NEW d \in Calls, NEW i \in Tos
        PROVE  inbox'[d][i] = 0 \/ inbox'[d][i] <= Retries
    BY <1>1, <1>2 DEF IInv, TryInv
  <2>3. QED
    BY <2>1, <2>2 DEF TryInv
<1>6. QED
  BY <1>3, <1>4, <1>5 DEF IInv

(* A step of a call keeps it.                                              *)
LEMMA CallStep ==
  ASSUME IInv, NEW c \in Calls, Call(c) \/ Send(c) \/ ContextDone(c)
  PROVE  IInv'
<1> USE RecipientsAssumption, RetriesAssumption
<1> USE DEF IInv, TypeOK, LoopInv, InboxInv, TryInv, Tos, Goto, Return
<1>1. CASE Call(c)
  <2>1. /\ pc[c] = "idle" /\ pc' = [pc EXCEPT ![c] = "next"]
        /\ UNCHANGED <<parts, to, try, ctx, result, inbox>>
    BY <1>1 DEF Call
  <2>2. content' \in [Calls -> SUBSET {"text", "html"}]
    BY <1>1 DEF Call
  <2>3. TypeOK'
    BY <2>1, <2>2
  <2>4. LoopInv' /\ InboxInv'
    BY <2>1
  <2>5. TryInv'
    BY <2>1
  <2>6. QED
    BY <2>3, <2>4, <2>5
<1>2. CASE NextRecipient(c)
  <2>1. ASSUME to[c] <= Recipients, pc' = [pc EXCEPT ![c] = "compose"], result' = result PROVE IInv'
    BY <1>2, <2>1 DEF NextRecipient
  <2>2. ASSUME to[c] > Recipients, pc' = [pc EXCEPT ![c] = "done"],
               result' = [result EXCEPT ![c] = "ok"]
        PROVE  IInv'
    <3>1. to[c] = Recipients + 1
      BY <2>2
    <3>2. QED
      BY <1>2, <2>2, <3>1 DEF NextRecipient
  <2>3. QED
    BY <1>2, <2>1, <2>2 DEF NextRecipient
<1>3. CASE Compose(c)
  BY <1>3 DEF Compose
<1>4. CASE ComposeFails(c)
  BY <1>4 DEF ComposeFails
<1>5. CASE Dial(c)
  <2>1. TypeOK' /\ LoopInv' /\ InboxInv'
    BY <1>5 DEF Dial
  <2>2. inbox' = inbox /\ to' = to
    BY <1>5 DEF Dial
  <2>3. TryInv'
    <3>1. ASSUME NEW d \in Calls
          PROVE  /\ pc'[d] = "talk" => try'[d] <= Retries
                 /\ pc'[d] \in {"dial", "talk"} => inbox[d][to[d]] < try'[d]
      <4>1. pc[d] \in {"dial", "talk"} => inbox[d][to[d]] < try[d] /\ to[d] \in Tos
        <5> HIDE DEF TypeOK, InboxInv, Tos
        <5>1. pc[d] \in {"dial", "talk"} => inbox[d][to[d]] < try[d]
          BY Zenon
        <5>2. pc[d] \in {"dial", "talk"} => to[d] \in Tos
          BY DEF TypeOK, Tos
        <5>3. QED
          BY <5>1, <5>2
      <4>2. pc[d] \in {"dial", "talk"} => inbox[d][to[d]] \in Nat
        BY <4>1
      <4>3. QED
        BY <1>5, <4>1, <4>2 DEF Dial
    <3>2. QED
      BY <2>2, <3>1
  <2>4. QED
    BY <2>1, <2>3
<1>6. CASE DialCanceled(c)
  BY <1>6 DEF DialCanceled
<1>7. CASE DialFails(c)
  <2>0. try[c] + 1 \in Nat \ {0}
    BY DEF TypeOK
  <2>1. TypeOK' /\ LoopInv' /\ InboxInv'
    <3>1. TypeOK'
      BY <1>7, <2>0 DEF DialFails
    <3>2. LoopInv'
      BY <1>7 DEF DialFails
    <3>3. InboxInv'
      BY <1>7 DEF DialFails
    <3>4. QED
      BY <3>1, <3>2, <3>3
  <2>2. inbox' = inbox /\ to' = to
    BY <1>7 DEF DialFails
  <2>3. TryInv'
    <3>1. ASSUME NEW d \in Calls
          PROVE  /\ pc'[d] = "talk" => try'[d] <= Retries
                 /\ pc'[d] \in {"dial", "talk"} => inbox[d][to[d]] < try'[d]
      <4>1. pc[d] \in {"dial", "talk"} => inbox[d][to[d]] < try[d] /\ to[d] \in Tos
        <5> HIDE DEF TypeOK, InboxInv, Tos
        <5>1. pc[d] \in {"dial", "talk"} => inbox[d][to[d]] < try[d]
          BY Zenon
        <5>2. pc[d] \in {"dial", "talk"} => to[d] \in Tos
          BY DEF TypeOK, Tos
        <5>3. QED
          BY <5>1, <5>2
      <4>2. pc[d] \in {"dial", "talk"} => inbox[d][to[d]] \in Nat
        BY <4>1
      <4>3. QED
        BY <1>7, <4>1, <4>2 DEF DialFails
    <3>2. QED
      BY <2>2, <3>1
  <2>4. QED
    BY <2>1, <2>3
<1>8. CASE Accepted(c)
  <2>1. to[c] \in Tos /\ inbox[c][to[c]] \in Nat
    BY <1>8 DEF Accepted
  <2>2. /\ pc' = [pc EXCEPT ![c] = "next"] /\ pc[c] = "talk"
        /\ to' = [to EXCEPT ![c] = to[c] + 1]
        /\ inbox' = [inbox EXCEPT ![c][to[c]] = inbox[c][to[c]] + 1]
        /\ UNCHANGED <<content, parts, try, ctx, result>>
    BY <1>8 DEF Accepted
  <2>3. TypeOK'
    <3>1. inbox' \in [Calls -> [Tos -> Nat]]
      BY <2>1, <2>2
    <3>2. to' \in [Calls -> 1..Recipients + 1]
      BY <2>1, <2>2
    <3>3. QED
      BY <2>2, <3>1, <3>2
  <2> HIDE DEF IInv, TypeOK, LoopInv, InboxInv, TryInv, Tos
  <2>4. inbox \in [Calls -> [Tos -> Nat]] /\ to \in [Calls -> 1..Recipients + 1]
        /\ pc \in [Calls -> {"idle", "next", "compose", "dial", "talk", "done"}]
    BY DEF IInv, TypeOK
  <2>5. QED
    BY <2>1, <2>2, <2>3, <2>4, AttemptEnds
<1>9. CASE Refused(c)
  <2>1. to[c] \in Tos /\ inbox[c][to[c]] \in Nat
    BY <1>9 DEF Refused
  <2>2. /\ pc' = [pc EXCEPT ![c] = "dial"] /\ pc[c] = "talk"
        /\ try' = [try EXCEPT ![c] = try[c] + 1]
        /\ UNCHANGED <<content, parts, to, ctx, result>>
    BY <1>9 DEF Refused
  <2>3. inbox' = inbox \/ inbox' = [inbox EXCEPT ![c][to[c]] = inbox[c][to[c]] + 1]
    BY <1>9 DEF Refused
  <2>4. TypeOK'
    <3>1. inbox' \in [Calls -> [Tos -> Nat]]
      <4>1. CASE inbox' = inbox
        BY <4>1
      <4>2. CASE inbox' = [inbox EXCEPT ![c][to[c]] = inbox[c][to[c]] + 1]
        BY <2>1, <4>2
      <4>3. QED
        BY <2>3, <4>1, <4>2
    <3>2. try' \in [Calls -> Nat \ {0}]
      BY <2>2
    <3>3. QED
      BY <2>2, <3>1, <3>2
  <2> HIDE DEF IInv, TypeOK, LoopInv, InboxInv, TryInv, Tos
  <2>5. inbox \in [Calls -> [Tos -> Nat]] /\ try \in [Calls -> Nat \ {0}]
        /\ pc \in [Calls -> {"idle", "next", "compose", "dial", "talk", "done"}]
    BY DEF IInv, TypeOK
  <2>6. \A d \in Calls, i \in Tos :
           inbox'[d][i] = inbox[d][i] \/ (d = c /\ i = to[c] /\ inbox'[d][i] = inbox[d][i] + 1)
    BY <2>1, <2>3, <2>5
  <2>7. QED
    BY <2>1, <2>2, <2>4, <2>5, <2>6, AttemptEnds
<1>10. CASE GiveUp(c)
  BY <1>10 DEF GiveUp
<1>11. CASE ContextDone(c)
  BY <1>11 DEF ContextDone
<1>12. QED
  BY <1>1, <1>2, <1>3, <1>4, <1>5, <1>6, <1>7, <1>8, <1>9, <1>10, <1>11 DEF Send

(* The inductive invariant holds in every reachable state.                 *)
THEOREM Invariance == Spec => []IInv
<1>1. IInv /\ [Next]_vars => IInv'
  <2> SUFFICES ASSUME IInv, [Next]_vars PROVE IInv'
    OBVIOUS
  <2>1. CASE UNCHANGED vars
    BY <2>1 DEF vars, IInv, TypeOK, LoopInv, InboxInv, TryInv
  <2>2. CASE Next
    BY <2>1, <2>2, CallStep DEF Next, Terminated
  <2>3. QED
    BY <2>1, <2>2
<1>2. QED
  BY InvInit, <1>1, PTL DEF Spec

-----------------------------------------------------------------------------
(* Its consequences *)

(* The variables keep to their domains.                                    *)
THEOREM TypeCorrect == Spec => []TypeOK
<1>1. IInv => TypeOK
  BY DEF IInv
<1>2. QED
  BY <1>1, Invariance, PTL

(* What the caller may conclude from nil and from an error.                *)
THEOREM ResultIsTrue == Spec => []ResultTells
<1>1. IInv => ResultTells
  <2> SUFFICES ASSUME IInv, NEW c \in Calls, NEW i \in Tos
               PROVE  /\ result[c] = "ok" => inbox[c][i] > 0
                      /\ i < to[c] => inbox[c][i] > 0
                      /\ i > to[c] => inbox[c][i] = 0
    BY DEF ResultTells
  <2> QED
    BY RecipientsAssumption DEF IInv, TypeOK, LoopInv, InboxInv, Tos
<1>2. QED
  BY <1>1, Invariance, PTL

(* No recipient gets more than Retries copies of a mail.                   *)
THEOREM CopiesAreBounded == Spec => []CopiesBounded
<1>1. IInv => CopiesBounded
  BY DEF IInv, TryInv, CopiesBounded
<1>2. QED
  BY <1>1, Invariance, PTL

-----------------------------------------------------------------------------
(* The bodies of a mail *)

(* What a call sends: one body, the HTML one if it was given.              *)
BodyInv ==
  \A c \in Calls : pc[c] \in {"dial", "talk"} =>
    parts[c] = IF "html" \in content[c] THEN {"html"} ELSE {"text"}

(* It sends the only body it was given.                                    *)
GivenInv == \A c \in Calls : pc[c] \in {"dial", "talk"} => content[c] # {}

LEMMA BodyStep == IInv /\ BodyInv /\ GivenInv /\ [Next]_vars => BodyInv' /\ GivenInv'
<1> SUFFICES ASSUME TypeOK, BodyInv, GivenInv, [Next]_vars PROVE BodyInv' /\ GivenInv'
  BY DEF IInv
<1> USE DEF BodyInv, GivenInv, Goto, TypeOK
<1>1. ASSUME NEW c \in Calls, Call(c) PROVE BodyInv' /\ GivenInv'
  BY <1>1 DEF Call
<1>2. ASSUME NEW c \in Calls, Compose(c) PROVE BodyInv' /\ GivenInv'
  BY <1>2 DEF Compose
<1>3. ASSUME NEW c \in Calls, NextRecipient(c) \/ ComposeFails(c) \/ Dial(c) \/ DialCanceled(c)
      PROVE  BodyInv' /\ GivenInv'
  BY <1>3 DEF NextRecipient, ComposeFails, Dial, DialCanceled
<1>4. ASSUME NEW c \in Calls, DialFails(c) \/ Accepted(c) \/ Refused(c) \/ GiveUp(c) \/ ContextDone(c)
      PROVE  BodyInv' /\ GivenInv'
  BY <1>4 DEF DialFails, Accepted, Refused, GiveUp, ContextDone
<1>5. CASE UNCHANGED vars
  BY <1>5 DEF vars
<1> HIDE DEF BodyInv, GivenInv
<1>6. QED
  BY <1>1, <1>2, <1>3, <1>4, <1>5 DEF Next, Send, Terminated

(* How far the run mailer_multipart goes: a mail that was given one body    *)
(* arrives with it; of two, the HTML one replaces the other (mail.go        *)
(* 130-135).                                                               *)
THEOREM OneBodyIsKept ==
  Spec => [](\A c \in Calls : pc[c] = "talk" =>
               \/ parts[c] = content[c]
               \/ content[c] = {"text", "html"} /\ parts[c] = {"html"})
<1>1. Init => BodyInv /\ GivenInv
  BY DEF Init, BodyInv, GivenInv
<1>2. TypeOK /\ BodyInv /\ GivenInv =>
        \A c \in Calls : pc[c] = "talk" =>
          \/ parts[c] = content[c]
          \/ content[c] = {"text", "html"} /\ parts[c] = {"html"}
  <2> SUFFICES ASSUME TypeOK, BodyInv, GivenInv, NEW c \in Calls, pc[c] = "talk"
               PROVE  \/ parts[c] = content[c]
                      \/ content[c] = {"text", "html"} /\ parts[c] = {"html"}
    OBVIOUS
  <2>1. content[c] \in {{"text"}, {"html"}, {"text", "html"}}
    BY DEF TypeOK, GivenInv
  <2>2. QED
    BY <2>1 DEF BodyInv
<1>3. QED
  BY <1>1, <1>2, BodyStep, Invariance, TypeCorrect, PTL DEF Spec

-----------------------------------------------------------------------------
(* Why a call returns. That it does is a matter of fairness and left to the *)
(* model checker; what it rests on is proved for any list of recipients    *)
(* and any value of Retries.                                               *)

(* At least one pass through the test of the retry loop.                   *)
MostTries == IF Retries > 0 THEN Retries ELSE 0

(* How far a call is with the recipient it is at.                          *)
Turns(c) ==
  CASE pc[c] = "idle" -> 0 [] pc[c] = "next" -> 1 [] pc[c] = "compose" -> 2
    [] pc[c] = "dial" -> 2 * try[c] + 1 [] pc[c] = "talk" -> 2 * try[c] + 2
    [] pc[c] = "done" -> 2 * MostTries + 4

(* Every step it takes leads on, to the next recipient or with this one.    *)
GoesOn(c) ==
  \/ to'[c] = to[c] + 1
  \/ to'[c] = to[c] /\ Turns(c)' > Turns(c)

(* The loop variable ends one above the last try.                          *)
TriesInv == \A c \in Calls : try[c] <= MostTries + 1

LEMMA TriesStep == IInv /\ TriesInv /\ [Next]_vars => TriesInv'
<1> SUFFICES ASSUME TypeOK, TryInv, TriesInv, [Next]_vars PROVE TriesInv'
  BY DEF IInv
<1> USE RetriesAssumption DEF TriesInv, Goto, MostTries
<1>0. try \in [Calls -> Nat \ {0}]
  BY DEF TypeOK
<1>1. ASSUME NEW c \in Calls, Compose(c) PROVE TriesInv'
  BY <1>0, <1>1 DEF Compose
<1>2. ASSUME NEW c \in Calls, DialFails(c) \/ Refused(c) PROVE TriesInv'
  <2>1. try[c] <= Retries
    BY <1>2, Zenon DEF DialFails, Refused, TryInv
  <2>2. try' = [try EXCEPT ![c] = try[c] + 1]
    BY <1>2 DEF DialFails, Refused
  <2>3. QED
    BY <1>0, <2>1, <2>2
<1>3. ASSUME NEW c \in Calls, UNCHANGED try PROVE TriesInv'
  BY <1>3
<1>4. CASE UNCHANGED vars
  BY <1>4 DEF vars
<1> HIDE DEF TriesInv
<1>5. QED
  BY <1>1, <1>2, <1>3, <1>4
     DEF Next, Send, Terminated, Call, NextRecipient, ComposeFails, Dial, DialCanceled, Accepted,
         GiveUp, ContextDone

LEMMA TurnsOn ==
  ASSUME IInv, TriesInv, NEW c \in Calls, Call(c) \/ Send(c) PROVE GoesOn(c)
<1> USE RetriesAssumption, RecipientsAssumption DEF GoesOn, Goto
<1>0. /\ pc \in [Calls -> {"idle", "next", "compose", "dial", "talk", "done"}]
      /\ try \in [Calls -> Nat \ {0}] /\ to \in [Calls -> 1..Recipients + 1]
      /\ try[c] <= MostTries + 1 /\ MostTries \in Nat
  BY DEF IInv, TypeOK, TriesInv, MostTries
<1>1. CASE Call(c) \/ NextRecipient(c)
  BY <1>0, <1>1 DEF Call, NextRecipient, Turns
<1>2. CASE Compose(c) \/ ComposeFails(c)
  BY <1>0, <1>2 DEF Compose, ComposeFails, Turns
<1>3. CASE Dial(c) \/ DialCanceled(c) \/ GiveUp(c)
  BY <1>0, <1>3 DEF Dial, DialCanceled, GiveUp, Turns
<1>4. CASE DialFails(c)
  BY <1>0, <1>4 DEF DialFails, Turns
<1>5. CASE Accepted(c)
  BY <1>0, <1>5 DEF Accepted
<1>6. CASE Refused(c)
  BY <1>0, <1>6 DEF Refused, Turns
<1>7. QED
  BY <1>1, <1>2, <1>3, <1>4, <1>5, <1>6 DEF Send

(* No server and no context keeps a call in its loops: each of its steps    *)
(* leads on, there are Recipients recipients and, for each, at most Retries *)
(* tries and four steps more. The timeout only has to bound one attempt     *)
(* (mail.go 138-148).                                                      *)
THEOREM CallsGoOn ==
  Spec => /\ [](\A c \in Calls : to[c] <= Recipients + 1 /\ Turns(c) <= 2 * MostTries + 4)
          /\ [][\A c \in Calls : Call(c) \/ Send(c) => GoesOn(c)]_vars
<1>1. Init => TriesInv
  <2>1. MostTries \in Nat
    BY RetriesAssumption DEF MostTries
  <2>2. Init => \A c \in Calls : try[c] = 1
    BY DEF Init
  <2>3. 1 <= MostTries + 1
    BY <2>1
  <2>4. QED
    BY <2>2, <2>3 DEF TriesInv
<1>2. IInv /\ TriesInv => \A c \in Calls : to[c] <= Recipients + 1 /\ Turns(c) <= 2 * MostTries + 4
  <2> SUFFICES ASSUME IInv, TriesInv, NEW c \in Calls
               PROVE  to[c] <= Recipients + 1 /\ Turns(c) <= 2 * MostTries + 4
    OBVIOUS
  <2>1. /\ pc[c] \in {"idle", "next", "compose", "dial", "talk", "done"}
        /\ try[c] \in Nat /\ to[c] \in 1..Recipients + 1 /\ try[c] <= MostTries + 1
        /\ MostTries \in Nat
    BY RetriesAssumption DEF IInv, TypeOK, TriesInv, MostTries
  <2>2. pc[c] = "talk" => try[c] <= MostTries
    <3>1. pc[c] = "talk" => try[c] <= Retries
      BY Zenon DEF IInv, TryInv
    <3>2. QED
      BY <2>1, <3>1, RetriesAssumption DEF MostTries
  <2>3. QED
    BY <2>1, <2>2, RecipientsAssumption DEF Turns
<1>3. IInv /\ TriesInv /\ [Next]_vars => [\A c \in Calls : Call(c) \/ Send(c) => GoesOn(c)]_vars
  BY TurnsOn
<1>4. QED
  BY <1>1, <1>2, <1>3, TriesStep, Invariance, PTL DEF Spec
=============================================================================
