-------------------------------- MODULE Router --------------------------------
(***************************************************************************)
(* The router of internal/server/router: the calls that build it, in any    *)
(* order and on any router at hand, and what a request then goes through.   *)
(*                                                                         *)
(* A router keeps its middlewares in a Go slice. append() writes into the   *)
(* array of its operand while that has room, so two slices of one array can *)
(* overwrite each other's elements: slices are modelled with their arrays,  *)
(* because Group takes care of this with slices.Clone.                      *)
(*                                                                         *)
(* A middleware, an error handler and a router are each named by the number *)
(* of the call that brought it in; 0 is the router of New and the default   *)
(* error handler. Use(a, b) is Use(a) followed by Use(b).                   *)
(***************************************************************************)
EXTENDS Naturals, Sequences

CONSTANTS
  Patterns,  \* of the mux; two of them never conflict unless they are equal
  MaxCalls,  \* bound of the model on the calls
  MaxSpare   \* bound of the model on the room append leaves in a new array

ASSUME BoundsAssumption == MaxCalls \in Nat /\ MaxSpare \in Nat

VARIABLES
  globalChain,   \* of the router of New, the only one that has any
  routeChain,    \* of a router: a slice, see Slice
  arrays,        \* contents of the arrays of the slices, unused room included
  errorHandler,  \* of a router
  mux,           \* what a pattern is registered with: the middlewares around
                 \* its handler and the router that took the registration
  calls,         \* history: what was called, and on which router
  left           \* history: left[r][a], the Group call on a that leads to r

routerVars == <<globalChain, routeChain, arrays, errorHandler>>
history    == <<calls, left>>
vars       == <<routerVars, mux, history>>

(* f and y for x.                                                          *)
With(f, x, y) == [e \in DOMAIN f \cup {x} |-> IF e = x THEN y ELSE f[e]]

Single(x, y) == [e \in {x} |-> y]

Routers == DOMAIN routeChain
IsSubRouter(r) == r # 0

(* The number of the call under way.                                       *)
Now == Len(calls) + 1

Called(op, r) ==
  /\ Now <= MaxCalls /\ r \in Routers
  /\ calls' = Append(calls, [op |-> op, on |-> r])

-----------------------------------------------------------------------------
(* Slices *)

NilSlice == [array |-> 0, len |-> 0]

Elements(slice) == SubSeq(arrays[slice.array], 1, slice.len)

(* These elements and some room: 0 where nothing is yet.                    *)
Padded(elements, spare) ==
  [i \in 1..(Len(elements) + spare) |-> IF i <= Len(elements) THEN elements[i] ELSE 0]

NewArray(elements) ==
  \E spare \in 0..MaxSpare : arrays' = With(arrays, Now, Padded(elements, spare))

Extend(r, array) ==
  routeChain' = [routeChain EXCEPT ![r] = [array |-> array, len |-> routeChain[r].len + 1]]

(* r.routeChain = append(r.routeChain, mw)                                 *)
AppendTo(r, mw) ==
  LET array == routeChain[r].array
      len   == routeChain[r].len
  IN \/ /\ len < Len(arrays[array])
        /\ arrays' = [arrays EXCEPT ![array] = [arrays[array] EXCEPT ![len + 1] = mw]]
        /\ Extend(r, array)
     \/ /\ len = Len(arrays[array])
        /\ NewArray(Append(Elements(routeChain[r]), mw))
        /\ Extend(r, Now)

-----------------------------------------------------------------------------
(* The calls *)

Init ==
  /\ globalChain = <<>> /\ routeChain = Single(0, NilSlice) /\ arrays = Single(0, <<>>)
  /\ errorHandler = Single(0, 0) /\ mux = <<>>
  /\ calls = <<>> /\ left = Single(0, <<>>)

SetErrorHandler(r) ==
  /\ Called("errors", r)
  /\ errorHandler' = [errorHandler EXCEPT ![r] = Now]
  /\ UNCHANGED <<globalChain, routeChain, arrays, mux, left>>

(* Seeded fault: one chain for both kinds of routers. *)
Use_OneChain(r) ==
  /\ Called("use", r)
  /\ AppendTo(r, Now)
  /\ UNCHANGED <<globalChain, errorHandler, mux, left>>

Use(r) ==
  /\ Called("use", r)
  /\ \/ IsSubRouter(r) /\ AppendTo(r, Now) /\ UNCHANGED globalChain
     \/ ~IsSubRouter(r) /\ globalChain' = Append(globalChain, Now)
        /\ UNCHANGED <<routeChain, arrays>>
  /\ UNCHANGED <<errorHandler, mux, left>>

(* What Group makes of a slice and an error handler for the sub router.     *)
SubRouter(r, slice, handler) ==
  /\ Called("group", r)
  /\ routeChain' = With(routeChain, Now, slice)
  /\ errorHandler' = With(errorHandler, Now, handler)
  /\ left' = With(left, Now, With(left[r], r, Now))
  /\ UNCHANGED <<globalChain, mux>>

(* Seeded faults: "routeChain: r.routeChain", and "errorHandler:" with that *)
(* of New. *)
Group_NoClone(r) == SubRouter(r, routeChain[r], errorHandler[r]) /\ UNCHANGED arrays

Group_DefaultHandler(r) ==
  /\ SubRouter(r, [routeChain[r] EXCEPT !.array = Now], 0)
  /\ NewArray(Elements(routeChain[r]))

(* The sub router starts with copies of what its parent has now. Its calls  *)
(* are made by fn, which may have the parent's at hand as well.             *)
Group(r) ==
  /\ SubRouter(r, [routeChain[r] EXCEPT !.array = Now], errorHandler[r])
  /\ NewArray(Elements(routeChain[r]))

(* The handler is wrapped from the last middleware to the first, which is   *)
(* therefore the outermost. A pattern that is taken makes the mux panic: the *)
(* program ends before it serves.                                          *)
Handle(r, pattern) ==
  /\ Called("handle", r) /\ pattern \notin DOMAIN mux
  /\ mux' = With(mux, pattern, [chain |-> Elements(routeChain[r]), router |-> r, at |-> Now])
  /\ UNCHANGED <<routerVars, left>>

Next ==
  \E r \in Routers :
    \/ SetErrorHandler(r) \/ Use(r) \/ Group(r)
    \/ \E pattern \in Patterns : Handle(r, pattern)

Spec == Init /\ [][Next]_vars

-----------------------------------------------------------------------------
(* Requests *)

(* The middlewares a request for a pattern passes, the outermost first.     *)
ServeHTTP(pattern) == globalChain \o mux[pattern].chain

(* Which error handler gets the error of a handler: wrapHandlerFunc reads it *)
(* from the router of the registration when the error occurs.               *)
ErrorHandlerOf(pattern) == errorHandler[mux[pattern].router]

-----------------------------------------------------------------------------
(* Properties *)

(* The slices fit their arrays, and every router has an error handler.      *)
TypeOK ==
  /\ calls \in Seq([op : {"use", "errors", "group", "handle"}, on : 0..MaxCalls])
  /\ globalChain \in Seq(1..MaxCalls)
  /\ DOMAIN arrays \subseteq 0..Len(calls)
  /\ \A a \in DOMAIN arrays : arrays[a] \in Seq(0..MaxCalls)
  /\ \A r \in Routers : /\ routeChain[r].array \in DOMAIN arrays
                        /\ routeChain[r].len \in 0..Len(arrays[routeChain[r].array])
  /\ errorHandler \in [Routers -> 0..Len(calls)]
  /\ DOMAIN mux \subseteq Patterns
  /\ \A p \in DOMAIN mux : mux[p].router \in Routers /\ mux[p].chain \in Seq(1..MaxCalls)

(* Call j on router a counts for router r if it was made on r itself before  *)
(* the given call, or on one r descends from before r left it.              *)
CountsFor(j, r, before) ==
  LET a == calls[j].on IN
  IF a = r THEN j < before ELSE a \in DOMAIN left[r] /\ j < left[r][a]

CallsOf(op) == {j \in DOMAIN calls : calls[j].op = op}

(* seq holds the elements of S in the order in which they came.             *)
InOrder(seq, S) ==
  /\ {seq[i] : i \in DOMAIN seq} = S
  /\ \A i, j \in DOMAIN seq : i < j => seq[i] < seq[j]

(* A request passes every middleware of the router of New first, whenever it *)
(* was used, and then those of the groups around its registration, if they   *)
(* were used before the inner group, or the route, was declared: in this     *)
(* order, each once, and no other (router.go 41-52, 66-79).                  *)
RouteGoesThrough ==
  \A p \in DOMAIN mux :
    LET inGroups == {j \in CallsOf("use") : /\ IsSubRouter(calls[j].on)
                                            /\ CountsFor(j, mux[p].router, mux[p].at)}
        global   == {j \in CallsOf("use") : ~IsSubRouter(calls[j].on)}
        passed   == ServeHTTP(p)
    IN /\ Len(passed) = Len(globalChain) + Len(mux[p].chain)
       /\ InOrder(SubSeq(passed, 1, Len(globalChain)), global)
       /\ InOrder(SubSeq(passed, Len(globalChain) + 1, Len(passed)), inGroups)

(* An error goes to the handler set last on the router of the registration,  *)
(* before it or after, or else to the one its parents had when the groups    *)
(* were declared: a SetErrorHandler that comes after Group does not reach it. *)
ErrorGoesTo ==
  \A p \in DOMAIN mux :
    LET set == {j \in CallsOf("errors") : CountsFor(j, mux[p].router, Now)}
        to  == ErrorHandlerOf(p)
    IN /\ to \in set \cup {0}
       /\ \A j \in set : j <= to

(* No call on a router changes the middlewares or the error handler of       *)
(* another, parent, child or sibling, whatever room their arrays have.       *)
GroupsAreIndependent ==
  [][\A r \in Routers : r # calls'[Len(calls')].on =>
       /\ Elements(routeChain[r])' = Elements(routeChain[r])
       /\ errorHandler'[r] = errorHandler[r]]_vars
=============================================================================
