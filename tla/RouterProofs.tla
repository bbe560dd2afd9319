----------------------------- MODULE RouterProofs -----------------------------
(***************************************************************************)
(* Proofs about Router for any patterns, any number of calls and any room   *)
(* append leaves: the groups are independent of each other, because no two  *)
(* routers share an array, and a request meets the middlewares and the      *)
(* error handler the order of the calls promises.                           *)
(***************************************************************************)
EXTENDS Router, SequenceTheorems, TLAPS

(* A call is made on a router that is there, and names come from calls.      *)
Past ==
  /\ calls \in Seq([op : {"use", "errors", "group", "handle"}, on : 0..MaxCalls])
  /\ Len(calls) <= MaxCalls
  /\ \A j \in 1..Len(calls) : calls[j].on < j

Domains ==
  /\ Past
  /\ Routers \subseteq 0..Len(calls) /\ 0 \in Routers
  /\ routeChain \in [Routers -> [array : Nat, len : Nat]]
  /\ errorHandler \in [Routers -> 0..Len(calls)]
  /\ globalChain \in Seq(1..MaxCalls)

(* Slices lie within their arrays, and no array serves two of them.          *)
Arrays ==
  /\ arrays \in [DOMAIN arrays -> Seq(0..MaxCalls)]
  /\ DOMAIN arrays \subseteq 0..Len(calls) /\ 0 \in DOMAIN arrays /\ arrays[0] = <<>>
  /\ \A r \in Routers : /\ routeChain[r].array \in DOMAIN arrays
                        /\ routeChain[r].len <= Len(arrays[routeChain[r].array])
  /\ \A r, s \in Routers :
       r # s /\ routeChain[r].array # 0 => routeChain[r].array # routeChain[s].array

(* The elements of the slices are middlewares.                               *)
Chains == \A r \in Routers : Elements(routeChain[r]) \in Seq(1..MaxCalls)

Base == Domains /\ Arrays /\ Chains

Elems(r) == Elements(routeChain[r])

-----------------------------------------------------------------------------
(* Slices *)

(* The first elements of a sequence.                                         *)
LEMMA Prefix ==
  ASSUME NEW S, NEW seq \in Seq(S), NEW n \in Nat, n <= Len(seq)
  PROVE  /\ SubSeq(seq, 1, n) \in Seq(S) /\ Len(SubSeq(seq, 1, n)) = n
         /\ \A i \in 1..n : SubSeq(seq, 1, n)[i] = seq[i]
  OBVIOUS

(* A function on 1..n is a sequence of length n.                             *)
LEMMA FunctionIsSeq ==
  ASSUME NEW S, NEW n \in Nat, NEW f \in [1..n -> S]
  PROVE  f \in Seq(S) /\ Len(f) = n
  OBVIOUS

(* A new array: the elements, and some room.                                 *)
LEMMA Room ==
  ASSUME NEW seq \in Seq(0..MaxCalls), NEW spare \in 0..MaxSpare
  PROVE  /\ Padded(seq, spare) \in Seq(0..MaxCalls)
         /\ Len(Padded(seq, spare)) = Len(seq) + spare
         /\ \A i \in 1..Len(seq) : Padded(seq, spare)[i] = seq[i]
<1> DEFINE new == Padded(seq, spare)
<1>1. Len(seq) \in Nat /\ Len(seq) + spare \in Nat /\ 0 \in 0..MaxCalls
  BY BoundsAssumption
<1>2. \A i \in 1..Len(seq) : seq[i] \in 0..MaxCalls
  BY ElementOfSeq
<1>3. new \in [1..(Len(seq) + spare) -> 0..MaxCalls]
  BY <1>1, <1>2 DEF Padded
<1>4. \A i \in 1..Len(seq) : new[i] = seq[i]
  BY <1>1, BoundsAssumption DEF Padded
<1> HIDE DEF new
<1>5. new \in Seq(0..MaxCalls) /\ Len(new) = Len(seq) + spare
  BY <1>1, <1>3, FunctionIsSeq
<1>6. QED
  BY <1>4, <1>5 DEF new

(* Reading a slice that lies within its array.                               *)
LEMMA Reading ==
  ASSUME Domains, Arrays, NEW r \in Routers
  PROVE  /\ Elems(r) \in Seq(0..MaxCalls)
         /\ Len(Elems(r)) = routeChain[r].len
         /\ \A i \in 1..routeChain[r].len : Elems(r)[i] = arrays[routeChain[r].array][i]
<1>1. /\ routeChain[r].len \in Nat /\ arrays[routeChain[r].array] \in Seq(0..MaxCalls)
      /\ routeChain[r].len <= Len(arrays[routeChain[r].array])
  BY DEF Domains, Arrays
<1>2. QED
  BY <1>1, Prefix DEF Elems, Elements

(* The calls so far, and one more.                                           *)
LEMMA OneMore ==
  ASSUME Domains, NEW op \in {"use", "errors", "group", "handle"}, NEW r, Called(op, r)
  PROVE  /\ Past' /\ Len(calls') = Now /\ Now \in 1..MaxCalls
         /\ Now = Len(calls) + 1 /\ Len(calls) \in Nat
         /\ r \in Routers /\ r \in 0..Len(calls)
         /\ calls'[Now] = [op |-> op, on |-> r]
         /\ \A j \in 1..Len(calls) : calls'[j] = calls[j]
         /\ Routers \subseteq 0..Len(calls') /\ Now \notin Routers
<1>1. Len(calls) \in Nat /\ r \in 0..Len(calls)
  BY DEF Domains, Past, Called
<1>2. /\ calls' \in Seq([op : {"use", "errors", "group", "handle"}, on : 0..MaxCalls])
      /\ Len(calls') = Now /\ Now \in 1..MaxCalls /\ Now = Len(calls) + 1
      /\ calls'[Now] = [op |-> op, on |-> r]
      /\ \A j \in 1..Len(calls) : calls'[j] = calls[j]
  BY <1>1, BoundsAssumption DEF Domains, Past, Called, Now
<1>3. Routers \subseteq 0..Len(calls') /\ Now \notin Routers
  BY <1>1, <1>2 DEF Domains
<1>4. \A j \in 1..Len(calls') : calls'[j].on < j
  <2>1. calls'[Now].on < Now
    BY <1>1, <1>2
  <2>2. \A j \in 1..Len(calls) : calls'[j].on < j
    BY <1>2 DEF Domains, Past
  <2>3. QED
    BY <1>1, <1>2, <2>1, <2>2
<1>5. r \in Routers /\ Len(calls') <= MaxCalls
  BY <1>2 DEF Called
<1>6. QED
  BY <1>1, <1>2, <1>3, <1>4, <1>5 DEF Past

(* Array a takes the elements of the slice of router r and one more.         *)
Takes(a, r) ==
  /\ a \in 1..Now /\ \A s \in Routers \ {r} : routeChain[s].array # a
  /\ DOMAIN arrays' = DOMAIN arrays \cup {a}
  /\ arrays' \in [DOMAIN arrays' -> Seq(0..MaxCalls)]
  /\ \A b \in DOMAIN arrays \ {a} : arrays'[b] = arrays[b]
  /\ routeChain[r].len + 1 <= Len(arrays'[a])
  /\ \A i \in 1..routeChain[r].len : arrays'[a][i] = arrays[routeChain[r].array][i]
  /\ arrays'[a][routeChain[r].len + 1] = Now
  /\ routeChain' = [routeChain EXCEPT ![r] = [array |-> a, len |-> routeChain[r].len + 1]]

(* append either finds room in the array or takes a new one.                 *)
LEMMA AppendTakes ==
  ASSUME Base, NEW r, Called("use", r), AppendTo(r, Now)
  PROVE  \E a : Takes(a, r)
<1> DEFINE array == routeChain[r].array
           len   == routeChain[r].len
<1>1. Now \in 1..MaxCalls /\ r \in Routers /\ Now = Len(calls) + 1 /\ Len(calls) \in Nat
  BY OneMore DEF Base
<1>2. /\ array \in DOMAIN arrays /\ array \in Nat /\ array < Now /\ len \in Nat
      /\ arrays[array] \in Seq(0..MaxCalls) /\ len <= Len(arrays[array])
  BY <1>1 DEF Base, Domains, Arrays
<1>3. CASE len < Len(arrays[array])
  <2> DEFINE new == [arrays[array] EXCEPT ![len + 1] = Now]
  <2>1. /\ arrays' = [arrays EXCEPT ![array] = new]
        /\ routeChain' = [routeChain EXCEPT ![r] = [array |-> array, len |-> len + 1]]
    BY <1>3 DEF AppendTo, Extend
  <2>2. array # 0
    BY <1>2, <1>3 DEF Base, Arrays
  <2>3. /\ new \in Seq(0..MaxCalls) /\ Len(new) = Len(arrays[array])
        /\ new[len + 1] = Now /\ \A i \in 1..len : new[i] = arrays[array][i]
    BY <1>1, <1>2, <1>3, ExceptSeq
  <2> HIDE DEF new
  <2>4. \A s \in Routers \ {r} : routeChain[s].array # array
    BY <1>1, <2>2 DEF Base, Arrays
  <2>5. arrays \in [DOMAIN arrays -> Seq(0..MaxCalls)]
    BY DEF Base, Arrays
  <2>6. /\ DOMAIN arrays' = DOMAIN arrays /\ arrays' \in [DOMAIN arrays' -> Seq(0..MaxCalls)]
        /\ arrays'[array] = new /\ \A b \in DOMAIN arrays \ {array} : arrays'[b] = arrays[b]
    BY <1>2, <2>1, <2>3, <2>5
  <2>7. Takes(array, r)
    <3>1. array \in 1..Now /\ DOMAIN arrays' = DOMAIN arrays \cup {array}
      <4>1. DOMAIN arrays' = DOMAIN arrays \cup {array}
        BY <1>2, <2>6
      <4>2. array \in 1..Now
        BY <1>1, <1>2, <2>2
      <4>3. QED
        BY <4>1, <4>2
    <3>2. len + 1 <= Len(arrays'[array])
      BY <1>2, <1>3, <2>3, <2>6
    <3>3. (\A i \in 1..len : arrays'[array][i] = arrays[array][i]) /\ arrays'[array][len + 1] = Now
      BY <2>3, <2>6
    <3>4. QED
      BY <2>1, <2>4, <2>6, <3>1, <3>2, <3>3 DEF Takes
  <2>8. QED
    BY <2>7
<1>4. CASE len = Len(arrays[array])
  <2>1. /\ NewArray(Append(Elems(r), Now))
        /\ routeChain' = [routeChain EXCEPT ![r] = [array |-> Now, len |-> len + 1]]
    BY <1>4 DEF AppendTo, Extend, Elems
  <2>2. /\ Elems(r) \in Seq(0..MaxCalls) /\ Len(Elems(r)) = len
        /\ \A i \in 1..len : Elems(r)[i] = arrays[array][i]
    BY <1>1, Reading DEF Base
  <2> DEFINE elements == Append(Elems(r), Now)
  <2>3. /\ elements \in Seq(0..MaxCalls) /\ Len(elements) = len + 1 /\ elements[len + 1] = Now
        /\ \A i \in 1..len : elements[i] = arrays[array][i]
    BY <1>1, <1>2, <2>2
  <2> HIDE DEF elements
  <2>4. PICK spare \in 0..MaxSpare : arrays' = With(arrays, Now, Padded(elements, spare))
    BY <2>1 DEF NewArray, elements
  <2>5. PICK new : new = Padded(elements, spare)
    OBVIOUS
  <2>6. arrays' = With(arrays, Now, new)
    BY <2>4, <2>5
  <2>7. /\ new \in Seq(0..MaxCalls) /\ Len(new) = Len(elements) + spare
        /\ \A i \in 1..Len(elements) : new[i] = elements[i]
    BY <2>3, <2>5, Room
  <2>8. new[len + 1] = Now /\ (\A i \in 1..len : new[i] = arrays[array][i]) /\ len + 1 <= Len(new)
    <3>1. len + 1 \in 1..(len + 1) /\ \A i \in 1..len : i \in 1..(len + 1)
      BY <1>2
    <3>2. len + 1 <= Len(new)
      BY <1>2, <2>3, <2>7, BoundsAssumption
    <3>3. \A i \in 1..(len + 1) : new[i] = elements[i]
      BY <2>3, <2>7
    <3>4. QED
      BY <2>3, <3>1, <3>2, <3>3
  <2>9. Now \notin DOMAIN arrays /\ \A s \in Routers : routeChain[s].array # Now
    BY <1>1 DEF Base, Arrays
  <2>10. arrays \in [DOMAIN arrays -> Seq(0..MaxCalls)]
    BY DEF Base, Arrays
  <2>11. /\ DOMAIN arrays' = DOMAIN arrays \cup {Now} /\ arrays' \in [DOMAIN arrays' -> Seq(0..MaxCalls)]
         /\ arrays'[Now] = new /\ \A b \in DOMAIN arrays \ {Now} : arrays'[b] = arrays[b]
    BY <2>6, <2>7, <2>10 DEF With
  <2>12. Takes(Now, r)
    <3>1. Now \in 1..Now
      BY <1>1
    <3>2. QED
      BY <2>1, <2>8, <2>9, <2>11, <3>1 DEF Takes
  <2>13. QED
    BY <2>12
<1>5. QED
  BY <1>3, <1>4 DEF AppendTo

(* Either way the router gets one more element and nobody else notices.      *)
LEMMA Appending ==
  ASSUME Base, NEW r, Called("use", r), AppendTo(r, Now)
  PROVE  /\ Routers' = Routers /\ routeChain' \in [Routers -> [array : Nat, len : Nat]]
         /\ Arrays'
         /\ Elems(r)' = Append(Elems(r), Now)
         /\ \A s \in Routers \ {r} : Elems(s)' = Elems(s)
<1>1. Now \in 1..MaxCalls /\ r \in Routers /\ Now = Len(calls) + 1 /\ Len(calls) \in Nat /\ Len(calls') = Now
  BY OneMore DEF Base
<1>2. PICK a : Takes(a, r)
  BY AppendTakes
<1> DEFINE len == routeChain[r].len
<1>3. len \in Nat /\ routeChain[r].array \in DOMAIN arrays
  BY <1>1 DEF Base, Domains, Arrays
<1>4. /\ Routers' = Routers /\ routeChain' \in [Routers -> [array : Nat, len : Nat]]
      /\ routeChain'[r] = [array |-> a, len |-> len + 1]
      /\ \A s \in Routers \ {r} : routeChain'[s] = routeChain[s]
  <2>1. routeChain \in [Routers -> [array : Nat, len : Nat]]
    BY DEF Base, Domains
  <2>2. a \in Nat /\ routeChain' = [routeChain EXCEPT ![r] = [array |-> a, len |-> len + 1]]
    BY <1>1, <1>2 DEF Takes
  <2>3. [array |-> a, len |-> len + 1] \in [array : Nat, len : Nat]
    BY <1>3, <2>2
  <2>4. QED
    BY <1>1, <2>1, <2>2, <2>3 DEF Routers
<1>5. Arrays'
  <2>1. /\ a \in 1..Now /\ DOMAIN arrays' = DOMAIN arrays \cup {a}
        /\ arrays' \in [DOMAIN arrays' -> Seq(0..MaxCalls)]
        /\ \A b \in DOMAIN arrays \ {a} : arrays'[b] = arrays[b]
        /\ \A s \in Routers \ {r} : routeChain[s].array # a
        /\ len + 1 <= Len(arrays'[a])
    BY <1>2 DEF Takes
  <2>2. DOMAIN arrays' \subseteq 0..Len(calls') /\ 0 \in DOMAIN arrays' /\ arrays'[0] = <<>>
    BY <1>1, <2>1 DEF Base, Arrays
  <2>3. \A s \in Routers \ {r} :
          /\ routeChain[s].array \in DOMAIN arrays \ {a}
          /\ routeChain[s].len <= Len(arrays[routeChain[s].array])
    BY <2>1 DEF Base, Arrays
  <2>4. \A s \in Routers : /\ routeChain'[s].array \in DOMAIN arrays'
                          /\ routeChain'[s].len <= Len(arrays'[routeChain'[s].array])
    BY <1>4, <2>1, <2>3
  <2>5. \A s, t \in Routers :
          s # t /\ routeChain'[s].array # 0 => routeChain'[s].array # routeChain'[t].array
    <3>1. \A s, t \in Routers :
            s # t /\ routeChain[s].array # 0 => routeChain[s].array # routeChain[t].array
      BY DEF Base, Arrays
    <3>2. \A s \in Routers : routeChain'[s].array = IF s = r THEN a ELSE routeChain[s].array
      BY <1>4
    <3>3. QED
      BY <2>1, <3>1, <3>2
  <2>6. QED
    BY <1>4, <2>1, <2>2, <2>4, <2>5 DEF Arrays
<1>6. \A s \in Routers \ {r} : Elems(s)' = Elems(s)
  BY <1>2, <1>4 DEF Takes, Base, Arrays, Elems, Elements
<1>7. Elems(r)' = SubSeq(arrays'[a], 1, len + 1)
  <2>1. routeChain'[r].array = a /\ routeChain'[r].len = len + 1
    BY <1>4
  <2>2. Elems(r)' = SubSeq(arrays'[routeChain'[r].array], 1, routeChain'[r].len)
    BY DEF Elems, Elements
  <2>3. QED
    BY <2>1, <2>2
<1>8. /\ Elems(r) \in Seq(0..MaxCalls) /\ Len(Elems(r)) = len
      /\ \A i \in 1..len : Elems(r)[i] = arrays[routeChain[r].array][i]
  BY <1>1, Reading DEF Base
<1>9. /\ arrays'[a] \in Seq(0..MaxCalls) /\ len + 1 <= Len(arrays'[a])
      /\ \A i \in 1..len : arrays'[a][i] = arrays[routeChain[r].array][i]
      /\ arrays'[a][len + 1] = Now
  BY <1>2 DEF Takes
<1> HIDE DEF len
<1>10. /\ Elems(r)' \in Seq(0..MaxCalls) /\ Len(Elems(r)') = len + 1
       /\ \A i \in 1..(len + 1) : Elems(r)'[i] = arrays'[a][i]
  <2> DEFINE front == SubSeq(arrays'[a], 1, len + 1)
  <2>1. /\ front \in Seq(0..MaxCalls) /\ Len(front) = len + 1
        /\ \A i \in 1..(len + 1) : front[i] = arrays'[a][i]
    <3>1. len + 1 \in Nat
      BY <1>3
    <3>2. PICK new \in Seq(0..MaxCalls) : new = arrays'[a]
      BY <1>9
    <3>3. QED
      BY <1>9, <3>1, <3>2, Prefix
  <2>2. Elems(r)' = front
    BY <1>7
  <2> HIDE DEF front
  <2>3. QED
    BY <2>1, <2>2
<1>11. /\ Append(Elems(r), Now) \in Seq(0..MaxCalls) /\ Len(Append(Elems(r), Now)) = len + 1
       /\ \A i \in 1..(len + 1) : Append(Elems(r), Now)[i] = arrays'[a][i]
  BY <1>1, <1>3, <1>8, <1>9
<1>12. Elems(r)' = Append(Elems(r), Now)
  BY <1>10, <1>11, SeqEqual
<1>13. QED
  BY <1>4, <1>5, <1>6, <1>12

(* What Use does: to the chain of the router, or to the global one.          *)
LEMMA Using ==
  ASSUME Base, NEW r, Use(r)
  PROVE  /\ Base' /\ Routers' = Routers /\ errorHandler' = errorHandler
         /\ IsSubRouter(r) => Elems(r)' = Append(Elems(r), Now) /\ globalChain' = globalChain
         /\ ~IsSubRouter(r) => globalChain' = Append(globalChain, Now) /\ Elems(r)' = Elems(r)
         /\ \A s \in Routers \ {r} : Elems(s)' = Elems(s)
<1>1. /\ Past' /\ Len(calls') = Now /\ Now \in 1..MaxCalls /\ Now = Len(calls) + 1 /\ Len(calls) \in Nat
      /\ r \in Routers /\ Routers \subseteq 0..Len(calls')
  BY OneMore DEF Base, Use
<1>2. /\ 0 \in Routers /\ routeChain \in [Routers -> [array : Nat, len : Nat]]
      /\ globalChain \in Seq(1..MaxCalls)
  BY DEF Base, Domains
<1>3. errorHandler' = errorHandler /\ errorHandler \in [Routers -> 0..Len(calls')]
  BY <1>1 DEF Use, Base, Domains
<1>4. CASE IsSubRouter(r)
  <2>1. Called("use", r) /\ AppendTo(r, Now) /\ globalChain' = globalChain
    BY <1>4 DEF Use
  <2>2. /\ Routers' = Routers /\ routeChain' \in [Routers -> [array : Nat, len : Nat]]
        /\ Arrays'
        /\ Elems(r)' = Append(Elems(r), Now)
        /\ \A s \in Routers \ {r} : Elems(s)' = Elems(s)
    BY <2>1, Appending
  <2>3. Domains'
    BY <1>1, <1>2, <1>3, <2>1, <2>2 DEF Domains
  <2>4. \A s \in Routers : Elems(s)' \in Seq(1..MaxCalls)
    <3>1. \A s \in Routers : Elems(s) \in Seq(1..MaxCalls)
      BY DEF Base, Chains, Elems
    <3>2. Append(Elems(r), Now) \in Seq(1..MaxCalls)
      BY <1>1, <3>1
    <3>3. QED
      BY <2>2, <3>1, <3>2
  <2>5. QED
    BY <1>3, <1>4, <2>1, <2>2, <2>3, <2>4 DEF Base, Chains, Elems
<1>5. CASE ~IsSubRouter(r)
  <2>1. globalChain' = Append(globalChain, Now) /\ UNCHANGED <<routeChain, arrays>>
    BY <1>5 DEF Use
  <2>2. \A s : Elems(s)' = Elems(s)
    BY <2>1 DEF Elems, Elements
  <2>3. Routers' = Routers
    BY <2>1 DEF Routers
  <2>4. globalChain' \in Seq(1..MaxCalls)
    BY <1>1, <2>1 DEF Base, Domains
  <2>5. Domains'
    BY <1>1, <1>2, <1>3, <2>1, <2>3, <2>4 DEF Domains
  <2>6. Arrays'
    BY <1>1, <2>1, <2>3 DEF Base, Arrays
  <2>7. Chains'
    BY <2>1, <2>3 DEF Base, Chains, Elements
  <2>8. QED
    BY <1>1, <1>3, <1>5, <2>1, <2>2, <2>3, <2>5, <2>6, <2>7 DEF Base
<1>6. QED
  BY <1>4, <1>5

(* What Group does: the new router has copies, in an array of its own.       *)
LEMMA Grouping ==
  ASSUME Base, NEW r, Group(r), NEW n, n = Now
  PROVE  /\ Base' /\ Routers' = Routers \cup {n}
         /\ Elems(n)' = Elems(r) /\ errorHandler'[n] = errorHandler[r]
         /\ \A s \in Routers : Elems(s)' = Elems(s) /\ errorHandler'[s] = errorHandler[s]
<1>1. /\ Past' /\ Len(calls') = n /\ n \in 1..MaxCalls /\ n = Len(calls) + 1 /\ Len(calls) \in Nat
      /\ r \in Routers /\ Routers \subseteq 0..Len(calls') /\ n \notin Routers
  BY OneMore DEF Base, Group, SubRouter
<1>2. /\ 0 \in Routers /\ routeChain \in [Routers -> [array : Nat, len : Nat]]
      /\ globalChain \in Seq(1..MaxCalls) /\ errorHandler \in [Routers -> 0..Len(calls)]
  BY DEF Base, Domains
<1> DEFINE slice == [routeChain[r] EXCEPT !.array = n]
<1>3. /\ routeChain' = With(routeChain, n, slice)
      /\ errorHandler' = With(errorHandler, n, errorHandler[r])
      /\ globalChain' = globalChain
  BY DEF Group, SubRouter
<1>4. slice \in [array : Nat, len : Nat] /\ slice.array = n /\ slice.len = routeChain[r].len
  <2>1. routeChain[r] \in [array : Nat, len : Nat]
    BY <1>1, <1>2
  <2>2. QED
    BY <1>1, <2>1
<1> HIDE DEF slice
<1>5. /\ Routers' = Routers \cup {n} /\ routeChain' \in [Routers' -> [array : Nat, len : Nat]]
      /\ routeChain'[n] = slice /\ \A s \in Routers : routeChain'[s] = routeChain[s]
  BY <1>1, <1>2, <1>3, <1>4 DEF With, Routers
<1>6. /\ errorHandler' \in [Routers' -> 0..Len(calls')]
      /\ errorHandler'[n] = errorHandler[r] /\ \A s \in Routers : errorHandler'[s] = errorHandler[s]
  <2>1. DOMAIN errorHandler' = Routers'
    BY <1>2, <1>3, <1>5 DEF With
  <2>2. errorHandler'[n] = errorHandler[r] /\ \A s \in Routers : errorHandler'[s] = errorHandler[s]
    BY <1>1, <1>2, <1>3 DEF With
  <2>3. \A s \in Routers : errorHandler[s] \in 0..Len(calls')
    BY <1>1, <1>2
  <2>4. errorHandler' = [s \in Routers' |-> errorHandler'[s]]
    BY <1>3, <2>1 DEF With
  <2>5. QED
    BY <1>1, <1>5, <2>2, <2>3, <2>4
<1>7. Domains'
  <2>1. Routers' \subseteq 0..Len(calls') /\ 0 \in Routers'
    <3>1. n \in 0..Len(calls')
      BY <1>1
    <3>2. Routers' = Routers \cup {n} /\ Routers \subseteq 0..Len(calls') /\ 0 \in Routers
      BY <1>1, <1>2, <1>5
    <3>3. QED
      BY <3>1, <3>2
  <2>2. globalChain' \in Seq(1..MaxCalls)
    BY <1>2, <1>3
  <2>3. QED
    BY <1>1, <1>5, <1>6, <2>1, <2>2 DEF Domains
<1>8. PICK spare \in 0..MaxSpare : arrays' = With(arrays, n, Padded(Elems(r), spare))
  BY DEF Group, NewArray, Elems
<1> DEFINE new == Padded(Elems(r), spare)
<1>9. Elems(r) \in Seq(0..MaxCalls) /\ Len(Elems(r)) = routeChain[r].len
  BY <1>1, Reading DEF Base
<1>10. /\ new \in Seq(0..MaxCalls) /\ slice.len <= Len(new)
       /\ \A i \in 1..slice.len : new[i] = Elems(r)[i]
  <2>1. new \in Seq(0..MaxCalls) /\ Len(new) = Len(Elems(r)) + spare
        /\ \A i \in 1..Len(Elems(r)) : new[i] = Elems(r)[i]
    BY <1>9, Room
  <2> HIDE DEF new
  <2>2. QED
    BY <1>4, <1>9, <2>1, BoundsAssumption
<1>11. arrays' = With(arrays, n, new)
  BY <1>8
<1> HIDE DEF new
<1>12. /\ arrays \in [DOMAIN arrays -> Seq(0..MaxCalls)] /\ n \notin DOMAIN arrays
       /\ DOMAIN arrays \subseteq 0..Len(calls) /\ 0 \in DOMAIN arrays /\ arrays[0] = <<>>
       /\ \A s \in Routers : /\ routeChain[s].array \in DOMAIN arrays
                             /\ routeChain[s].len <= Len(arrays[routeChain[s].array])
  BY <1>1 DEF Base, Arrays
<1>13. /\ DOMAIN arrays' = DOMAIN arrays \cup {n} /\ arrays' \in [DOMAIN arrays' -> Seq(0..MaxCalls)]
       /\ arrays'[n] = new /\ \A b \in DOMAIN arrays : arrays'[b] = arrays[b]
  BY <1>10, <1>11, <1>12 DEF With
<1>14. Arrays'
  <2>1. DOMAIN arrays' \subseteq 0..Len(calls') /\ 0 \in DOMAIN arrays' /\ arrays'[0] = <<>>
    BY <1>1, <1>12, <1>13
  <2>2. \A s \in Routers' : /\ routeChain'[s].array \in DOMAIN arrays'
                            /\ routeChain'[s].len <= Len(arrays'[routeChain'[s].array])
    BY <1>4, <1>5, <1>10, <1>12, <1>13
  <2>3. \A s, t \in Routers :
          s # t /\ routeChain[s].array # 0 => routeChain[s].array # routeChain[t].array
    BY DEF Base, Arrays
  <2>4. \A s \in Routers : routeChain[s].array # n
    BY <1>12
  <2>5. \A s, t \in Routers' :
          s # t /\ routeChain'[s].array # 0 => routeChain'[s].array # routeChain'[t].array
    BY <1>4, <1>5, <2>3, <2>4
  <2>6. QED
    BY <1>13, <2>1, <2>2, <2>5 DEF Arrays
<1>15. \A s \in Routers : Elems(s)' = Elems(s)
  BY <1>5, <1>12, <1>13 DEF Elems, Elements
<1>16. Elems(n)' = Elems(r)
  <2>1. Elems(n)' = SubSeq(new, 1, slice.len)
    BY <1>4, <1>5, <1>13 DEF Elems, Elements
  <2>2. /\ SubSeq(new, 1, slice.len) \in Seq(0..MaxCalls) /\ Len(SubSeq(new, 1, slice.len)) = slice.len
        /\ \A i \in 1..slice.len : SubSeq(new, 1, slice.len)[i] = new[i]
    BY <1>4, <1>10, Prefix
  <2>3. SubSeq(new, 1, slice.len) = Elems(r)
    BY <1>4, <1>9, <1>10, <2>2, SeqEqual
  <2>4. QED
    BY <2>1, <2>3
<1>17. Chains'
  BY <1>1, <1>5, <1>15, <1>16 DEF Base, Chains, Elems
<1>18. QED
  BY <1>5, <1>6, <1>7, <1>14, <1>15, <1>16, <1>17 DEF Base

(* What the other two calls do.                                              *)
LEMMA Setting ==
  ASSUME Base, NEW r, SetErrorHandler(r)
  PROVE  /\ Base' /\ Routers' = Routers /\ \A s \in Routers : Elems(s)' = Elems(s)
         /\ errorHandler'[r] = Now /\ \A s \in Routers \ {r} : errorHandler'[s] = errorHandler[s]
<1>1. /\ Past' /\ Len(calls') = Now /\ Now \in 1..MaxCalls /\ Now = Len(calls) + 1 /\ Len(calls) \in Nat
      /\ r \in Routers /\ Routers \subseteq 0..Len(calls')
  BY OneMore DEF Base, SetErrorHandler
<1>2. /\ UNCHANGED <<globalChain, routeChain, arrays>>
      /\ errorHandler' = [errorHandler EXCEPT ![r] = Now]
  BY DEF SetErrorHandler
<1>3. Routers' = Routers /\ \A s : Elems(s)' = Elems(s)
  BY <1>2 DEF Routers, Elems, Elements
<1>4. /\ 0 \in Routers /\ routeChain \in [Routers -> [array : Nat, len : Nat]]
      /\ globalChain \in Seq(1..MaxCalls) /\ errorHandler \in [Routers -> 0..Len(calls)]
  BY DEF Base, Domains
<1>5. errorHandler' \in [Routers -> 0..Len(calls')]
  BY <1>1, <1>2, <1>4
<1>6. Domains'
  BY <1>1, <1>2, <1>3, <1>4, <1>5 DEF Domains
<1>7. Arrays'
  BY <1>1, <1>2, <1>3 DEF Base, Arrays
<1>8. Chains'
  BY <1>2, <1>3 DEF Base, Chains, Elements
<1>9. QED
  BY <1>1, <1>2, <1>3, <1>4, <1>6, <1>7, <1>8 DEF Base

LEMMA Handling ==
  ASSUME Base, NEW r, NEW p, Handle(r, p)
  PROVE  /\ Base' /\ Routers' = Routers /\ errorHandler' = errorHandler
         /\ globalChain' = globalChain /\ \A s \in Routers : Elems(s)' = Elems(s)
<1>1. /\ Past' /\ Len(calls') = Now /\ Now = Len(calls) + 1 /\ Len(calls) \in Nat
      /\ Routers \subseteq 0..Len(calls')
  BY OneMore DEF Base, Handle
<1>2. UNCHANGED <<globalChain, routeChain, arrays, errorHandler>>
  BY DEF Handle, routerVars
<1>3. Routers' = Routers /\ \A s : Elems(s)' = Elems(s)
  BY <1>2 DEF Routers, Elems, Elements
<1>4. /\ 0 \in Routers /\ routeChain \in [Routers -> [array : Nat, len : Nat]]
      /\ globalChain \in Seq(1..MaxCalls) /\ errorHandler \in [Routers -> 0..Len(calls')]
  BY <1>1 DEF Base, Domains
<1>5. Domains'
  BY <1>1, <1>2, <1>3, <1>4 DEF Domains
<1>6. Arrays'
  BY <1>1, <1>2, <1>3 DEF Base, Arrays
<1>7. Chains'
  BY <1>2, <1>3 DEF Base, Chains, Elements
<1>8. QED
  BY <1>2, <1>3, <1>5, <1>6, <1>7 DEF Base

-----------------------------------------------------------------------------
(* The invariance of Base, and what it gives                                 *)

LEMMA BaseInit == Init => Base
<1> SUFFICES ASSUME Init PROVE Base
  OBVIOUS
<1>1. /\ Routers = {0} /\ routeChain = [r \in {0} |-> NilSlice] /\ routeChain[0] = NilSlice
      /\ arrays = [a \in {0} |-> <<>>] /\ errorHandler = [r \in {0} |-> 0]
      /\ calls = <<>> /\ globalChain = <<>>
  BY DEF Init, Single, Routers
<1>2. NilSlice \in [array : Nat, len : Nat] /\ NilSlice.array = 0 /\ NilSlice.len = 0
  BY DEF NilSlice
<1>3. Domains
  BY <1>1, <1>2, BoundsAssumption DEF Domains, Past
<1>4. Arrays
  BY <1>1, <1>2 DEF Arrays
<1>5. Elements(routeChain[0]) = <<>>
  BY <1>1, <1>2, <1>3, <1>4, Reading DEF Elems
<1>6. QED
  BY <1>1, <1>3, <1>4, <1>5 DEF Base, Chains

LEMMA BaseStep == Base /\ [Next]_vars => Base'
<1>1. ASSUME Base, UNCHANGED vars PROVE Base'
  BY <1>1 DEF vars, routerVars, history, Base, Domains, Past, Arrays, Chains, Routers, Elements
<1>2. QED
  BY <1>1, Using, Grouping, Setting, Handling DEF Next

(* No call on a router changes the middlewares or the error handler of      *)
(* another: router.go 50 clones, and no two slices share an array.           *)
THEOREM Independence == Spec => GroupsAreIndependent
<1>1. Spec => []Base
  BY BaseInit, BaseStep, PTL DEF Spec
<1>2. Base /\ [Next]_vars =>
        [\A r \in Routers : r # calls'[Len(calls')].on =>
           /\ Elements(routeChain[r])' = Elements(routeChain[r])
           /\ errorHandler'[r] = errorHandler[r]]_vars
  <2> SUFFICES ASSUME Base, NEW on \in Routers,
                      \/ SetErrorHandler(on) \/ Use(on) \/ Group(on)
                      \/ \E p \in Patterns : Handle(on, p)
               PROVE  \A r \in Routers : r # calls'[Len(calls')].on =>
                        Elems(r)' = Elems(r) /\ errorHandler'[r] = errorHandler[r]
    BY DEF Next, Elems
  <2>1. calls'[Len(calls')].on = on
    <3>1. PICK op \in {"use", "errors", "group", "handle"} : Called(op, on)
      BY DEF SetErrorHandler, Use, Group, SubRouter, Handle
    <3>2. calls'[Len(calls')] = [op |-> op, on |-> on]
      BY <3>1, OneMore DEF Base
    <3>3. QED
      BY <3>2
  <2>2. QED
    BY <2>1, Using, Grouping, Setting, Handling
<1>3. QED
  BY <1>1, <1>2, PTL DEF Spec, GroupsAreIndependent

-----------------------------------------------------------------------------
(* Which calls count for a router                                            *)

(* A router left its ancestors by calls that came before it.                 *)
Descent ==
  /\ DOMAIN left = Routers
  /\ \A r \in Routers : \A a \in DOMAIN left[r] :
       a \in Routers /\ a < r /\ left[r][a] \in Nat /\ left[r][a] <= r

(* The calls of one kind that count for a router by now.                     *)
Reach(op, r) == {j \in CallsOf(op) : CountsFor(j, r, Now)}

(* A call counts for the router it is made on, and for no other yet.         *)
LEMMA Counting ==
  ASSUME Base, Descent, NEW op \in {"use", "errors", "handle"}, NEW r, Called(op, r), left' = left,
         NEW s \in Routers
  PROVE  \A o : Reach(o, s)' = IF o = op /\ s = r THEN Reach(o, s) \cup {Now} ELSE Reach(o, s)
<1>1. /\ Past' /\ Len(calls') = Now /\ Now = Len(calls) + 1 /\ Len(calls) \in Nat
      /\ calls'[Now] = [op |-> op, on |-> r] /\ \A j \in 1..Len(calls) : calls'[j] = calls[j]
  BY OneMore DEF Base
<1>2. /\ DOMAIN calls = 1..Len(calls) /\ DOMAIN calls' = 1..Len(calls')
  BY <1>1 DEF Base, Domains, Past
<1>3. s \in 0..Len(calls) /\ \A a \in DOMAIN left[s] : left[s][a] \in Nat /\ left[s][a] <= s
  BY DEF Base, Domains, Descent
<1>4. \A j \in 1..Len(calls) : CountsFor(j, s, Now)' <=> CountsFor(j, s, Now)
  <2>1. \A j \in 1..Len(calls) : j < Now /\ j < Now'
    BY <1>1 DEF Now
  <2>2. QED
    BY <1>1, <2>1 DEF CountsFor
<1>5. \A j \in DOMAIN calls' : j = Now => (CountsFor(j, s, Now)' <=> s = r)
  <2>1. Now < Now' /\ \A a \in DOMAIN left[s] : ~(Now < left[s][a])
    BY <1>1, <1>3 DEF Now
  <2>2. QED
    BY <1>1, <2>1 DEF CountsFor
<1>6. \A j \in DOMAIN calls' : j \in 1..Len(calls) \/ j = Now
  BY <1>1, <1>2
<1>7. Now \in DOMAIN calls' /\ Now \notin DOMAIN calls
  BY <1>1, <1>2
<1>8. QED
  BY <1>1, <1>2, <1>4, <1>5, <1>6, <1>7 DEF Reach, CallsOf

(* A new router starts with the calls that count for its parent.             *)
LEMMA Inheriting ==
  ASSUME Base, Descent, NEW r, Group(r), NEW n, n = Now
  PROVE  /\ Descent'
         /\ \A o : o # "group" => /\ Reach(o, n)' = Reach(o, r)
                                  /\ \A s \in Routers : Reach(o, s)' = Reach(o, s)
<1>1. /\ Past' /\ Len(calls') = n /\ n = Len(calls) + 1 /\ Len(calls) \in Nat
      /\ r \in Routers /\ r \in 0..Len(calls) /\ n \notin Routers
      /\ calls'[n] = [op |-> "group", on |-> r] /\ \A j \in 1..Len(calls) : calls'[j] = calls[j]
  BY OneMore DEF Base, Group, SubRouter
<1>2. DOMAIN calls = 1..Len(calls) /\ DOMAIN calls' = 1..Len(calls') /\ \A j \in 1..Len(calls) : calls[j].on < j
  BY <1>1 DEF Base, Domains, Past
<1>3. \A s \in Routers : /\ s \in 0..Len(calls)
                         /\ \A a \in DOMAIN left[s] :
                              a \in Routers /\ a < s /\ left[s][a] \in Nat /\ left[s][a] <= s
  BY DEF Base, Domains, Descent
<1>4. left' = With(left, n, With(left[r], r, n)) /\ DOMAIN left = Routers
  BY DEF Group, SubRouter, Descent
<1>5. /\ DOMAIN left' = Routers \cup {n} /\ \A s \in Routers : left'[s] = left[s]
      /\ left'[n] = With(left[r], r, n)
  BY <1>1, <1>4 DEF With
<1>6. /\ DOMAIN left'[n] = DOMAIN left[r] \cup {r} /\ left'[n][r] = n
      /\ \A a \in DOMAIN left[r] : left'[n][a] = left[r][a]
  <2>1. r \notin DOMAIN left[r]
    BY <1>1, <1>3
  <2>2. QED
    BY <1>5, <2>1 DEF With
<1>7. Routers' = Routers \cup {n}
  BY Grouping
<1>8. Descent'
  <2>1. \A a \in DOMAIN left'[n] : a \in Routers' /\ a < n /\ left'[n][a] \in Nat /\ left'[n][a] <= n
    <3>1. r \in Routers' /\ r < n /\ n \in Nat /\ n <= n
      BY <1>1, <1>7
    <3>2. \A a \in DOMAIN left[r] : a \in Routers' /\ a < n /\ left[r][a] \in Nat /\ left[r][a] <= n
      <4>1. TAKE a \in DOMAIN left[r]
      <4>2. a \in 0..Len(calls) /\ a < r /\ left[r][a] \in Nat /\ left[r][a] <= r /\ a \in Routers
        BY <1>1, <1>3
      <4>3. QED
        BY <1>1, <1>7, <4>2
    <3>3. QED
      BY <1>6, <3>1, <3>2
  <2>2. \A s \in Routers : \A a \in DOMAIN left'[s] :
          a \in Routers' /\ a < s /\ left'[s][a] \in Nat /\ left'[s][a] <= s
    BY <1>3, <1>5, <1>7
  <2>3. QED
    BY <1>5, <1>7, <2>1, <2>2 DEF Descent
<1>9. \A j \in 1..Len(calls) : j < Now /\ j < Now' /\ calls[j].on # n
  <2>1. \A j \in 1..Len(calls) : calls[j].on < j /\ calls[j].on \in Int
    <3>1. calls \in Seq([op : {"use", "errors", "group", "handle"}, on : 0..MaxCalls])
      BY DEF Base, Domains, Past
    <3>2. \A j \in 1..Len(calls) : calls[j] \in [op : {"use", "errors", "group", "handle"}, on : 0..MaxCalls]
      BY <3>1, ElementOfSeq
    <3>3. \A j \in 1..Len(calls) : calls[j].on \in 0..MaxCalls
      BY <3>2
    <3>4. QED
      BY <1>2, <3>3
  <2>2. QED
    BY <1>1, <2>1 DEF Now
<1>10. \A s \in Routers, j \in 1..Len(calls) : CountsFor(j, s, Now)' <=> CountsFor(j, s, Now)
  BY <1>1, <1>5, <1>9 DEF CountsFor
<1>11. \A j \in 1..Len(calls) : CountsFor(j, n, Now)' <=> CountsFor(j, r, Now)
  <2>1. TAKE j \in 1..Len(calls)
  <2> DEFINE on == calls[j].on
  <2>2. calls'[j].on = on /\ on # n /\ j < Now /\ j < n
    BY <1>1, <1>9 DEF Now
  <2>3. CountsFor(j, n, Now)' <=> on \in DOMAIN left'[n] /\ j < left'[n][on]
    BY <2>2 DEF CountsFor
  <2>4. CountsFor(j, r, Now) <=> on = r \/ (on \in DOMAIN left[r] /\ j < left[r][on])
    BY <1>1, <1>3, <2>2 DEF CountsFor
  <2>5. QED
    BY <1>1, <1>3, <1>6, <2>2, <2>3, <2>4
<1>12. \A o : o # "group" => CallsOf(o)' = CallsOf(o) /\ CallsOf(o) \subseteq 1..Len(calls)
  <2>1. calls'[n].op = "group" /\ \A j \in 1..Len(calls) : calls'[j].op = calls[j].op
    BY <1>1
  <2>2. 1..Len(calls') = 1..Len(calls) \cup {n}
    BY <1>1
  <2>3. QED
    BY <1>2, <2>1, <2>2 DEF CallsOf
<1>13. \A o : o # "group" => /\ Reach(o, n)' = Reach(o, r)
                            /\ \A s \in Routers : Reach(o, s)' = Reach(o, s)
  <2>1. TAKE o
  <2>2. HAVE o # "group"
  <2>3. CallsOf(o)' = CallsOf(o) /\ CallsOf(o) \subseteq 1..Len(calls)
    BY <1>12, <2>2
  <2>4. Reach(o, n)' = {j \in CallsOf(o)' : CountsFor(j, n, Now)'}
    BY DEF Reach
  <2>5. \A s : Reach(o, s)' = {j \in CallsOf(o)' : CountsFor(j, s, Now)'}
    BY DEF Reach
  <2>6. QED
    BY <1>10, <1>11, <2>3, <2>4, <2>5 DEF Reach
<1>14. QED
  BY <1>8, <1>13

(* Which calls a registration made at call b counts on does not change.      *)
LEMMA Registered ==
  ASSUME Base, Descent, NEW op \in {"use", "errors", "group", "handle"}, NEW r, Called(op, r),
         NEW s \in Routers, left'[s] = left[s], NEW b \in 1..Len(calls), NEW o
  PROVE  {j \in CallsOf(o) : CountsFor(j, s, b)}' = {j \in CallsOf(o) : CountsFor(j, s, b)}
<1>1. /\ Past' /\ Len(calls') = Now /\ Now = Len(calls) + 1 /\ Len(calls) \in Nat
      /\ calls'[Now] = [op |-> op, on |-> r] /\ \A j \in 1..Len(calls) : calls'[j] = calls[j]
  BY OneMore DEF Base
<1>2. DOMAIN calls = 1..Len(calls) /\ DOMAIN calls' = 1..Len(calls')
  BY <1>1 DEF Base, Domains, Past
<1>3. s \in 0..Len(calls) /\ \A a \in DOMAIN left[s] : left[s][a] \in Nat /\ left[s][a] <= s
  BY DEF Base, Domains, Descent
<1>4. \A j \in 1..Len(calls) : CountsFor(j, s, b)' <=> CountsFor(j, s, b)
  BY <1>1 DEF CountsFor
<1>5. \A j \in DOMAIN calls' : j = Now => ~CountsFor(j, s, b)'
  <2>1. ~(Now < b) /\ \A a \in DOMAIN left[s] : ~(Now < left[s][a])
    BY <1>1, <1>3
  <2>2. QED
    BY <1>1, <2>1 DEF CountsFor
<1>6. \A j \in DOMAIN calls' : j \in 1..Len(calls) \/ j = Now
  BY <1>1, <1>2
<1>7. \A j \in 1..Len(calls) : j \in CallsOf(o)' <=> j \in CallsOf(o)
  BY <1>1, <1>2 DEF CallsOf
<1>8. CallsOf(o)' \subseteq DOMAIN calls' /\ CallsOf(o) \subseteq 1..Len(calls)
  BY <1>2 DEF CallsOf
<1>9. QED
  BY <1>4, <1>5, <1>6, <1>7, <1>8

-----------------------------------------------------------------------------
(* The inductive invariant: every router has the error handler and the       *)
(* middlewares of the calls that count for it, every route those that did    *)
(* when it was registered.                                                   *)

GroupUses(r) == {j \in Reach("use", r) : IsSubRouter(calls[j].on)}
GlobalUses   == {j \in CallsOf("use") : ~IsSubRouter(calls[j].on)}
RouteUses(r, b) == {j \in {i \in CallsOf("use") : CountsFor(i, r, b)} : IsSubRouter(calls[j].on)}

Errors ==
  \A r \in Routers : /\ errorHandler[r] \in Reach("errors", r) \cup {0}
                     /\ \A j \in Reach("errors", r) : j <= errorHandler[r]

Orders ==
  /\ \A r \in Routers : InOrder(Elems(r), GroupUses(r))
  /\ InOrder(globalChain, GlobalUses)

(* A route: the middlewares of the calls that counted for its router then.   *)
Route(chain, r, b) == [chain |-> chain, router |-> r, at |-> b]

Muxes ==
  /\ DOMAIN mux \subseteq Patterns
  /\ \A p \in DOMAIN mux :
       \E chain \in Seq(1..MaxCalls), r \in Routers, b \in 1..Len(calls) :
         mux[p] = Route(chain, r, b) /\ InOrder(chain, RouteUses(r, b))

RInv == Base /\ Descent /\ Errors /\ Orders /\ Muxes

(* The next middleware comes last.                                           *)
LEMMA InOrderAppend ==
  ASSUME NEW seq \in Seq(Nat), NEW S, InOrder(seq, S), NEW m \in Nat, \A e \in S : e < m
  PROVE  InOrder(Append(seq, m), S \cup {m})
<1> DEFINE new == Append(seq, m)
<1>1. /\ DOMAIN seq = 1..Len(seq) /\ DOMAIN new = 1..(Len(seq) + 1) /\ Len(seq) \in Nat
      /\ new[Len(seq) + 1] = m /\ \A i \in 1..Len(seq) : new[i] = seq[i]
  OBVIOUS
<1>2. \A i \in 1..(Len(seq) + 1) : i \in 1..Len(seq) \/ i = Len(seq) + 1
  BY <1>1
<1>3. \A i \in 1..Len(seq) : i \in 1..(Len(seq) + 1) /\ Len(seq) + 1 \in 1..(Len(seq) + 1)
  BY <1>1
<1>4. \A i \in 1..Len(seq) : seq[i] \in S
  BY <1>1 DEF InOrder
<1>5. \A i, j \in 1..Len(seq) : i < j => seq[i] < seq[j]
  BY <1>1 DEF InOrder
<1> HIDE DEF new
<1>6. \A i, j \in DOMAIN new : i < j => new[i] < new[j]
  <2> SUFFICES ASSUME NEW i \in 1..(Len(seq) + 1), NEW j \in 1..(Len(seq) + 1), i < j
               PROVE  new[i] < new[j]
    BY <1>1
  <2>1. i \in 1..Len(seq) /\ new[i] = seq[i]
    BY <1>1, <1>2
  <2>2. CASE j = Len(seq) + 1
    BY <1>1, <1>4, <2>1, <2>2
  <2>3. CASE j \in 1..Len(seq)
    BY <1>1, <1>5, <2>1, <2>3
  <2>4. QED
    BY <1>2, <2>2, <2>3
<1>7. {new[i] : i \in DOMAIN new} = S \cup {m}
  <2>1. \A i \in DOMAIN new : new[i] \in S \cup {m}
    BY <1>1, <1>2, <1>4
  <2>2. \A e \in S : \E i \in 1..Len(seq) : seq[i] = e
    BY <1>1 DEF InOrder
  <2>3. \A e \in S \cup {m} : \E i \in DOMAIN new : new[i] = e
    BY <1>1, <1>3, <2>2
  <2>4. QED
    BY <2>1, <2>3
<1>8. QED
  BY <1>6, <1>7 DEF InOrder, new

(* How the sets of calls grow with a call that makes no router.              *)
LEMMA Growing ==
  ASSUME Base, Descent, NEW op \in {"use", "errors", "handle"}, NEW r, Called(op, r), left' = left
  PROVE  /\ \A s \in Routers : GroupUses(s)' = IF op = "use" /\ s = r /\ IsSubRouter(r)
                                               THEN GroupUses(s) \cup {Now} ELSE GroupUses(s)
         /\ GlobalUses' = IF op = "use" /\ ~IsSubRouter(r) THEN GlobalUses \cup {Now} ELSE GlobalUses
         /\ \A s \in Routers, b \in 1..Len(calls) : RouteUses(s, b)' = RouteUses(s, b)
         /\ \A e \in CallsOf("use") \cup CallsOf("errors") : e \in Nat /\ e < Now
<1>1. /\ Past' /\ Len(calls') = Now /\ Now = Len(calls) + 1 /\ Len(calls) \in Nat
      /\ calls'[Now] = [op |-> op, on |-> r] /\ \A j \in 1..Len(calls) : calls'[j] = calls[j]
  BY OneMore DEF Base
<1>2. DOMAIN calls = 1..Len(calls) /\ DOMAIN calls' = 1..Len(calls')
  BY <1>1 DEF Base, Domains, Past
<1>3. \A o : CallsOf(o) \subseteq 1..Len(calls)
  BY <1>2 DEF CallsOf
<1>4. \A e \in 1..Len(calls) : e \in Nat /\ e < Now
  BY <1>1
<1>6. \A s \in Routers : Reach("use", s)' = IF op = "use" /\ s = r THEN Reach("use", s) \cup {Now} ELSE Reach("use", s)
  BY Counting
<1>7. \A s \in Routers : Reach("use", s) \subseteq 1..Len(calls)
  BY <1>3 DEF Reach
<1>8. calls'[Now].on = r /\ \A j \in 1..Len(calls) : calls'[j].on = calls[j].on
  BY <1>1
<1>9. \A s \in Routers : GroupUses(s)' = {j \in Reach("use", s)' : IsSubRouter(calls'[j].on)}
  BY DEF GroupUses, IsSubRouter
<1>10. \A s \in Routers : GroupUses(s)' = IF op = "use" /\ s = r /\ IsSubRouter(r)
                                          THEN GroupUses(s) \cup {Now} ELSE GroupUses(s)
  BY <1>6, <1>7, <1>8, <1>9 DEF GroupUses
<1>11. CallsOf("use")' = IF op = "use" THEN CallsOf("use") \cup {Now} ELSE CallsOf("use")
  <2>1. calls'[Now].op = op /\ \A j \in 1..Len(calls) : calls'[j].op = calls[j].op
    BY <1>1
  <2>2. 1..Len(calls') = 1..Len(calls) \cup {Now}
    BY <1>1
  <2>3. QED
    BY <1>2, <2>1, <2>2 DEF CallsOf
<1>12. GlobalUses' = IF op = "use" /\ ~IsSubRouter(r) THEN GlobalUses \cup {Now} ELSE GlobalUses
  <2>1. GlobalUses' = {j \in CallsOf("use")' : ~IsSubRouter(calls'[j].on)}
    BY DEF GlobalUses, IsSubRouter
  <2>2. QED
    BY <1>3, <1>8, <1>11, <2>1 DEF GlobalUses
<1>13. \A s \in Routers, b \in 1..Len(calls) : RouteUses(s, b)' = RouteUses(s, b)
  <2>1. TAKE s \in Routers, b \in 1..Len(calls)
  <2> DEFINE U == {j \in CallsOf("use") : CountsFor(j, s, b)}
  <2>2. U' = U
    BY Registered
  <2>3. U \subseteq 1..Len(calls)
    BY <1>3
  <2>4. RouteUses(s, b) = {j \in U : IsSubRouter(calls[j].on)}
    BY DEF RouteUses
  <2>5. RouteUses(s, b)' = {j \in U' : IsSubRouter(calls'[j].on)}
    BY DEF RouteUses, IsSubRouter
  <2> HIDE DEF U
  <2>6. QED
    BY <1>8, <2>2, <2>3, <2>4, <2>5
<1>14. QED
  BY <1>3, <1>4, <1>10, <1>12, <1>13

(* The handlers of errors: those of the calls that count.                    *)
LEMMA ErrorsStep == Base /\ Descent /\ Errors /\ [Next]_vars => Errors'
<1> SUFFICES ASSUME Base, Descent, Errors, [Next]_vars PROVE Errors'
  OBVIOUS
<1>1. ASSUME NEW r \in Routers, SetErrorHandler(r) PROVE Errors'
  <2>1. Called("errors", r) /\ left' = left
    BY <1>1 DEF SetErrorHandler
  <2>2. \A s \in Routers : Reach("errors", s)' = IF s = r THEN Reach("errors", s) \cup {Now} ELSE Reach("errors", s)
    BY <2>1, Counting
  <2>3. /\ Routers' = Routers /\ errorHandler'[r] = Now
        /\ \A s \in Routers \ {r} : errorHandler'[s] = errorHandler[s]
    BY <1>1, Setting
  <2>4. \A e \in Reach("errors", r) : e \in Nat /\ e < Now
    BY <2>1, Growing DEF Reach
  <2>5. Now \in Nat
    <3>1. Now = Len(calls) + 1 /\ Len(calls) \in Nat
      BY <2>1, OneMore DEF Base
    <3>2. QED
      BY <3>1
  <2>6. QED
    BY <2>2, <2>3, <2>4, <2>5 DEF Errors
<1>2. ASSUME NEW r \in Routers, NEW op \in {"use", "handle"}, Called(op, r), left' = left,
             Routers' = Routers, errorHandler' = errorHandler
      PROVE  Errors'
  <2>1. \A s \in Routers : Reach("errors", s)' = Reach("errors", s)
    BY <1>2, Counting
  <2>2. QED
    BY <1>2, <2>1 DEF Errors
<1>3. ASSUME NEW r \in Routers, Group(r) PROVE Errors'
  <2>1. PICK n : n = Now
    OBVIOUS
  <2>2. /\ Routers' = Routers \cup {n} /\ errorHandler'[n] = errorHandler[r]
        /\ \A s \in Routers : errorHandler'[s] = errorHandler[s]
    BY <1>3, <2>1, Grouping
  <2>3. Reach("errors", n)' = Reach("errors", r) /\ \A s \in Routers : Reach("errors", s)' = Reach("errors", s)
    BY <1>3, <2>1, Inheriting
  <2>4. QED
    BY <2>2, <2>3 DEF Errors
<1>4. CASE UNCHANGED vars
  BY <1>4 DEF vars, routerVars, history, Errors, Routers, Reach, CallsOf, CountsFor, Now
<1>5. ASSUME NEW r \in Routers, Use(r) PROVE Errors'
  BY <1>2, <1>5, Using DEF Use
<1>6. ASSUME NEW r \in Routers, NEW p, Handle(r, p) PROVE Errors'
  BY <1>2, <1>6, Handling DEF Handle
<1>7. QED
  BY <1>1, <1>3, <1>4, <1>5, <1>6 DEF Next

(* The chains: the middlewares of the calls that count, in order.            *)
LEMMA OrdersStep == Base /\ Descent /\ Orders /\ [Next]_vars => Orders'
<1> SUFFICES ASSUME Base, Descent, Orders, [Next]_vars PROVE Orders'
  OBVIOUS
<1>1. ASSUME NEW r \in Routers, Use(r) PROVE Orders'
  <2>1. Called("use", r) /\ left' = left
    BY <1>1 DEF Use
  <2>2. /\ \A s \in Routers : GroupUses(s)' = IF s = r /\ IsSubRouter(r)
                                              THEN GroupUses(s) \cup {Now} ELSE GroupUses(s)
        /\ GlobalUses' = IF ~IsSubRouter(r) THEN GlobalUses \cup {Now} ELSE GlobalUses
        /\ \A e \in CallsOf("use") : e < Now
    BY <2>1, Growing
  <2>3. /\ Routers' = Routers
        /\ IsSubRouter(r) => Elems(r)' = Append(Elems(r), Now) /\ globalChain' = globalChain
        /\ ~IsSubRouter(r) => globalChain' = Append(globalChain, Now) /\ Elems(r)' = Elems(r)
        /\ \A s \in Routers \ {r} : Elems(s)' = Elems(s)
    BY <1>1, Using
  <2>4. Now \in Nat /\ globalChain \in Seq(Nat) /\ Elems(r) \in Seq(Nat)
    <3>1. Now \in Nat
      <4>1. Now = Len(calls) + 1 /\ Len(calls) \in Nat
        BY <2>1, OneMore DEF Base
      <4>2. QED
        BY <4>1
    <3>2. globalChain \in Seq(1..MaxCalls) /\ Elems(r) \in Seq(1..MaxCalls)
      BY DEF Base, Domains, Chains, Elems
    <3>3. 1..MaxCalls \subseteq Nat
      BY BoundsAssumption
    <3>4. QED
      BY <3>1, <3>2, <3>3, SeqMonotonic
  <2>5. (\A e \in GroupUses(r) : e < Now) /\ (\A e \in GlobalUses : e < Now)
    BY <2>2 DEF GroupUses, GlobalUses, Reach
  <2>6. /\ InOrder(Append(Elems(r), Now), GroupUses(r) \cup {Now})
        /\ InOrder(Append(globalChain, Now), GlobalUses \cup {Now})
    BY <2>4, <2>5, InOrderAppend DEF Orders
  <2>7. \A s \in Routers : InOrder(Elems(s)', GroupUses(s)')
    BY <2>2, <2>3, <2>6 DEF Orders
  <2>8. InOrder(globalChain', GlobalUses')
    BY <2>2, <2>3, <2>6 DEF Orders
  <2>9. QED
    BY <2>3, <2>7, <2>8 DEF Orders, InOrder
<1>2. ASSUME NEW r \in Routers, NEW op \in {"errors", "handle"}, Called(op, r), left' = left,
             Routers' = Routers, globalChain' = globalChain, \A s \in Routers : Elems(s)' = Elems(s)
      PROVE  Orders'
  <2>1. (\A s \in Routers : GroupUses(s)' = GroupUses(s)) /\ GlobalUses' = GlobalUses
    BY <1>2, Growing
  <2>2. QED
    BY <1>2, <2>1 DEF Orders, InOrder
<1>3. ASSUME NEW r \in Routers, Group(r) PROVE Orders'
  <2>1. PICK n : n = Now
    OBVIOUS
  <2>2. /\ Routers' = Routers \cup {n} /\ Elems(n)' = Elems(r)
        /\ \A s \in Routers : Elems(s)' = Elems(s)
    BY <1>3, <2>1, Grouping
  <2>3. Reach("use", n)' = Reach("use", r) /\ \A s \in Routers : Reach("use", s)' = Reach("use", s)
    BY <1>3, <2>1, Inheriting
  <2>4. /\ Past' /\ Len(calls') = n /\ n = Len(calls) + 1 /\ Len(calls) \in Nat
        /\ calls'[n] = [op |-> "group", on |-> r]
        /\ \A j \in 1..Len(calls) : calls'[j] = calls[j]
    BY <1>3, <2>1, OneMore DEF Base, Group, SubRouter
  <2>5. DOMAIN calls = 1..Len(calls) /\ DOMAIN calls' = 1..Len(calls')
    BY <2>4 DEF Base, Domains, Past
  <2>6. CallsOf("use")' = CallsOf("use") /\ CallsOf("use") \subseteq 1..Len(calls)
    <3>1. calls'[n].op = "group" /\ \A j \in 1..Len(calls) : calls'[j].op = calls[j].op
      BY <2>4
    <3>2. 1..Len(calls') = 1..Len(calls) \cup {n}
      BY <2>4
    <3>3. QED
      BY <2>5, <3>1, <3>2 DEF CallsOf
  <2>7. GlobalUses' = GlobalUses
    BY <2>4, <2>6 DEF GlobalUses, IsSubRouter
  <2>8. \A s : GroupUses(s)' = {j \in Reach("use", s)' : IsSubRouter(calls'[j].on)}
    BY DEF GroupUses, IsSubRouter
  <2>9. \A s : Reach("use", s) \subseteq 1..Len(calls)
    BY <2>6 DEF Reach
  <2>10. GroupUses(n)' = GroupUses(r) /\ \A s \in Routers : GroupUses(s)' = GroupUses(s)
    BY <2>3, <2>4, <2>8, <2>9 DEF GroupUses
  <2>11. globalChain' = globalChain
    BY <1>3 DEF Group, SubRouter
  <2>12. QED
    BY <2>2, <2>7, <2>10, <2>11 DEF Orders, InOrder
<1>4. CASE UNCHANGED vars
  <2>1. UNCHANGED <<globalChain, routeChain, arrays, calls, left>>
    BY <1>4 DEF vars, routerVars, history
  <2>2. Routers' = Routers /\ \A s : Elems(s)' = Elems(s)
    BY <2>1 DEF Routers, Elems, Elements
  <2>3. \A s : GroupUses(s)' = GroupUses(s)
    BY <2>1 DEF GroupUses, Reach, CallsOf, CountsFor, Now, IsSubRouter
  <2>4. GlobalUses' = GlobalUses
    BY <2>1 DEF GlobalUses, CallsOf, IsSubRouter
  <2>5. QED
    BY <2>1, <2>2, <2>3, <2>4 DEF Orders, InOrder
<1>5. ASSUME NEW r \in Routers, SetErrorHandler(r) PROVE Orders'
  BY <1>2, <1>5, Setting DEF SetErrorHandler
<1>6. ASSUME NEW r \in Routers, NEW p, Handle(r, p) PROVE Orders'
  BY <1>2, <1>6, Handling DEF Handle
<1>7. QED
  BY <1>1, <1>3, <1>4, <1>5, <1>6 DEF Next

(* Routers keep the way they came.                                           *)
LEMMA DescentStep == Base /\ Descent /\ [Next]_vars => Descent'
<1> SUFFICES ASSUME Base, Descent, [Next]_vars PROVE Descent'
  OBVIOUS
<1>1. ASSUME NEW r \in Routers, Group(r) PROVE Descent'
  BY <1>1, Inheriting
<1>2. ASSUME left' = left, Routers' = Routers PROVE Descent'
  BY <1>2 DEF Descent
<1>3. ASSUME NEW r \in Routers, Use(r) PROVE Descent'
  BY <1>2, <1>3, Using DEF Use
<1>4. ASSUME NEW r \in Routers, SetErrorHandler(r) PROVE Descent'
  BY <1>2, <1>4, Setting DEF SetErrorHandler
<1>5. ASSUME NEW r \in Routers, NEW p, Handle(r, p) PROVE Descent'
  BY <1>2, <1>5, Handling DEF Handle
<1>6. CASE UNCHANGED vars
  BY <1>2, <1>6 DEF vars, routerVars, history, Routers
<1>7. QED
  BY <1>1, <1>3, <1>4, <1>5, <1>6 DEF Next

(* A route that is there keeps what counts for it.                           *)
LEMMA RoutesStay ==
  ASSUME Base, Descent, Muxes, NEW op \in {"use", "errors", "group", "handle"}, NEW r, Called(op, r),
         Routers \subseteq Routers', \A s \in Routers : left'[s] = left[s], NEW p \in DOMAIN mux
  PROVE  \E chain \in Seq(1..MaxCalls), s \in Routers', b \in 1..Len(calls') :
           mux[p] = Route(chain, s, b) /\ InOrder(chain, RouteUses(s, b)')
<1>1. /\ Len(calls') = Now /\ Now = Len(calls) + 1 /\ Len(calls) \in Nat
      /\ \A j \in 1..Len(calls) : calls'[j] = calls[j]
  BY OneMore DEF Base
<1>2. PICK chain \in Seq(1..MaxCalls), s \in Routers, b \in 1..Len(calls) :
        mux[p] = Route(chain, s, b) /\ InOrder(chain, RouteUses(s, b))
  BY DEF Muxes
<1> DEFINE U == {j \in CallsOf("use") : CountsFor(j, s, b)}
<1>3. U' = U
  BY Registered
<1>4. U \subseteq 1..Len(calls)
  BY DEF CallsOf, Base, Domains, Past
<1>5. RouteUses(s, b) = {j \in U : IsSubRouter(calls[j].on)}
  BY DEF RouteUses
<1>6. RouteUses(s, b)' = {j \in U' : IsSubRouter(calls'[j].on)}
  BY DEF RouteUses, IsSubRouter
<1> HIDE DEF U
<1>7. RouteUses(s, b)' = RouteUses(s, b)
  BY <1>1, <1>3, <1>4, <1>5, <1>6
<1>8. b \in 1..Len(calls')
  BY <1>1
<1>9. QED
  BY <1>2, <1>7, <1>8

(* The routes: a new one gets the chain its router has.                      *)
LEMMA MuxesStep == Base /\ Descent /\ Orders /\ Muxes /\ [Next]_vars => Muxes'
<1> SUFFICES ASSUME Base, Descent, Orders, Muxes, [Next]_vars PROVE Muxes'
  OBVIOUS
<1> DEFINE Fine(q) == \E chain \in Seq(1..MaxCalls), s \in Routers', b \in 1..Len(calls') :
                        mux'[q] = Route(chain, s, b) /\ InOrder(chain, RouteUses(s, b)')
<1>1. ASSUME DOMAIN mux' \subseteq Patterns, \A q \in DOMAIN mux' : Fine(q)
      PROVE  Muxes'
  BY <1>1 DEF Muxes, Route, InOrder
<1>2. ASSUME NEW op \in {"use", "errors", "group", "handle"}, NEW r, Called(op, r), mux' = mux,
             Routers \subseteq Routers', \A s \in Routers : left'[s] = left[s]
      PROVE  Muxes'
  <2>1. \A q \in DOMAIN mux' : Fine(q)
    BY <1>2, RoutesStay
  <2>2. DOMAIN mux' \subseteq Patterns
    BY <1>2 DEF Muxes
  <2> HIDE DEF Fine
  <2>3. QED
    BY <1>1, <2>1, <2>2
<1>3. ASSUME NEW r \in Routers, Use(r) PROVE Muxes'
  <2>1. Called("use", r) /\ mux' = mux /\ left' = left /\ Routers' = Routers
    BY <1>3, Using DEF Use
  <2>2. QED
    BY <1>2, <2>1
<1>4. ASSUME NEW r \in Routers, SetErrorHandler(r) PROVE Muxes'
  <2>1. Called("errors", r) /\ mux' = mux /\ left' = left /\ Routers' = Routers
    BY <1>4, Setting DEF SetErrorHandler
  <2>2. QED
    BY <1>2, <2>1
<1>5. ASSUME NEW r \in Routers, Group(r) PROVE Muxes'
  <2>1. Called("group", r) /\ mux' = mux /\ Routers \subseteq Routers'
    BY <1>5, Grouping DEF Group, SubRouter
  <2>2. \A s \in Routers : left'[s] = left[s]
    <3>1. left' = With(left, Now, With(left[r], r, Now)) /\ DOMAIN left = Routers
      BY <1>5 DEF Group, SubRouter, Descent
    <3>2. Now \notin Routers
      BY <2>1, OneMore DEF Base
    <3>3. QED
      BY <3>1, <3>2 DEF With
  <2>3. QED
    BY <1>2, <2>1, <2>2
<1>6. ASSUME NEW r \in Routers, NEW p \in Patterns, Handle(r, p) PROVE Muxes'
  <2>1. PICK n : n = Now
    OBVIOUS
  <2>2. /\ Called("handle", r) /\ left' = left /\ Routers' = Routers
        /\ mux' = With(mux, p, Route(Elems(r), r, n))
    BY <1>6, <2>1, Handling DEF Handle, Route, Elems
  <2>3. /\ DOMAIN mux' = DOMAIN mux \cup {p} /\ mux'[p] = Route(Elems(r), r, n)
        /\ \A q \in DOMAIN mux \ {p} : mux'[q] = mux[q]
    BY <2>2 DEF With
  <2>4. /\ Len(calls') = n /\ n = Len(calls) + 1 /\ Len(calls) \in Nat
        /\ calls'[n] = [op |-> "handle", on |-> r] /\ \A j \in 1..Len(calls) : calls'[j] = calls[j]
    BY <2>1, <2>2, OneMore DEF Base
  <2>5. DOMAIN calls = 1..Len(calls) /\ DOMAIN calls' = 1..Len(calls')
    BY <2>2, OneMore DEF Base, Domains, Past
  <2>6. CallsOf("use")' = CallsOf("use") /\ CallsOf("use") \subseteq 1..Len(calls)
    <3>1. calls'[n].op = "handle" /\ \A j \in 1..Len(calls) : calls'[j].op = calls[j].op
      BY <2>4
    <3>2. 1..Len(calls') = 1..Len(calls) \cup {n}
      BY <2>4
    <3>3. QED
      BY <2>5, <3>1, <3>2 DEF CallsOf
  <2>7. RouteUses(r, n)' = GroupUses(r)
    <3>1. \A j \in 1..Len(calls) : CountsFor(j, r, n)' <=> CountsFor(j, r, Now)
      BY <2>1, <2>2, <2>4 DEF CountsFor
    <3>2. RouteUses(r, n)' = {j \in {i \in CallsOf("use")' : CountsFor(i, r, n)'} : IsSubRouter(calls'[j].on)}
      BY DEF RouteUses, IsSubRouter
    <3>3. \A j \in 1..Len(calls) : calls'[j].on = calls[j].on
      BY <2>4
    <3>4. QED
      BY <2>6, <3>1, <3>2, <3>3 DEF GroupUses, Reach
  <2>8. InOrder(Elems(r), RouteUses(r, n)') /\ Elems(r) \in Seq(1..MaxCalls)
    BY <2>7 DEF Orders, Base, Chains, Elems
  <2>9. n \in 1..Len(calls') /\ r \in Routers'
    BY <2>2, <2>4
  <2>10. PICK chain : chain = Elems(r)
    OBVIOUS
  <2>11. Fine(p)
    <3>1. chain \in Seq(1..MaxCalls) /\ mux'[p] = Route(chain, r, n) /\ InOrder(chain, RouteUses(r, n)')
      BY <2>3, <2>8, <2>10
    <3>2. QED
      BY <2>9, <3>1
  <2>12. \A q \in DOMAIN mux : q # p => Fine(q)
    BY <2>2, <2>3, RoutesStay
  <2>13. DOMAIN mux' \subseteq Patterns
    BY <2>3 DEF Muxes
  <2> HIDE DEF Fine
  <2>14. QED
    BY <1>1, <2>3, <2>11, <2>12, <2>13
<1>7. CASE UNCHANGED vars
  <2>1. UNCHANGED <<routeChain, calls, left, mux>>
    BY <1>7 DEF vars, routerVars, history
  <2>2. \A s, b : RouteUses(s, b)' = RouteUses(s, b)
    BY <2>1 DEF RouteUses, CallsOf, CountsFor, IsSubRouter
  <2>3. \A q \in DOMAIN mux' : Fine(q)
    BY <2>1, <2>2 DEF Muxes, Routers
  <2>4. DOMAIN mux' \subseteq Patterns
    BY <2>1 DEF Muxes
  <2> HIDE DEF Fine
  <2>5. QED
    BY <1>1, <2>3, <2>4
<1>8. QED
  BY <1>3, <1>4, <1>5, <1>6, <1>7 DEF Next

LEMMA RInvInit == Init => RInv
<1> SUFFICES ASSUME Init PROVE RInv
  OBVIOUS
<1>1. Base
  BY BaseInit
<1>2. /\ Routers = {0} /\ left = [r \in {0} |-> <<>>] /\ errorHandler = [r \in {0} |-> 0]
      /\ calls = <<>> /\ globalChain = <<>> /\ mux = <<>>
      /\ routeChain = [r \in {0} |-> NilSlice] /\ arrays = [a \in {0} |-> <<>>]
  BY DEF Init, Single, Routers
<1>3. Descent
  BY <1>2 DEF Descent
<1>4. \A o : CallsOf(o) = {}
  BY <1>2 DEF CallsOf
<1>5. Errors
  BY <1>2, <1>4 DEF Errors, Reach
<1>6. Elems(0) = <<>>
  BY <1>1, <1>2, Reading DEF Base, NilSlice
<1>7. Orders
  BY <1>2, <1>4, <1>6 DEF Orders, InOrder, GroupUses, GlobalUses, Reach
<1>8. Muxes
  BY <1>2 DEF Muxes
<1>9. QED
  BY <1>1, <1>3, <1>5, <1>7, <1>8 DEF RInv

(* The inductive invariant.                                                  *)
THEOREM Invariance == Spec => []RInv
<1>1. RInv /\ [Next]_vars => RInv'
  BY BaseStep, DescentStep, ErrorsStep, OrdersStep, MuxesStep DEF RInv
<1>2. QED
  BY RInvInit, <1>1, PTL DEF Spec

-----------------------------------------------------------------------------
(* The properties                                                            *)

(* Slices fit their arrays, names come from calls: the types of router.go   *)
(* 18-27.                                                                    *)
THEOREM TypeCorrectness == Spec => []TypeOK
<1>1. RInv => TypeOK
  <2> SUFFICES ASSUME RInv PROVE TypeOK
    OBVIOUS
  <2>1. /\ calls \in Seq([op : {"use", "errors", "group", "handle"}, on : 0..MaxCalls])
        /\ globalChain \in Seq(1..MaxCalls) /\ DOMAIN arrays \subseteq 0..Len(calls)
        /\ errorHandler \in [Routers -> 0..Len(calls)]
    BY DEF RInv, Base, Domains, Past, Arrays
  <2>2. \A a \in DOMAIN arrays : arrays[a] \in Seq(0..MaxCalls)
    BY DEF RInv, Base, Arrays
  <2>3. \A r \in Routers : /\ routeChain[r].array \in DOMAIN arrays
                           /\ routeChain[r].len \in 0..Len(arrays[routeChain[r].array])
    <3>1. TAKE r \in Routers
    <3>2. /\ routeChain[r].array \in DOMAIN arrays /\ routeChain[r].len \in Nat
          /\ routeChain[r].len <= Len(arrays[routeChain[r].array])
      BY DEF RInv, Base, Domains, Arrays
    <3>3. Len(arrays[routeChain[r].array]) \in Nat
      BY <2>2, <3>2, LenProperties
    <3>4. QED
      BY <3>2, <3>3
  <2>4. /\ DOMAIN mux \subseteq Patterns
        /\ \A p \in DOMAIN mux : mux[p].router \in Routers /\ mux[p].chain \in Seq(1..MaxCalls)
    BY DEF RInv, Muxes, Route
  <2>5. QED
    BY <2>1, <2>2, <2>3, <2>4 DEF TypeOK
<1>2. QED
  BY Invariance, <1>1, PTL

(* An error goes to the handler set last on the router of its registration, *)
(* or on a parent before its group: Group copies it (router.go 43-52, 81-90). *)
THEOREM ErrorDestination == Spec => []ErrorGoesTo
<1>1. RInv => ErrorGoesTo
  <2> SUFFICES ASSUME RInv, NEW p \in DOMAIN mux
               PROVE  /\ ErrorHandlerOf(p) \in Reach("errors", mux[p].router) \cup {0}
                      /\ \A j \in Reach("errors", mux[p].router) : j <= ErrorHandlerOf(p)
    BY DEF ErrorGoesTo, Reach
  <2>1. mux[p].router \in Routers
    BY DEF RInv, Muxes, Route
  <2>2. QED
    BY <2>1 DEF RInv, Errors, ErrorHandlerOf
<1>2. QED
  BY Invariance, <1>1, PTL

(* Two sequences can be told apart in their concatenation.                   *)
LEMMA Halves ==
  ASSUME NEW S, NEW s \in Seq(S), NEW t \in Seq(S)
  PROVE  /\ Len(s \o t) = Len(s) + Len(t)
         /\ SubSeq(s \o t, 1, Len(s)) = s
         /\ SubSeq(s \o t, Len(s) + 1, Len(s \o t)) = t
<1>1. /\ Len(s) \in Nat /\ Len(t) \in Nat /\ s \o t \in Seq(S) /\ Len(s \o t) = Len(s) + Len(t)
      /\ \A i \in 1..(Len(s) + Len(t)) : (s \o t)[i] = IF i <= Len(s) THEN s[i] ELSE t[i - Len(s)]
  BY ConcatProperties
<1>2. SubSeq(s \o t, 1, Len(s)) = s
  <2>1. /\ SubSeq(s \o t, 1, Len(s)) \in Seq(S) /\ Len(SubSeq(s \o t, 1, Len(s))) = Len(s)
        /\ \A i \in 1..Len(s) : SubSeq(s \o t, 1, Len(s))[i] = (s \o t)[i]
    BY <1>1, Prefix
  <2>2. QED
    BY <1>1, <2>1, SeqEqual
<1>3. SubSeq(s \o t, Len(s) + 1, Len(s) + Len(t)) = t
  <2> DEFINE back == SubSeq(s \o t, Len(s) + 1, Len(s) + Len(t))
  <2>1. /\ back \in Seq(S) /\ Len(back) = Len(t)
        /\ \A i \in 1..Len(t) : back[i] = (s \o t)[Len(s) + i]
    BY <1>1
  <2>2. \A i \in 1..Len(t) : back[i] = t[i]
    BY <1>1, <2>1
  <2>3. QED
    BY <2>1, <2>2, SeqEqual
<1>4. QED
  BY <1>1, <1>2, <1>3

(* A request meets the global middlewares and then those of its groups, in   *)
(* the order of the calls that count for its route (router.go 41-52, 66-79). *)
THEOREM RouteOrder == Spec => []RouteGoesThrough
<1>1. RInv => RouteGoesThrough
  <2> SUFFICES ASSUME RInv, NEW p \in DOMAIN mux
               PROVE  /\ Len(ServeHTTP(p)) = Len(globalChain) + Len(mux[p].chain)
                      /\ InOrder(SubSeq(ServeHTTP(p), 1, Len(globalChain)), GlobalUses)
                      /\ InOrder(SubSeq(ServeHTTP(p), Len(globalChain) + 1, Len(ServeHTTP(p))),
                                 RouteUses(mux[p].router, mux[p].at))
    <3>1. \A q \in DOMAIN mux : RouteUses(mux[q].router, mux[q].at) =
            {j \in CallsOf("use") : IsSubRouter(calls[j].on) /\ CountsFor(j, mux[q].router, mux[q].at)}
      BY DEF RouteUses
    <3>2. QED
      BY <3>1 DEF RouteGoesThrough, GlobalUses
  <2>1. globalChain \in Seq(1..MaxCalls) /\ mux[p].chain \in Seq(1..MaxCalls)
    BY DEF RInv, Base, Domains, Muxes, Route
  <2>2. InOrder(globalChain, GlobalUses) /\ InOrder(mux[p].chain, RouteUses(mux[p].router, mux[p].at))
    <3>1. PICK chain \in Seq(1..MaxCalls), r \in Routers, b \in 1..Len(calls) :
            mux[p] = Route(chain, r, b) /\ InOrder(chain, RouteUses(r, b))
      BY DEF RInv, Muxes
    <3>2. QED
      BY <3>1 DEF RInv, Orders, Route
  <2>3. QED
    BY <2>1, <2>2, Halves DEF ServeHTTP
<1>2. QED
  BY Invariance, <1>1, PTL
=============================================================================
