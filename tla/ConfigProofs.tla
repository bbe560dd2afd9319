---------------------------- MODULE ConfigProofs ----------------------------
(***************************************************************************)
(* Proofs about what GetConfig computes, for files and environments of any *)
(* size.                                                                   *)
(***************************************************************************)
EXTENDS Config, FiniteSetTheorems, SequenceTheorems, TLAPS

(* Induction over the natural numbers, for a set in place of a predicate:  *)
(* where there is a number outside of T, the predecessor maps those up to  *)
(* it one to one into fewer.                                               *)
LEMMA NatSets ==
    ASSUME NEW T, 0 \in T, \A n \in Nat : n \in T => n + 1 \in T
    PROVE  Nat \subseteq T
<1>1. SUFFICES ASSUME NEW n \in Nat, n \notin T PROVE FALSE
    OBVIOUS
<1> DEFINE F == {k \in 0 .. n : k \notin T}
           g == [k \in F |-> k - 1]
<1>2. IsFiniteSet(F) /\ IsFiniteSet(F \ {n})
  <2>1. IsFiniteSet(0 .. n)
      BY FS_Interval
  <2> QED
      BY <2>1, FS_Subset
<1>3. Cardinality(F \ {n}) < Cardinality(F)
  <2>1. n \in F
      BY <1>1
  <2>2. Cardinality(F) \in Nat /\ Cardinality(F \ {n}) = Cardinality(F) - 1
      BY <1>2, <2>1, FS_CardinalityType, FS_RemoveElement
  <2> QED
      BY <2>2
<1>4. g \in [F -> F \ {n}]
  <2>1. ASSUME NEW k \in F PROVE k - 1 \in F \ {n}
    <3>1. k - 1 \in Nat /\ k = k - 1 + 1
        OBVIOUS
    <3> QED
        BY <3>1
  <2> QED
      BY <2>1
<1>5. PICK x, y \in F : x # y /\ g[x] = g[y]
  <2> HIDE DEF F, g
  <2> QED
      BY <1>2, <1>3, <1>4, FS_PigeonHole
<1> QED
    BY <1>5

(* Prefixes, element by element.                                           *)
LEMMA PrefixElements ==
    ASSUME NEW s \in Paths, NEW t \in Paths
    PROVE  IsPrefix(s, t) <=> Len(s) <= Len(t) /\ \A i \in 1 .. Len(s) : s[i] = t[i]
<1>1. CASE Len(s) <= Len(t)
  <2>1. SubSeq(s, 1, Len(s)) = s
      BY DEF Paths
  <2>2. /\ SubSeq(t, 1, Len(s)) \in Paths
        /\ Len(SubSeq(t, 1, Len(s))) = Len(s)
        /\ \A i \in 1 .. Len(s) : SubSeq(t, 1, Len(s))[i] = t[i]
      BY <1>1 DEF Paths
  <2>3. ASSUME NEW u \in Paths, Len(u) = Len(s), \A i \in 1 .. Len(s) : s[i] = u[i] PROVE s = u
      BY <2>3 DEF Paths
  <2> QED
      BY <1>1, <2>1, <2>2, <2>3 DEF IsPrefix
<1> QED
    BY <1>1 DEF IsPrefix

(* Two prefixes of one sequence are comparable.                            *)
LEMMA PrefixesCompare ==
    ASSUME NEW s \in Paths, NEW t \in Paths, NEW u \in Paths, IsPrefix(s, u), IsPrefix(t, u)
    PROVE  IsPrefix(s, t) \/ IsPrefix(t, s)
<1>1. Len(s) \in Nat /\ Len(t) \in Nat
    BY DEF Paths
<1> QED
    BY <1>1, PrefixElements

LEMMA PrefixTransitive ==
    ASSUME NEW s \in Paths, NEW t \in Paths, NEW u \in Paths, IsPrefix(s, t), IsPrefix(t, u)
    PROVE  IsPrefix(s, u)
<1>1. Len(s) \in Nat /\ Len(t) \in Nat /\ Len(u) \in Nat
    BY DEF Paths
<1> QED
    BY <1>1, PrefixElements

LEMMA PrefixReflexive == ASSUME NEW s \in Paths PROVE IsPrefix(s, s)
  BY DEF IsPrefix, Paths

(* Sequences that grow.                                                    *)
LEMMA Appended == \A S : \A s \in Seq(S), e \in S : Append(s, e) \in Seq(S) /\ Append(s, e) # << >>
  BY AppendProperties

LEMMA Grown ==
    ASSUME NEW S, NEW s \in Seq(S), NEW e \in S
    PROVE  Front(Append(s, e)) = s /\ Last(Append(s, e)) = e /\ Append(s, e) # << >>
<1> DEFINE t == Append(s, e)
<1>1. /\ Len(s) \in Nat /\ t \in Seq(S) /\ t # << >> /\ Len(t) = Len(s) + 1
      /\ \A i \in 1 .. Len(s) : t[i] = s[i]
      /\ t[Len(s) + 1] = e
    BY AppendProperties, LenProperties
<1> HIDE DEF t
<1>2. /\ SubSeq(t, 1, Len(s)) \in Seq(S)
      /\ Len(SubSeq(t, 1, Len(s))) = Len(s)
      /\ \A i \in 1 .. Len(s) : SubSeq(t, 1, Len(s))[i] = s[i]
    BY <1>1, SubSeqProperties, ElementOfSeq
<1>3. SubSeq(t, 1, Len(s)) = s
    BY <1>2, SeqEqual
<1> QED
    BY <1>1, <1>3 DEF Front, Last, t

LEMMA Growing ==
    ASSUME NEW S, NEW s \in Seq(S), NEW i \in Nat, i + 1 <= Len(s)
    PROVE  /\ SubSeq(s, 1, i) \in Seq(S) /\ Len(SubSeq(s, 1, i)) = i
           /\ s[i + 1] \in S
           /\ Append(SubSeq(s, 1, i), s[i + 1]) = SubSeq(s, 1, i + 1)
<1>1. Len(s) \in Nat /\ \A j \in 1 .. Len(s) : s[j] \in S
    BY LenProperties, ElementOfSeq
<1>2. /\ SubSeq(s, 1, i) \in Seq(S) /\ Len(SubSeq(s, 1, i)) = i
      /\ \A j \in 1 .. i : SubSeq(s, 1, i)[j] = s[j]
    BY <1>1, SubSeqProperties
<1>3. /\ SubSeq(s, 1, i + 1) \in Seq(S) /\ Len(SubSeq(s, 1, i + 1)) = i + 1
      /\ \A j \in 1 .. i + 1 : SubSeq(s, 1, i + 1)[j] = s[j]
    BY <1>1, SubSeqProperties
<1> DEFINE t == Append(SubSeq(s, 1, i), s[i + 1])
<1>4. /\ t \in Seq(S) /\ Len(t) = i + 1
      /\ \A j \in 1 .. i : t[j] = s[j]
      /\ t[i + 1] = s[i + 1]
    BY <1>1, <1>2, AppendProperties
<1> HIDE DEF t
<1>5. t = SubSeq(s, 1, i + 1)
    BY <1>3, <1>4, SeqEqual
<1> QED
    BY <1>1, <1>2, <1>5 DEF t

-----------------------------------------------------------------------------
(* The recursive functions are defined.                                    *)

DecodePath(name) ==
    CHOOSE path : path = [i \in 0 .. Len(name) |->
          IF i = 0 THEN << >>
          ELSE LET above == path[i - 1] IN
               IF name[i].underscores = 2
               THEN Append(Front(above), Append(Last(above), name[i].word))
               ELSE Append(above, <<name[i].word>>)]

LEMMA DecodeDef ==
    ASSUME NEW name, Len(name) \in Nat
    PROVE  /\ Decode(name) = DecodePath(name)[Len(name)]
           /\ DecodePath(name)[0] = << >>
           /\ \A i \in 0 .. Len(name) - 1 :
                 DecodePath(name)[i + 1] =
                   IF name[i + 1].underscores = 2
                   THEN Append(Front(DecodePath(name)[i]),
                               Append(Last(DecodePath(name)[i]), name[i + 1].word))
                   ELSE Append(DecodePath(name)[i], <<name[i + 1].word>>)
<1> DEFINE Step(above, i) == IF name[i].underscores = 2
               THEN Append(Front(above), Append(Last(above), name[i].word))
               ELSE Append(above, <<name[i].word>>)
           Def(f, n) == [i \in 0 .. n |-> IF i = 0 THEN << >> ELSE Step(f[i - 1], i)]
<1> HIDE DEF Step
<1> DEFINE T == {n \in Nat : \E f : f = Def(f, n)}
<1>1. 0 \in T
  <2>1. [i \in 0 .. 0 |-> << >>] = Def([i \in 0 .. 0 |-> << >>], 0)
      OBVIOUS
  <2> QED
      BY <2>1
<1>2. ASSUME NEW n \in Nat, n \in T PROVE n + 1 \in T
  <2>1. PICK f : f = Def(f, n)
      BY <1>2
  <2> DEFINE g == [i \in 0 .. n + 1 |-> IF i <= n THEN f[i] ELSE Step(f[n], n + 1)]
  <2>2. g = Def(g, n + 1)
      BY <2>1
  <2> HIDE DEF Def, g
  <2>3. \E h : h = Def(h, n + 1)
      BY <2>2
  <2> QED
      BY <2>3
<1>3. \E f : f = Def(f, Len(name))
  <2> HIDE DEF T
  <2>1. Len(name) \in T
      BY <1>1, <1>2, NatSets
  <2> QED
      BY <2>1 DEF T
<1>4. DecodePath(name) = Def(DecodePath(name), Len(name))
  <2>1. DecodePath(name) = CHOOSE f : f = Def(f, Len(name))
      BY DEF DecodePath, Step
  <2> HIDE DEF Def
  <2> QED
      BY <1>3, <2>1
<1>5. Decode(name) = DecodePath(name)[Len(name)]
    BY DEF Decode, DecodePath
<1>6. /\ DecodePath(name)[0] = << >>
      /\ \A i \in 0 .. Len(name) - 1 : DecodePath(name)[i + 1] = Step(DecodePath(name)[i], i + 1)
  <2> DEFINE f == DecodePath(name)
  <2> HIDE DEF f
  <2>1. f = Def(f, Len(name))
      BY <1>4 DEF f
  <2>2. \A i \in 0 .. Len(name) : f[i] = IF i = 0 THEN << >> ELSE Step(f[i - 1], i)
      BY <2>1
  <2>3. ASSUME NEW i \in 0 .. Len(name) - 1 PROVE f[i + 1] = Step(f[i], i + 1)
    <3>1. i + 1 \in 0 .. Len(name) /\ i + 1 # 0 /\ i + 1 - 1 = i
        OBVIOUS
    <3> QED
        BY <2>2, <3>1
  <2>4. f[0] = << >>
      BY <2>2
  <2> QED
      BY <2>3, <2>4 DEF f
<1> QED
    BY <1>5, <1>6 DEF Step

WalkDown(map, path) ==
    CHOOSE at : at = [i \in 0 .. Len(path) - 1 |->
          IF i = 0 THEN << >>
          ELSE LET here == at[i - 1]
               IN  IF Append(here, path[i]) \in DOMAIN map THEN here ELSE Append(here, path[i])]

LEMMA WalkDef ==
    ASSUME NEW map, NEW path \in Paths, path # << >>
    PROVE  /\ WalkDown(map, path)[0] = << >>
           /\ \A i \in 0 .. Len(path) - 2 :
                 WalkDown(map, path)[i + 1] =
                   LET here == WalkDown(map, path)[i]
                   IN  IF Append(here, path[i + 1]) \in DOMAIN map THEN here
                       ELSE Append(here, path[i + 1])
<1> DEFINE Step(here, i) == IF Append(here, path[i]) \in DOMAIN map THEN here
                            ELSE Append(here, path[i])
           Def(f, n) == [i \in 0 .. n |-> IF i = 0 THEN << >> ELSE Step(f[i - 1], i)]
<1> HIDE DEF Step
<1> DEFINE T == {n \in Nat : \E f : f = Def(f, n)}
<1>1. 0 \in T
  <2>1. [i \in 0 .. 0 |-> << >>] = Def([i \in 0 .. 0 |-> << >>], 0)
      OBVIOUS
  <2> QED
      BY <2>1
<1>2. ASSUME NEW n \in Nat, n \in T PROVE n + 1 \in T
  <2>1. PICK f : f = Def(f, n)
      BY <1>2
  <2> DEFINE g == [i \in 0 .. n + 1 |-> IF i <= n THEN f[i] ELSE Step(f[n], n + 1)]
  <2>2. g = Def(g, n + 1)
      BY <2>1
  <2> HIDE DEF Def, g
  <2>3. \E h : h = Def(h, n + 1)
      BY <2>2
  <2> QED
      BY <2>3
<1>3. \E f : f = Def(f, Len(path) - 1)
  <2>1. Len(path) - 1 \in Nat
      BY DEF Paths
  <2> HIDE DEF T
  <2>2. Len(path) - 1 \in T
      BY <1>1, <1>2, <2>1, NatSets
  <2> QED
      BY <2>2 DEF T
<1> DEFINE f == WalkDown(map, path)
<1>4. f = Def(f, Len(path) - 1)
  <2>1. f = CHOOSE at : at = Def(at, Len(path) - 1)
      BY DEF WalkDown, Step
  <2> HIDE DEF Def, f
  <2> QED
      BY <1>3, <2>1
<1>5. f[0] = << >> /\ \A i \in 0 .. Len(path) - 2 : f[i + 1] = Step(f[i], i + 1)
  <2>1. Len(path) - 1 \in Nat
      BY DEF Paths
  <2> HIDE DEF f
  <2>2. \A i \in 0 .. Len(path) - 1 : f[i] = IF i = 0 THEN << >> ELSE Step(f[i - 1], i)
      BY <1>4
  <2>3. ASSUME NEW i \in 0 .. Len(path) - 2 PROVE f[i + 1] = Step(f[i], i + 1)
    <3>1. i + 1 \in 0 .. Len(path) - 1 /\ i + 1 # 0 /\ i + 1 - 1 = i
        BY <2>1
    <3> QED
        BY <2>2, <3>1
  <2> QED
      BY <2>1, <2>2, <2>3
<1> QED
    BY <1>5 DEF Step

LayerUpTo(env, order) ==
    CHOOSE map : map = [i \in 0 .. Cardinality(DOMAIN env) |->
          IF i = 0 THEN << >> ELSE Put(map[i - 1], Decode(order[i]), env[order[i]])]

LEMMA LayerDef ==
    ASSUME NEW env, NEW order, Cardinality(DOMAIN env) \in Nat
    PROVE  /\ LayerUpTo(env, order)[0] = << >>
           /\ \A i \in 0 .. Cardinality(DOMAIN env) - 1 :
                 LayerUpTo(env, order)[i + 1] =
                   Put(LayerUpTo(env, order)[i], Decode(order[i + 1]), env[order[i + 1]])
<1> DEFINE size == Cardinality(DOMAIN env)
           Step(map, i) == Put(map, Decode(order[i]), env[order[i]])
           Def(f, n) == [i \in 0 .. n |-> IF i = 0 THEN << >> ELSE Step(f[i - 1], i)]
<1> HIDE DEF Step
<1> DEFINE T == {n \in Nat : \E f : f = Def(f, n)}
<1>1. 0 \in T
  <2>1. [i \in 0 .. 0 |-> << >>] = Def([i \in 0 .. 0 |-> << >>], 0)
      OBVIOUS
  <2> QED
      BY <2>1
<1>2. ASSUME NEW n \in Nat, n \in T PROVE n + 1 \in T
  <2>1. PICK f : f = Def(f, n)
      BY <1>2
  <2> DEFINE g == [i \in 0 .. n + 1 |-> IF i <= n THEN f[i] ELSE Step(f[n], n + 1)]
  <2>2. g = Def(g, n + 1)
      BY <2>1
  <2> HIDE DEF Def, g
  <2>3. \E h : h = Def(h, n + 1)
      BY <2>2
  <2> QED
      BY <2>3
<1>3. \E f : f = Def(f, size)
  <2> HIDE DEF T
  <2>1. size \in T
      BY <1>1, <1>2, NatSets
  <2> QED
      BY <2>1 DEF T
<1> DEFINE f == LayerUpTo(env, order)
<1>4. f = Def(f, size)
  <2>1. f = CHOOSE map : map = Def(map, size)
      BY DEF LayerUpTo, Step
  <2> HIDE DEF Def, f, size
  <2> QED
      BY <1>3, <2>1
<1>5. f[0] = << >> /\ \A i \in 0 .. size - 1 : f[i + 1] = Step(f[i], i + 1)
  <2> HIDE DEF f
  <2>1. \A i \in 0 .. size : f[i] = IF i = 0 THEN << >> ELSE Step(f[i - 1], i)
      BY <1>4
  <2>2. ASSUME NEW i \in 0 .. size - 1 PROVE f[i + 1] = Step(f[i], i + 1)
    <3>1. i + 1 \in 0 .. size /\ i + 1 # 0 /\ i + 1 - 1 = i
        OBVIOUS
    <3> QED
        BY <2>1, <3>1
  <2> QED
      BY <2>1, <2>2
<1> QED
    BY <1>5 DEF Step

KeyName(key) == [j \in DOMAIN key |-> [underscores |-> IF j = 1 THEN 1 ELSE 2, word |-> key[j]]]

NameUpTo(setting) ==
    CHOOSE name : name = [i \in 0 .. Len(setting) |->
          IF i = 0 THEN << >> ELSE name[i - 1] \o KeyName(setting[i])]

LEMMA NameDef ==
    ASSUME NEW setting \in Paths
    PROVE  /\ NameOf(setting) = NameUpTo(setting)[Len(setting)]
           /\ NameUpTo(setting)[0] = << >>
           /\ \A i \in 0 .. Len(setting) - 1 :
                 NameUpTo(setting)[i + 1] = NameUpTo(setting)[i] \o KeyName(setting[i + 1])
<1> DEFINE Step(name, i) == name \o KeyName(setting[i])
           Def(f, n) == [i \in 0 .. n |-> IF i = 0 THEN << >> ELSE Step(f[i - 1], i)]
<1> HIDE DEF Step
<1> DEFINE T == {n \in Nat : \E f : f = Def(f, n)}
<1>1. 0 \in T
  <2>1. [i \in 0 .. 0 |-> << >>] = Def([i \in 0 .. 0 |-> << >>], 0)
      OBVIOUS
  <2> QED
      BY <2>1
<1>2. ASSUME NEW n \in Nat, n \in T PROVE n + 1 \in T
  <2>1. PICK f : f = Def(f, n)
      BY <1>2
  <2> DEFINE g == [i \in 0 .. n + 1 |-> IF i <= n THEN f[i] ELSE Step(f[n], n + 1)]
  <2>2. g = Def(g, n + 1)
      BY <2>1
  <2> HIDE DEF Def, g
  <2>3. \E h : h = Def(h, n + 1)
      BY <2>2
  <2> QED
      BY <2>3
<1>3. \E f : f = Def(f, Len(setting))
  <2>1. Len(setting) \in Nat
      BY DEF Paths
  <2> HIDE DEF T
  <2>2. Len(setting) \in T
      BY <1>1, <1>2, <2>1, NatSets
  <2> QED
      BY <2>2 DEF T
<1> DEFINE f == NameUpTo(setting)
<1>4. f = Def(f, Len(setting))
  <2>1. f = CHOOSE name : name = Def(name, Len(setting))
      BY DEF NameUpTo, Step
  <2> HIDE DEF Def, f
  <2> QED
      BY <1>3, <2>1
<1>5. f[0] = << >> /\ \A i \in 0 .. Len(setting) - 1 : f[i + 1] = Step(f[i], i + 1)
  <2>1. Len(setting) \in Nat
      BY DEF Paths
  <2> HIDE DEF f
  <2>2. \A i \in 0 .. Len(setting) : f[i] = IF i = 0 THEN << >> ELSE Step(f[i - 1], i)
      BY <1>4
  <2>3. ASSUME NEW i \in 0 .. Len(setting) - 1 PROVE f[i + 1] = Step(f[i], i + 1)
    <3>1. i + 1 \in 0 .. Len(setting) /\ i + 1 # 0 /\ i + 1 - 1 = i
        BY <2>1
    <3> QED
        BY <2>2, <3>1
  <2> QED
      BY <2>1, <2>2, <2>3
<1>6. NameOf(setting) = f[Len(setting)]
    BY DEF NameOf, NameUpTo, KeyName
<1> QED
    BY <1>5, <1>6 DEF Step

-----------------------------------------------------------------------------
(* Names.                                                                  *)

LEMMA KeyFacts ==
    ASSUME NEW key \in Keys
    PROVE  /\ key \in Seq(Words) /\ Len(key) \in Nat /\ Len(key) >= 1
           /\ DOMAIN key = 1 .. Len(key)
           /\ \A j \in 1 .. Len(key) : key[j] \in Words
<1>1. key \in Seq(Words) /\ key # << >>
    BY DEF Keys
<1> QED
    BY <1>1, EmptySeq, LenProperties, ElementOfSeq

LEMMA KeyNames ==
    ASSUME NEW key \in Keys
    PROVE  /\ KeyName(key) \in Seq(NameParts) /\ Len(KeyName(key)) = Len(key)
           /\ \A j \in 1 .. Len(key) : KeyName(key)[j].word = key[j]
           /\ KeyName(key)[1].underscores = 1
           /\ \A j \in 2 .. Len(key) : KeyName(key)[j].underscores = 2
<1>1. \A j \in 1 .. Len(key) :
         /\ KeyName(key)[j] = [underscores |-> IF j = 1 THEN 1 ELSE 2, word |-> key[j]]
         /\ KeyName(key)[j] \in NameParts
    BY KeyFacts DEF KeyName, NameParts
<1>2. KeyName(key) = [j \in 1 .. Len(key) |-> KeyName(key)[j]]
    BY KeyFacts DEF KeyName
<1> DEFINE k == KeyName(key)
<1> HIDE DEF k
<1>3. k = [j \in 1 .. Len(key) |-> k[j]] /\ \A j \in 1 .. Len(key) : k[j] \in NameParts
    BY <1>1, <1>2 DEF k
<1>4. k \in Seq(NameParts) /\ Len(k) = Len(key)
    BY <1>3, KeyFacts
<1>5. \A j \in 1 .. Len(key) : k[j].word = key[j] /\ k[j].underscores = IF j = 1 THEN 1 ELSE 2
  <2>1. SUFFICES ASSUME NEW j \in 1 .. Len(key)
                 PROVE  k[j].word = key[j] /\ k[j].underscores = IF j = 1 THEN 1 ELSE 2
      OBVIOUS
  <2> DEFINE number == IF j = 1 THEN 1 ELSE 2
  <2>2. k[j] = [underscores |-> number, word |-> key[j]]
      BY <1>1 DEF k
  <2> HIDE DEF number
  <2>3. k[j].word = key[j] /\ k[j].underscores = number
      BY <2>2
  <2> QED
      BY <2>3 DEF number
<1>6. 1 \in 1 .. Len(key) /\ \A j \in 2 .. Len(key) : j \in 1 .. Len(key) /\ j # 1
    BY KeyFacts
<1>7. k[1].underscores = 1 /\ \A j \in 2 .. Len(key) : k[j].underscores = 2
    BY <1>5, <1>6
<1> QED
    BY <1>4, <1>5, <1>7 DEF k

LEMMA DecodeType ==
    ASSUME NEW name \in ProperNames
    PROVE  Decode(name) \in Paths /\ Decode(name) # << >>
<1> DEFINE path == DecodePath(name)
           T == {i \in Nat : 1 <= i /\ i <= Len(name) => path[i] \in Paths /\ path[i] # << >>}
<1>1. name \in Seq(NameParts) /\ name # << >> /\ name[1].underscores = 1
    BY DEF ProperNames
<1>2. Len(name) \in Nat /\ Len(name) >= 1 /\ \A i \in 1 .. Len(name) : name[i] \in NameParts
    BY <1>1, EmptySeq, LenProperties, ElementOfSeq
<1>3. 0 \in T
    OBVIOUS
<1>4. ASSUME NEW i \in Nat, i \in T PROVE i + 1 \in T
  <2>1. SUFFICES ASSUME i + 1 <= Len(name)
                 PROVE  path[i + 1] \in Paths /\ path[i + 1] # << >>
      BY <1>4
  <2> DEFINE above == path[i]
             word == name[i + 1].word
  <2>2. i \in 0 .. Len(name) - 1 /\ i + 1 \in 1 .. Len(name)
      BY <1>2, <2>1
  <2>3. word \in Words
      BY <1>2, <2>2 DEF NameParts
  <2>4. path[i + 1] = IF name[i + 1].underscores = 2
                      THEN Append(Front(above), Append(Last(above), word))
                      ELSE Append(above, <<word>>)
      BY <1>2, <2>2, DecodeDef
  <2>5. <<word>> \in Keys
      BY <2>3 DEF Keys
  <2>6. CASE i = 0
    <3>1. above = << >> /\ name[i + 1].underscores = 1
        BY <1>1, <1>2, <2>6, DecodeDef
    <3>2. above \in Seq(Keys)
        BY <3>1, EmptySeq
    <3> QED
        BY <2>4, <2>5, <3>1, <3>2, AppendProperties DEF Paths
  <2>7. CASE i # 0
    <3>1. above \in Seq(Keys) /\ above # << >>
        BY <1>4, <2>1, <2>7 DEF Paths
    <3> HIDE DEF above, word, path
    <3>2. PICK s \in Seq(Keys), key \in Keys : above = Append(s, key)
        BY <3>1, SequenceEmptyOrAppend
    <3>3. Front(above) = s /\ Last(above) = key
        BY <3>2, Grown
    <3>4. Append(key, word) \in Keys
      <4>1. key \in Seq(Words)
          BY KeyFacts
      <4>2. Append(key, word) \in Seq(Words) /\ Append(key, word) # << >>
          BY <2>3, <4>1, Appended, Zenon
      <4> QED
          BY <4>2 DEF Keys
    <3>5. path[i + 1] = Append(s, Append(key, word)) \/ path[i + 1] = Append(above, <<word>>)
        BY <2>4, <3>3
    <3>6. /\ Append(s, Append(key, word)) \in Seq(Keys) /\ Append(s, Append(key, word)) # << >>
          /\ Append(above, <<word>>) \in Seq(Keys) /\ Append(above, <<word>>) # << >>
        BY <2>5, <3>1, <3>4, Appended, Zenon
    <3> QED
        BY <3>5, <3>6 DEF Paths
  <2> QED
      BY <2>6, <2>7
<1>5. Len(name) \in T
  <2> HIDE DEF T
  <2> QED
      BY <1>2, <1>3, <1>4, NatSets
<1> QED
    BY <1>2, <1>5, DecodeDef

(* The name of a key after a name adds the key to its path.                *)
LEMMA DecodeKey ==
    ASSUME NEW name \in Seq(NameParts), Decode(name) \in Paths, NEW key \in Keys
    PROVE  Decode(name \o KeyName(key)) = Append(Decode(name), key)
<1> DEFINE m == name \o KeyName(key)
           n == Len(name)
<1>1. n \in Nat /\ Len(key) \in Nat /\ Len(key) >= 1 /\ key \in Seq(Words)
    BY KeyFacts, LenProperties
<1>2. /\ m \in Seq(NameParts) /\ Len(m) = n + Len(key) /\ Len(m) \in Nat
      /\ \A i \in 1 .. n + Len(key) : m[i] = IF i <= n THEN name[i] ELSE KeyName(key)[i - n]
  <2> DEFINE k == KeyName(key)
  <2>1. k \in Seq(NameParts) /\ Len(k) = Len(key)
      BY KeyNames
  <2> HIDE DEF k
  <2>2. /\ name \o k \in Seq(NameParts) /\ Len(name \o k) = Len(name) + Len(k)
        /\ \A i \in 1 .. Len(name) + Len(k) :
              (name \o k)[i] = IF i <= Len(name) THEN name[i] ELSE k[i - Len(name)]
      BY <2>1, ConcatProperties, Zenon
  <2> QED
      BY <1>1, <2>1, <2>2 DEF k
<1>3. /\ \A i \in 1 .. n : m[i] = name[i]
      /\ \A j \in 1 .. Len(key) : m[n + j] = KeyName(key)[j]
    BY <1>1, <1>2
<1>d. /\ Decode(name) = DecodePath(name)[n] /\ DecodePath(name)[0] = << >>
      /\ Decode(m) = DecodePath(m)[Len(m)] /\ DecodePath(m)[0] = << >>
    BY <1>1, <1>2, DecodeDef
<1>4. ASSUME NEW i \in 0 .. n - 1 PROVE
          DecodePath(name)[i + 1] =
             IF name[i + 1].underscores = 2
             THEN Append(Front(DecodePath(name)[i]),
                         Append(Last(DecodePath(name)[i]), name[i + 1].word))
             ELSE Append(DecodePath(name)[i], <<name[i + 1].word>>)
    BY <1>1, DecodeDef
<1>5. ASSUME NEW i \in 0 .. Len(m) - 1 PROVE
          DecodePath(m)[i + 1] =
             IF m[i + 1].underscores = 2
             THEN Append(Front(DecodePath(m)[i]), Append(Last(DecodePath(m)[i]), m[i + 1].word))
             ELSE Append(DecodePath(m)[i], <<m[i + 1].word>>)
    BY <1>2, DecodeDef
<1> HIDE DEF m, n
<1>6. DecodePath(m)[n] = Decode(name)
  <2> DEFINE T == {i \in Nat : i <= n => DecodePath(m)[i] = DecodePath(name)[i]}
  <2>1. 0 \in T
      BY <1>d
  <2>2. ASSUME NEW i \in Nat, i \in T PROVE i + 1 \in T
    <3>1. SUFFICES ASSUME i + 1 <= n PROVE DecodePath(m)[i + 1] = DecodePath(name)[i + 1]
        OBVIOUS
    <3>2. i + 1 \in 1 .. n /\ i \in 0 .. n - 1 /\ i \in 0 .. Len(m) - 1
        BY <1>1, <1>2, <3>1
    <3>3. DecodePath(m)[i] = DecodePath(name)[i] /\ m[i + 1] = name[i + 1]
        BY <1>1, <1>3, <2>2, <3>1, <3>2
    <3> QED
        BY <1>4, <1>5, <3>2, <3>3
  <2>3. n \in T
    <3> HIDE DEF T
    <3> QED
        BY <1>1, <2>1, <2>2, NatSets
  <2> QED
      BY <1>1, <1>d, <2>3
<1> DEFINE U == {j \in Nat : j + 1 <= Len(key) =>
                    DecodePath(m)[n + (j + 1)] = Append(Decode(name), SubSeq(key, 1, j + 1))}
<1>7. ASSUME NEW j \in Nat, j + 1 <= Len(key)
      PROVE  DecodePath(m)[n + (j + 1)] =
                IF KeyName(key)[j + 1].underscores = 2
                THEN Append(Front(DecodePath(m)[n + j]),
                            Append(Last(DecodePath(m)[n + j]), key[j + 1]))
                ELSE Append(DecodePath(m)[n + j], <<key[j + 1]>>)
  <2>1. j + 1 \in 1 .. Len(key) /\ n + j \in 0 .. Len(m) - 1 /\ (n + j) + 1 = n + (j + 1)
      BY <1>1, <1>2, <1>7
  <2>2. m[n + (j + 1)] = KeyName(key)[j + 1] /\ KeyName(key)[j + 1].word = key[j + 1]
      BY <1>3, <2>1, KeyNames
  <2> QED
      BY <1>5, <2>1, <2>2
<1>8. 0 \in U
  <2>1. n + 0 = n /\ 0 + 1 = 1 /\ KeyName(key)[1].underscores = 1
      BY <1>1, KeyNames
  <2>2. DecodePath(m)[n + 1] = Append(Decode(name), <<key[1]>>)
    <3>1. n \in 0 .. Len(m) - 1 /\ 1 \in 1 .. Len(key)
        BY <1>1, <1>2
    <3>2. m[n + 1] = KeyName(key)[1]
        BY <1>3, <3>1
    <3>3. m[n + 1].underscores # 2 /\ m[n + 1].word = key[1]
        BY <2>1, <3>1, <3>2, KeyNames
    <3>4. DecodePath(m)[n + 1] = Append(DecodePath(m)[n], <<m[n + 1].word>>)
        BY <1>5, <3>1, <3>3
    <3> QED
        BY <1>6, <3>3, <3>4
  <2>3. SubSeq(key, 1, 1) = <<key[1]>>
    <3>1. SubSeq(key, 1, 0) = << >>
        BY <1>1, SubSeqEmpty
    <3>2. SubSeq(key, 1, 1) = Append(<< >>, key[1])
        BY <1>1, <2>1, <3>1, Growing
    <3> QED
        BY <3>2
  <2> QED
      BY <2>1, <2>2, <2>3
<1>9. ASSUME NEW j \in Nat, j \in U PROVE j + 1 \in U
  <2>1. SUFFICES ASSUME NEW i \in Nat, i = j + 1, i + 1 <= Len(key)
                 PROVE  DecodePath(m)[n + (i + 1)] = Append(Decode(name), SubSeq(key, 1, i + 1))
      OBVIOUS
  <2>2. i <= Len(key) /\ i + 1 \in 2 .. Len(key)
      BY <1>1, <2>1
  <2> DEFINE front == SubSeq(key, 1, i)
  <2>3. DecodePath(m)[n + i] = Append(Decode(name), front)
      BY <1>9, <2>1, <2>2
  <2>4. front \in Seq(Words) /\ Len(front) = i /\ Append(front, key[i + 1]) = SubSeq(key, 1, i + 1)
      BY <1>1, <2>1, Growing
  <2>5. front \in Keys
    <3>1. Len(front) # 0
        BY <2>1, <2>4
    <3> HIDE DEF front
    <3> QED
        BY <2>4, <3>1, EmptySeq DEF Keys
  <2> HIDE DEF front
  <2>6. /\ Front(Append(Decode(name), front)) = Decode(name)
        /\ Last(Append(Decode(name), front)) = front
      BY <2>5, Grown DEF Paths
  <2>7. KeyName(key)[i + 1].underscores = 2
      BY <2>2, KeyNames
  <2> QED
      BY <1>7, <2>1, <2>3, <2>4, <2>6, <2>7
<1>10. Decode(m) = Append(Decode(name), key)
  <2>1. Len(key) - 1 \in Nat /\ (Len(key) - 1) + 1 = Len(key)
      BY <1>1
  <2>2. Len(key) - 1 \in U
    <3> HIDE DEF U
    <3> QED
        BY <1>8, <1>9, <2>1, NatSets
  <2>3. SubSeq(key, 1, Len(key)) = key
      BY <1>1, SubSeqFull
  <2>4. DecodePath(m)[n + Len(key)] = Append(Decode(name), SubSeq(key, 1, Len(key)))
      BY <1>1, <2>1, <2>2
  <2> QED
      BY <1>2, <1>d, <2>3, <2>4
<1> QED
    BY <1>10 DEF m

(* The documented name of a path is proper and decodes to it.              *)
LEMMA NameDecodes ==
    ASSUME NEW s \in Paths
    PROVE  /\ NameOf(s) \in Seq(NameParts)
           /\ s # << >> => NameOf(s) \in ProperNames
           /\ Decode(NameOf(s)) = s
<1>1. s \in Seq(Keys) /\ Len(s) \in Nat /\ \A i \in 1 .. Len(s) : s[i] \in Keys
    BY LenProperties, ElementOfSeq DEF Paths
<1> DEFINE name == NameUpTo(s)
           T == {i \in Nat : i <= Len(s) =>
                    /\ name[i] \in Seq(NameParts)
                    /\ i > 0 => Len(name[i]) > 0 /\ name[i][1].underscores = 1
                    /\ Decode(name[i]) = SubSeq(s, 1, i)}
<1>d. /\ NameOf(s) = name[Len(s)] /\ name[0] = << >>
      /\ \A i \in 0 .. Len(s) - 1 : name[i + 1] = name[i] \o KeyName(s[i + 1])
    BY NameDef
<1> HIDE DEF name
<1>2. 0 \in T
  <2>1. << >> \in Seq(NameParts) /\ Len(<< >>) = 0
      BY EmptySeq
  <2>2. Decode(<< >>) = << >>
      BY <2>1, DecodeDef
  <2>3. SubSeq(s, 1, 0) = << >>
      BY SubSeqEmpty
  <2>4. name[0] \in Seq(NameParts) /\ Decode(name[0]) = SubSeq(s, 1, 0)
      BY <1>d, <2>1, <2>2, <2>3
  <2>5. 0 \in Nat /\ ~(0 > 0)
      OBVIOUS
  <2> QED
      BY <2>4, <2>5, Zenon
<1>3. ASSUME NEW i \in Nat, i \in T PROVE i + 1 \in T
  <2>1. SUFFICES ASSUME i + 1 <= Len(s)
                 PROVE  /\ name[i + 1] \in Seq(NameParts)
                        /\ Len(name[i + 1]) > 0 /\ name[i + 1][1].underscores = 1
                        /\ Decode(name[i + 1]) = SubSeq(s, 1, i + 1)
      OBVIOUS
  <2>2. i + 1 \in 1 .. Len(s) /\ i \in 0 .. Len(s) - 1 /\ i <= Len(s)
      BY <1>1, <2>1
  <2> DEFINE old == name[i]
             key == KeyName(s[i + 1])
  <2>3. name[i + 1] = old \o key /\ s[i + 1] \in Keys
      BY <1>1, <1>d, <2>2
  <2>4. /\ old \in Seq(NameParts) /\ Len(old) \in Nat /\ Decode(old) = SubSeq(s, 1, i)
        /\ i > 0 => Len(old) > 0 /\ old[1].underscores = 1
        /\ i = 0 => Len(old) = 0
      BY <1>3, <1>d, <2>2, LenProperties, EmptySeq
  <2>5. SubSeq(s, 1, i) \in Paths /\ Append(SubSeq(s, 1, i), s[i + 1]) = SubSeq(s, 1, i + 1)
      BY <1>1, <2>1, Growing DEF Paths
  <2>6. key \in Seq(NameParts) /\ Len(key) >= 1 /\ Len(key) \in Nat /\ key[1].underscores = 1
      BY <2>3, KeyNames, KeyFacts
  <2>7. Decode(old \o key) = Append(SubSeq(s, 1, i), s[i + 1])
      BY <2>3, <2>4, <2>5, DecodeKey
  <2> HIDE DEF old, key
  <2>8. /\ old \o key \in Seq(NameParts) /\ Len(old \o key) = Len(old) + Len(key)
        /\ \A j \in 1 .. Len(old) + Len(key) :
              (old \o key)[j] = IF j <= Len(old) THEN old[j] ELSE key[j - Len(old)]
      BY <2>4, <2>6, ConcatProperties
  <2>9. (old \o key)[1] = IF i = 0 THEN key[1] ELSE old[1]
    <3>1. 1 \in 1 .. Len(old) + Len(key)
        BY <2>4, <2>6
    <3>2. (old \o key)[1] = IF 1 <= Len(old) THEN old[1] ELSE key[1 - Len(old)]
        BY <2>8, <3>1
    <3>3. CASE i = 0
      <4>1. Len(old) = 0 /\ 1 - 0 = 1
          BY <2>4, <3>3
      <4> QED
          BY <3>2, <3>3, <4>1
    <3> QED
        BY <2>4, <3>2, <3>3
  <2>10. Len(old \o key) > 0 /\ (old \o key)[1].underscores = 1
    <3>1. Len(old) + Len(key) > 0
        BY <2>4, <2>6
    <3>2. i = 0 \/ i > 0
        OBVIOUS
    <3> QED
        BY <2>4, <2>6, <2>8, <2>9, <3>1, <3>2, Zenon
  <2>11. Decode(old \o key) = SubSeq(s, 1, i + 1)
      BY <2>5, <2>7, Zenon
  <2> QED
      BY <2>3, <2>8, <2>10, <2>11, Zenon
<1>4. Len(s) \in T
  <2> HIDE DEF T
  <2> QED
      BY <1>1, <1>2, <1>3, NatSets
<1>5. SubSeq(s, 1, Len(s)) = s
    BY <1>1, SubSeqFull
<1>6. ASSUME s # << >> PROVE NameOf(s) \in ProperNames
  <2>1. Len(s) > 0
      BY <1>1, <1>6, EmptySeq
  <2>2. Len(NameOf(s)) > 0 /\ NameOf(s)[1].underscores = 1 /\ NameOf(s) \in Seq(NameParts)
      BY <1>1, <1>4, <1>d, <2>1
  <2>3. NameOf(s) # << >>
      BY <2>2, EmptySeq
  <2> QED
      BY <2>2, <2>3 DEF ProperNames
<1> QED
    BY <1>1, <1>4, <1>5, <1>6, <1>d

(* One key more is its name more.                                          *)
LEMMA NameGrows ==
    ASSUME NEW q \in Paths, NEW key \in Keys
    PROVE  NameOf(Append(q, key)) = NameOf(q) \o KeyName(key)
<1> DEFINE p == Append(q, key)
<1>1. Len(q) \in Nat /\ q \in Seq(Keys)
    BY LenProperties DEF Paths
<1>2. /\ p \in Paths /\ Len(p) = Len(q) + 1
      /\ \A i \in 1 .. Len(q) : p[i] = q[i]
      /\ p[Len(q) + 1] = key
    BY <1>1, AppendProperties DEF Paths
<1>p. /\ NameOf(p) = NameUpTo(p)[Len(p)] /\ NameUpTo(p)[0] = << >>
      /\ \A i \in 0 .. Len(p) - 1 : NameUpTo(p)[i + 1] = NameUpTo(p)[i] \o KeyName(p[i + 1])
    BY <1>2, NameDef
<1>q. /\ NameOf(q) = NameUpTo(q)[Len(q)] /\ NameUpTo(q)[0] = << >>
      /\ \A i \in 0 .. Len(q) - 1 : NameUpTo(q)[i + 1] = NameUpTo(q)[i] \o KeyName(q[i + 1])
    BY NameDef
<1> HIDE DEF p
<1> DEFINE T == {i \in Nat : i <= Len(q) => NameUpTo(p)[i] = NameUpTo(q)[i]}
<1>3. 0 \in T
    BY <1>p, <1>q
<1>4. ASSUME NEW i \in Nat, i \in T PROVE i + 1 \in T
  <2>1. SUFFICES ASSUME i + 1 <= Len(q) PROVE NameUpTo(p)[i + 1] = NameUpTo(q)[i + 1]
      OBVIOUS
  <2>2. i + 1 \in 1 .. Len(q) /\ i \in 0 .. Len(q) - 1 /\ i \in 0 .. Len(p) - 1 /\ i <= Len(q)
      BY <1>1, <1>2, <2>1
  <2> QED
      BY <1>2, <1>4, <1>p, <1>q, <2>2
<1>5. Len(q) \in T
  <2> HIDE DEF T
  <2> QED
      BY <1>1, <1>3, <1>4, NatSets
<1>6. NameUpTo(p)[Len(q)] = NameOf(q)
    BY <1>1, <1>5, <1>q
<1>7. Len(q) \in 0 .. Len(p) - 1
    BY <1>1, <1>2
<1>8. NameUpTo(p)[Len(q) + 1] = NameUpTo(p)[Len(q)] \o KeyName(p[Len(q) + 1])
    BY <1>7, <1>p
<1>9. NameOf(p) = NameOf(q) \o KeyName(key)
    BY <1>2, <1>6, <1>8, <1>p
<1> QED
    BY <1>9 DEF p

(* The name of a key: its first word, and one word more.                   *)
LEMMA KeyNameFirst ==
    ASSUME NEW part \in NameParts, part.underscores = 1
    PROVE  <<part.word>> \in Keys /\ KeyName(<<part.word>>) = <<part>>
<1>1. part = [underscores |-> 1, word |-> part.word] /\ part.word \in Words
    BY DEF NameParts
<1>2. DOMAIN <<part.word>> = 1 .. 1 /\ <<part.word>>[1] = part.word
    OBVIOUS
<1>3. KeyName(<<part.word>>) = [j \in 1 .. 1 |-> [underscores |-> IF j = 1 THEN 1 ELSE 2,
                                                  word |-> <<part.word>>[j]]]
    BY <1>2 DEF KeyName
<1>4. KeyName(<<part.word>>) = [j \in 1 .. 1 |-> part]
  <2>1. \A j \in 1 .. 1 : j = 1
      OBVIOUS
  <2> QED
      BY <1>1, <1>2, <1>3, <2>1
<1>5. [j \in 1 .. 1 |-> part] = <<part>>
    OBVIOUS
<1> QED
    BY <1>1, <1>4, <1>5 DEF Keys

LEMMA KeyNameMore ==
    ASSUME NEW key \in Keys, NEW part \in NameParts, part.underscores = 2
    PROVE  Append(key, part.word) \in Keys /\ KeyName(Append(key, part.word)) = Append(KeyName(key), part)
<1>1. part = [underscores |-> 2, word |-> part.word] /\ part.word \in Words
    BY DEF NameParts
<1>2. key \in Seq(Words) /\ Len(key) \in Nat /\ Len(key) >= 1 /\ DOMAIN key = 1 .. Len(key)
    BY KeyFacts
<1> DEFINE more == Append(key, part.word)
           name == KeyName(key)
<1>3. /\ more \in Seq(Words) /\ more # << >> /\ Len(more) = Len(key) + 1
      /\ \A j \in 1 .. Len(key) : more[j] = key[j]
      /\ more[Len(key) + 1] = part.word
  <2>1. more \in Seq(Words) /\ more # << >>
      BY <1>1, <1>2, Appended, Zenon
  <2> QED
      BY <1>1, <1>2, <2>1, AppendProperties
<1>4. more \in Keys
    BY <1>3 DEF Keys
<1> HIDE DEF more
<1>5. KeyName(more) \in Seq(NameParts) /\ Len(KeyName(more)) = Len(key) + 1
    BY <1>3, <1>4, KeyNames
<1>6. /\ name \in Seq(NameParts) /\ Len(name) = Len(key)
      /\ \A j \in 1 .. Len(key) : name[j] = [underscores |-> IF j = 1 THEN 1 ELSE 2, word |-> key[j]]
    BY <1>2, KeyNames DEF KeyName
<1>7. \A j \in 1 .. Len(key) + 1 : KeyName(more)[j] = [underscores |-> IF j = 1 THEN 1 ELSE 2, word |-> more[j]]
  <2>1. DOMAIN more = 1 .. Len(key) + 1
      BY <1>3, <1>4, KeyFacts
  <2> QED
      BY <2>1 DEF KeyName
<1> HIDE DEF name
<1>8. /\ Append(name, part) \in Seq(NameParts) /\ Len(Append(name, part)) = Len(key) + 1
      /\ \A j \in 1 .. Len(key) : Append(name, part)[j] = name[j]
      /\ Append(name, part)[Len(key) + 1] = part
    BY <1>6, AppendProperties
<1>9. ASSUME NEW j \in 1 .. Len(key) + 1 PROVE KeyName(more)[j] = Append(name, part)[j]
  <2>1. CASE j \in 1 .. Len(key)
    <3>1. more[j] = key[j] /\ Append(name, part)[j] = name[j]
        BY <1>3, <1>8, <2>1
    <3>2. name[j] = [underscores |-> IF j = 1 THEN 1 ELSE 2, word |-> key[j]]
        BY <1>6, <2>1
    <3>3. KeyName(more)[j] = [underscores |-> IF j = 1 THEN 1 ELSE 2, word |-> more[j]]
        BY <1>7
    <3> QED
        BY <3>1, <3>2, <3>3, Zenon
  <2>2. CASE j \notin 1 .. Len(key)
    <3>1. j = Len(key) + 1 /\ j # 1
        BY <1>2, <2>2
    <3>2. KeyName(more)[j] = [underscores |-> 2, word |-> part.word]
        BY <1>3, <1>7, <3>1
    <3> QED
        BY <1>1, <1>8, <3>1, <3>2
  <2> QED
      BY <2>1, <2>2
<1>10. KeyName(more) = Append(name, part)
    BY <1>5, <1>8, <1>9, SeqEqual
<1> QED
    BY <1>4, <1>10 DEF more, name

(* A proper name is the documented name of the path it decodes to: two     *)
(* names never decode to the same path.                                    *)
LEMMA DecodeNames ==
    ASSUME NEW name \in ProperNames
    PROVE  NameOf(Decode(name)) = name
<1> DEFINE path == DecodePath(name)
           T == {i \in Nat : i + 1 <= Len(name) =>
                    /\ path[i + 1] \in Paths /\ path[i + 1] # << >>
                    /\ NameOf(path[i + 1]) = SubSeq(name, 1, i + 1)}
<1>1. name \in Seq(NameParts) /\ name # << >> /\ name[1].underscores = 1
    BY DEF ProperNames
<1>2. Len(name) \in Nat /\ Len(name) >= 1 /\ \A i \in 1 .. Len(name) : name[i] \in NameParts
    BY <1>1, EmptySeq, LenProperties, ElementOfSeq
<1>3. /\ Decode(name) = path[Len(name)] /\ path[0] = << >>
      /\ \A i \in 0 .. Len(name) - 1 :
            path[i + 1] = IF name[i + 1].underscores = 2
                          THEN Append(Front(path[i]), Append(Last(path[i]), name[i + 1].word))
                          ELSE Append(path[i], <<name[i + 1].word>>)
    BY <1>2, DecodeDef
<1> HIDE DEF path
\* A word after one underscore is a key of its own.
<1>4. ASSUME NEW i \in Nat, i + 1 <= Len(name), name[i + 1].underscores = 1,
             path[i] \in Paths, NameOf(path[i]) = SubSeq(name, 1, i)
      PROVE  /\ path[i + 1] \in Paths /\ path[i + 1] # << >>
             /\ NameOf(path[i + 1]) = SubSeq(name, 1, i + 1)
  <2> DEFINE part == name[i + 1]
  <2>1. part \in NameParts /\ part.underscores = 1 /\ i \in 0 .. Len(name) - 1
      BY <1>2, <1>4
  <2>2. path[i + 1] = Append(path[i], <<part.word>>)
    <3>1. part.underscores # 2
        BY <2>1
    <3>2. path[i + 1] = IF part.underscores = 2
                        THEN Append(Front(path[i]), Append(Last(path[i]), part.word))
                        ELSE Append(path[i], <<part.word>>)
        BY <1>3, <2>1
    <3> HIDE DEF part
    <3> QED
        BY <3>1, <3>2
  <2>3. Append(SubSeq(name, 1, i), part) = SubSeq(name, 1, i + 1) /\ SubSeq(name, 1, i) \in Seq(NameParts)
      BY <1>1, <1>4, Growing
  <2> HIDE DEF part
  <2>4. <<part.word>> \in Keys /\ KeyName(<<part.word>>) = <<part>>
      BY <2>1, KeyNameFirst
  <2>5. NameOf(path[i + 1]) = SubSeq(name, 1, i) \o <<part>>
      BY <1>4, <2>2, <2>4, NameGrows
  <2>6. SubSeq(name, 1, i) \o <<part>> = Append(SubSeq(name, 1, i), part)
      BY <2>1, <2>3, AppendIsConcat
  <2>7. path[i + 1] \in Paths /\ path[i + 1] # << >>
      BY <1>4, <2>2, <2>4, Appended DEF Paths
  <2> QED
      BY <2>3, <2>5, <2>6, <2>7
\* A word after two underscores is one more of the last key.
<1>5. ASSUME NEW i \in Nat, i + 1 <= Len(name), name[i + 1].underscores = 2,
             path[i] \in Paths, path[i] # << >>, NameOf(path[i]) = SubSeq(name, 1, i)
      PROVE  /\ path[i + 1] \in Paths /\ path[i + 1] # << >>
             /\ NameOf(path[i + 1]) = SubSeq(name, 1, i + 1)
  <2> DEFINE part == name[i + 1]
             above == path[i]
  <2>1. part \in NameParts /\ part.underscores = 2 /\ i \in 0 .. Len(name) - 1
      BY <1>2, <1>5
  <2>2. path[i + 1] = Append(Front(above), Append(Last(above), part.word))
      BY <1>3, <2>1
  <2>3. Append(SubSeq(name, 1, i), part) = SubSeq(name, 1, i + 1)
      BY <1>1, <1>5, Growing
  <2>a. above \in Seq(Keys) /\ above # << >> /\ NameOf(above) = SubSeq(name, 1, i)
      BY <1>5 DEF Paths
  <2> HIDE DEF part, above
  <2>4. PICK s \in Seq(Keys), key \in Keys : above = Append(s, key)
      BY <2>a, SequenceEmptyOrAppend
  <2>5. path[i + 1] = Append(s, Append(key, part.word))
      BY <2>2, <2>4, Grown
  <2>6. Append(key, part.word) \in Keys /\ KeyName(Append(key, part.word)) = Append(KeyName(key), part)
      BY <2>1, KeyNameMore
  <2>7. s \in Paths /\ NameOf(s) \in Seq(NameParts)
      BY NameDecodes DEF Paths
  <2>8. NameOf(path[i + 1]) = NameOf(s) \o Append(KeyName(key), part)
      BY <2>5, <2>6, <2>7, NameGrows
  <2>9. SubSeq(name, 1, i) = NameOf(s) \o KeyName(key)
      BY <2>4, <2>7, <2>a, NameGrows
  <2>10. NameOf(s) \o Append(KeyName(key), part) = Append(NameOf(s) \o KeyName(key), part)
    <3>1. KeyName(key) \in Seq(NameParts) /\ <<part>> \in Seq(NameParts)
        BY <2>1, KeyNames
    <3>2. Append(KeyName(key), part) = KeyName(key) \o <<part>>
        BY <2>1, <3>1, AppendIsConcat
    <3>3. NameOf(s) \o (KeyName(key) \o <<part>>) = (NameOf(s) \o KeyName(key)) \o <<part>>
        BY <2>7, <3>1, ConcatAssociative
    <3>4. NameOf(s) \o KeyName(key) \in Seq(NameParts)
        BY <2>7, <3>1, ConcatProperties
    <3>5. Append(NameOf(s) \o KeyName(key), part) = (NameOf(s) \o KeyName(key)) \o <<part>>
        BY <2>1, <3>4, AppendIsConcat
    <3> QED
        BY <3>2, <3>3, <3>5
  <2>11. path[i + 1] \in Paths /\ path[i + 1] # << >>
      BY <2>5, <2>6, Appended DEF Paths
  <2> QED
      BY <2>3, <2>8, <2>9, <2>10, <2>11
<1>6. 0 \in T
  <2>1. path[0] \in Paths /\ NameOf(path[0]) = SubSeq(name, 1, 0)
    <3>1. << >> \in Paths /\ Len(<< >>) = 0
        BY EmptySeq DEF Paths
    <3>2. NameOf(<< >>) = << >>
        BY <3>1, NameDef
    <3> QED
      <4>1. SubSeq(name, 1, 0) = << >>
          BY SubSeqEmpty
      <4>2. path[0] = << >>
          BY <1>3
      <4> QED
          BY <3>1, <3>2, <4>1, <4>2
  <2>2. 0 + 1 <= Len(name) /\ name[0 + 1].underscores = 1
      BY <1>1, <1>2
  <2> QED
      BY <1>4, <2>1, <2>2
<1>7. ASSUME NEW i \in Nat, i \in T PROVE i + 1 \in T
  <2>1. SUFFICES ASSUME NEW j \in Nat, j = i + 1, j + 1 <= Len(name)
                 PROVE  /\ path[j + 1] \in Paths /\ path[j + 1] # << >>
                        /\ NameOf(path[j + 1]) = SubSeq(name, 1, j + 1)
      OBVIOUS
  <2>2. path[j] \in Paths /\ path[j] # << >> /\ NameOf(path[j]) = SubSeq(name, 1, j)
      BY <1>2, <1>7, <2>1
  <2>3. name[j + 1].underscores \in {1, 2}
      BY <1>2, <2>1 DEF NameParts
  <2> QED
      BY <1>4, <1>5, <2>1, <2>2, <2>3
<1>8. Len(name) - 1 \in T /\ Len(name) - 1 + 1 = Len(name) /\ SubSeq(name, 1, Len(name)) = name
  <2> HIDE DEF T
  <2>1. Len(name) - 1 \in Nat /\ Len(name) - 1 + 1 = Len(name)
      BY <1>2
  <2> QED
      BY <1>1, <1>6, <1>7, <2>1, NatSets, SubSeqFull
<1> QED
    BY <1>2, <1>3, <1>8

-----------------------------------------------------------------------------
(* The layer of the environment.                                           *)

(* Neither of two paths leads to the other.                                *)
Apart(p, q) == ~IsPrefix(p, q) /\ ~IsPrefix(q, p)

EnvValue(kind) == [layer |-> "env", kind |-> kind]

(* An environment: its names begin a key, its values are strings, which    *)
(* are never null.                                                         *)
Proper(env) ==
    /\ IsFiniteSet(DOMAIN env) /\ DOMAIN env \subseteq ProperNames
    /\ \A n \in DOMAIN env : env[n] # "null"

(* What Unflatten has made of some of the names: every value is at the     *)
(* place of its name, or strays.                                           *)
Fits(env, map) ==
    /\ map = [p \in DOMAIN map |-> map[p]]
    /\ \A p \in DOMAIN map :
          /\ p \in Paths /\ p # << >>
          /\ \E n \in DOMAIN env : /\ map[p] = EnvValue(env[n])
                                   /\ p = Decode(n) \/ Stray(env, p)

LEMMA FrontIs ==
    ASSUME NEW p \in Paths, p # << >>
    PROVE  /\ Front(p) \in Paths /\ Last(p) \in Keys /\ p = Append(Front(p), Last(p))
           /\ Len(p) = Len(Front(p)) + 1
<1>1. PICK s \in Seq(Keys), key \in Keys : p = Append(s, key)
    BY SequenceEmptyOrAppend DEF Paths
<1>2. Front(p) = s /\ Last(p) = key /\ Len(p) = Len(s) + 1
    BY <1>1, Grown, AppendProperties
<1> QED
    BY <1>1, <1>2 DEF Paths

LEMMA StrictPrefixes ==
    ASSUME NEW p \in Paths, NEW q \in Paths
    PROVE  IsStrictPrefix(p, q) <=> IsPrefix(p, q) /\ Len(p) < Len(q)
<1>1. Len(p) \in Nat /\ Len(q) \in Nat
    BY DEF Paths
<1>2. IsPrefix(p, q) /\ Len(p) = Len(q) => p = q
    BY PrefixElements, SeqEqual DEF Paths
<1>3. IsPrefix(p, q) => Len(p) <= Len(q)
    BY PrefixElements
<1> QED
    BY <1>1, <1>2, <1>3 DEF IsStrictPrefix

LEMMA PrefixesOfAppend ==
    ASSUME NEW h \in Paths, NEW key \in Keys
    PROVE  /\ Append(h, key) \in Paths /\ Len(Append(h, key)) = Len(h) + 1 /\ Len(h) \in Nat
           /\ Append(h, key) # << >>
           /\ \A q \in Paths : IsPrefix(q, Append(h, key)) <=> q = Append(h, key) \/ IsPrefix(q, h)
<1> DEFINE t == Append(h, key)
<1>1. /\ h \in Seq(Keys) /\ Len(h) \in Nat /\ t \in Seq(Keys) /\ Len(t) = Len(h) + 1
      /\ t # << >> /\ \A i \in 1 .. Len(h) : t[i] = h[i]
    BY AppendProperties, Appended, LenProperties DEF Paths
<1> HIDE DEF t
<1>2. t \in Paths /\ IsPrefix(h, t)
  <2>1. t \in Paths
      BY <1>1 DEF Paths
  <2> QED
      BY <1>1, <2>1, PrefixElements
<1>3. ASSUME NEW q \in Paths PROVE IsPrefix(q, t) <=> q = t \/ IsPrefix(q, h)
  <2>1. Len(q) \in Nat
      BY DEF Paths
  <2>2. IsPrefix(q, h) => IsPrefix(q, t)
      BY <1>2, PrefixTransitive
  <2>3. ASSUME IsPrefix(q, t), q # t PROVE IsPrefix(q, h)
    <3>1. Len(q) < Len(t)
        BY <1>2, <2>3, StrictPrefixes DEF IsStrictPrefix
    <3>2. \A i \in 1 .. Len(q) : q[i] = t[i]
        BY <1>2, <2>3, PrefixElements
    <3>3. Len(q) <= Len(h) /\ \A i \in 1 .. Len(q) : q[i] = h[i]
        BY <1>1, <2>1, <3>1, <3>2
    <3> QED
        BY <3>3, PrefixElements
  <2> QED
      BY <1>2, <2>2, <2>3, PrefixReflexive
<1> QED
    BY <1>1, <1>2, <1>3 DEF t

(* Where one turn of Unflatten puts a value: at the place of its name, or  *)
(* else astray, because there is a value above it, and never below a value *)
(* that is there.                                                          *)
Lands(env, map, n, kind, place) ==
    /\ place # << >>
    /\ \/ place = Decode(n)
       \/ Stray(env, place) /\ \E u \in DOMAIN map : IsPrefix(u, Decode(n))
    /\ \A q \in DOMAIN map : ~IsStrictPrefix(q, place)
    /\ Put(map, Decode(n), kind) = Merge(map, [p \in {place} |-> EnvValue(kind)])

LEMMA PutFits ==
    ASSUME NEW env, Proper(env), NEW map, Fits(env, map), NEW n \in DOMAIN env, NEW kind
    PROVE  \E place \in Paths : Lands(env, map, n, kind, place)
<1> DEFINE path == Decode(n)
           at == WalkDown(map, path)
           section(m) == Front(Decode(m))
<1>1. path \in Paths /\ path # << >>
    BY DecodeType DEF Proper
<1>2. Len(path) \in Nat /\ Len(path) >= 1 /\ path \in Seq(Keys) /\ \A i \in 1 .. Len(path) : path[i] \in Keys
    BY <1>1, EmptySeq, LenProperties, ElementOfSeq DEF Paths
<1>3. /\ at[0] = << >>
      /\ \A i \in 0 .. Len(path) - 2 :
            at[i + 1] = LET here == at[i]
                        IN  IF Append(here, path[i + 1]) \in DOMAIN map THEN here
                            ELSE Append(here, path[i + 1])
    BY <1>1, WalkDef
<1>4. \A q \in DOMAIN map : q \in Paths /\ q # << >>
    BY DEF Fits
<1>5. Put(map, path, kind)
         = Merge(map, [p \in {Append(at[Len(path) - 1], Last(path))} |-> EnvValue(kind)])
    BY DEF Put, WalkDown, EnvValue
<1>6. \A m \in DOMAIN env : Decode(m) \in Paths /\ Decode(m) # << >> /\ section(m) \in Paths
    BY DecodeType, FrontIs DEF Proper
<1>c. Clashing(env) \subseteq DOMAIN env
    BY DEF Clashing
<1>s. \A p : Stray(env, p) =>
         \E m \in Clashing(env) : IsStrictPrefix(section(m), p)
    BY Zenon DEF Stray
<1>t. \A p, m : /\ m \in Clashing(env) /\ IsStrictPrefix(section(m), path)
                /\ IsStrictPrefix(section(m), p) /\ Last(p) = Last(path) /\ Len(p) < Len(path)
                => Stray(env, p)
    BY Zenon DEF Stray
<1>u. \A m \in DOMAIN env : IsStrictPrefix(Decode(m), path) => m \in Clashing(env)
    BY DEF Clashing
<1>f. \A p \in DOMAIN map : (\E m \in DOMAIN env : p = Decode(m)) \/ Stray(env, p)
    BY DEF Fits
<1> HIDE DEF at, path, section
<1> DEFINE Astray(i) == /\ Len(at[i]) < i
                        /\ \E u \in DOMAIN map : IsPrefix(u, path)
                        /\ \E m \in Clashing(env) : /\ IsPrefix(section(m), at[i])
                                                    /\ IsStrictPrefix(section(m), path)
           T == {i \in Nat : i <= Len(path) - 1 =>
                    /\ at[i] \in Paths
                    /\ \A q \in DOMAIN map : ~IsPrefix(q, at[i])
                    /\ at[i] = SubSeq(path, 1, i) \/ Astray(i)}
<1> HIDE DEF Astray
<1>7. 0 \in T
  <2>1. at[0] = SubSeq(path, 1, 0) /\ at[0] \in Paths
      BY <1>3, SubSeqEmpty, EmptySeq DEF Paths
  <2>2. ASSUME NEW q \in DOMAIN map PROVE ~IsPrefix(q, at[0])
    <3>1. Len(q) \in Nat /\ Len(q) # 0 /\ Len(at[0]) = 0
        BY <1>3, <1>4, EmptySeq DEF Paths
    <3>2. IsPrefix(q, at[0]) => Len(q) <= Len(at[0])
        BY <1>4, <2>1, PrefixElements
    <3> QED
        BY <3>1, <3>2
  <2> QED
      BY <2>1, <2>2
<1>8. ASSUME NEW i \in Nat, i \in T PROVE i + 1 \in T
  <2>1. SUFFICES ASSUME i + 1 <= Len(path) - 1
                 PROVE  /\ at[i + 1] \in Paths
                        /\ \A q \in DOMAIN map : ~IsPrefix(q, at[i + 1])
                        /\ at[i + 1] = SubSeq(path, 1, i + 1) \/ Astray(i + 1)
      OBVIOUS
  <2>2. i \in 0 .. Len(path) - 2 /\ i + 1 \in 1 .. Len(path) /\ i <= Len(path) - 1
      BY <1>2, <2>1
  <2>3. /\ at[i] \in Paths /\ (\A q \in DOMAIN map : ~IsPrefix(q, at[i]))
        /\ at[i] = SubSeq(path, 1, i) \/ Astray(i)
      BY <1>8, <2>2
  <2> DEFINE next == Append(at[i], path[i + 1])
  <2>4. at[i + 1] = at[i] \/ (at[i + 1] = next /\ next \notin DOMAIN map)
      BY <1>3, <2>2
  <2>5. at[i + 1] = at[i] => next \in DOMAIN map \/ at[i + 1] = next
      BY <1>3, <2>2
  <2>6. /\ next \in Paths /\ Len(next) = Len(at[i]) + 1 /\ Len(at[i]) \in Nat
        /\ \A q \in Paths : IsPrefix(q, next) <=> q = next \/ IsPrefix(q, at[i])
      BY <1>2, <2>2, <2>3, PrefixesOfAppend
  <2> HIDE DEF next
  <2>7. /\ at[i + 1] \in Paths
        /\ \A q \in DOMAIN map : ~IsPrefix(q, at[i + 1])
      BY <1>4, <2>3, <2>4, <2>6
  <2>8. CASE at[i] = SubSeq(path, 1, i)
    <3>1. next = SubSeq(path, 1, i + 1) /\ Len(at[i]) = i
        BY <1>2, <2>2, <2>8, Growing DEF next
    <3>2. IsStrictPrefix(next, path)
      <4>1. Len(next) = i + 1 /\ Len(next) < Len(path)
          BY <1>2, <2>1, <2>6, <3>1
      <4>2. \A j \in 1 .. i + 1 : next[j] = path[j]
          BY <1>2, <2>2, <3>1, SubSeqProperties
      <4> QED
          BY <1>1, <2>6, <4>1, <4>2, PrefixElements, StrictPrefixes
    <3>3. CASE next \notin DOMAIN map
        BY <2>4, <2>5, <2>7, <3>1, <3>3
    <3>4. CASE next \in DOMAIN map
      <4>1. at[i + 1] = at[i]
          BY <2>4, <3>4
      <4>2. PICK m \in Clashing(env) : IsStrictPrefix(section(m), next)
        <5>1. CASE Stray(env, next)
            BY <1>s, <5>1
        <5>2. CASE \E m \in DOMAIN env : next = Decode(m)
          <6>1. PICK m \in DOMAIN env : next = Decode(m)
              BY <5>2
          <6>2. m \in Clashing(env)
              BY <1>u, <3>2, <6>1
          <6>3. next # << >> /\ section(m) = Front(next)
              BY <1>6, <6>1 DEF section
          <6>4. section(m) = at[i]
              BY <1>2, <2>2, <2>3, <6>3, Grown DEF next, Paths
          <6>5. IsStrictPrefix(at[i], next)
              BY <2>3, <2>6, PrefixReflexive, StrictPrefixes
          <6> QED
              BY <6>2, <6>4, <6>5
        <5> QED
            BY <1>f, <3>4, <5>1, <5>2
      <4>3. section(m) \in Paths
          BY <1>6, <1>c
      <4>4. IsPrefix(section(m), at[i])
          BY <2>6, <4>2, <4>3 DEF IsStrictPrefix
      <4>5. IsStrictPrefix(section(m), path)
        <5>1. /\ IsPrefix(section(m), next) /\ Len(section(m)) < Len(next)
              /\ IsPrefix(next, path) /\ Len(next) < Len(path)
            BY <1>1, <2>6, <3>2, <4>2, <4>3, StrictPrefixes
        <5>2. IsPrefix(section(m), path) /\ Len(section(m)) \in Nat /\ Len(next) \in Nat
            BY <1>1, <2>6, <4>3, <5>1, PrefixTransitive, LenProperties DEF Paths
        <5> QED
            BY <1>1, <1>2, <4>3, <5>1, <5>2, StrictPrefixes
      <4>6. Len(at[i + 1]) < i + 1
          BY <3>1, <4>1
      <4>7. Astray(i + 1)
          BY <3>2, <3>4, <4>1, <4>4, <4>5, <4>6 DEF Astray, IsStrictPrefix
      <4> QED
          BY <2>7, <4>7
    <3> QED
        BY <3>3, <3>4
  <2>9. CASE Astray(i)
    <3>1. PICK m \in Clashing(env) : IsPrefix(section(m), at[i]) /\ IsStrictPrefix(section(m), path)
        BY <2>9 DEF Astray
    <3>2. section(m) \in Paths
        BY <1>6, <1>c
    <3>3. IsPrefix(section(m), at[i + 1])
        BY <2>4, <2>6, <3>1, <3>2
    <3>4. Len(at[i + 1]) < i + 1
        BY <2>4, <2>6, <2>9 DEF Astray
    <3>5. Astray(i + 1)
        BY <2>9, <3>1, <3>3, <3>4 DEF Astray
    <3> QED
        BY <2>7, <3>5
  <2> QED
      BY <2>3, <2>8, <2>9
<1> DEFINE last == Len(path) - 1
           place == Append(at[last], Last(path))
<1>9. /\ at[last] \in Paths
      /\ \A q \in DOMAIN map : ~IsPrefix(q, at[last])
      /\ at[last] = SubSeq(path, 1, last) \/ Astray(last)
  <2>1. last \in Nat
      BY <1>2
  <2> HIDE DEF T, last
  <2>2. last \in T
      BY <1>7, <1>8, <2>1, NatSets
  <2> QED
      BY <2>1, <2>2 DEF T, last
<1>10. Last(path) \in Keys /\ Last(path) = path[Len(path)]
    BY <1>1, <1>2 DEF Last
<1>11. /\ place \in Paths /\ Len(place) = Len(at[last]) + 1 /\ Len(at[last]) \in Nat
       /\ place # << >>
       /\ \A q \in Paths : IsPrefix(q, place) <=> q = place \/ IsPrefix(q, at[last])
    BY <1>9, <1>10, PrefixesOfAppend
<1>12. \A q \in DOMAIN map : ~IsStrictPrefix(q, place)
  <2> HIDE DEF place, last
  <2> QED
      BY <1>4, <1>9, <1>11 DEF IsStrictPrefix
<1>13. CASE at[last] = SubSeq(path, 1, last)
  <2>1. ASSUME NEW i \in Nat, i + 1 = Len(path)
        PROVE  Append(SubSeq(path, 1, i), path[i + 1]) = SubSeq(path, 1, i + 1)
      BY <1>2, <2>1, Growing
  <2>2. last \in Nat /\ last + 1 = Len(path)
      BY <1>2
  <2>3. Append(SubSeq(path, 1, last), path[Len(path)]) = SubSeq(path, 1, Len(path))
      BY <2>1, <2>2
  <2>4. place = path
      BY <1>2, <1>10, <1>13, <2>3, SubSeqFull
  <2> QED
      BY <1>5, <1>11, <1>12, <2>4 DEF Lands, path
<1>14. CASE Astray(last)
  <2>1. PICK m \in Clashing(env) :
           IsPrefix(section(m), at[last]) /\ IsStrictPrefix(section(m), path)
      BY <1>14 DEF Astray
  <2>2. section(m) \in Paths /\ Len(section(m)) \in Nat
      BY <1>6, <1>c, LenProperties DEF Paths
  <2>3. IsPrefix(section(m), place) /\ Len(section(m)) <= Len(at[last])
      BY <1>9, <1>11, <2>1, <2>2, PrefixElements
  <2>4. IsStrictPrefix(section(m), place)
    <3>1. Len(section(m)) < Len(place) /\ place \in Paths
        BY <1>11, <2>2, <2>3
    <3> HIDE DEF place
    <3> QED
        BY <2>2, <2>3, <3>1, StrictPrefixes
  <2>5. Last(place) = Last(path)
      BY <1>9, <1>10, Grown DEF Paths
  <2>6. Len(place) < Len(path)
      BY <1>2, <1>11, <1>14 DEF Astray
  <2>7. Stray(env, place)
      BY <1>t, <2>1, <2>4, <2>5, <2>6
  <2> QED
      BY <1>5, <1>11, <1>12, <1>14, <2>7 DEF Lands, path, Astray
<1> QED
    BY <1>9, <1>13, <1>14

(* The layer of the environment, in whatever order it is made: what is in  *)
(* it fits, and every name has a value where it belongs, above or below.   *)
LEMMA EnvLayersFit ==
    ASSUME NEW env, Proper(env), NEW layer \in EnvLayers(env)
    PROVE  Fits(env, layer) /\ \A n \in DOMAIN env : \E p \in DOMAIN layer : ~Apart(p, Decode(n))
<1> DEFINE S == DOMAIN env
           size == Cardinality(S)
<1>1. IsFiniteSet(S) /\ size \in Nat /\ IsFiniteSet(1 .. size) /\ Cardinality(1 .. size) = size
    BY FS_CardinalityType, FS_Interval DEF Proper
<1>2. SetToSeqs(S) = Injection(1 .. size, S)
    BY DEF SetToSeqs, Injection, IsInjective
<1>3. PICK order \in SetToSeqs(S) : layer = LayerUpTo(env, order)[size]
    BY DEF EnvLayers, LayerUpTo
<1> DEFINE path(j) == Decode(order[j])
           map == LayerUpTo(env, order)
           Covers(m, i) == \A j \in 1 .. i : \E p \in DOMAIN m : ~Apart(p, path(j))
           T == {i \in Nat : i <= size => Fits(env, map[i]) /\ Covers(map[i], i)}
<1>4. order \in [1 .. size -> S]
    BY DEF SetToSeqs
<1>5. \A x \in S : \E j \in 1 .. size : order[j] = x
  <2>1. order \in Injection(1 .. size, S) /\ Cardinality(1 .. size) = Cardinality(S)
      BY <1>1, <1>2
  <2> HIDE DEF S, size
  <2>2. order \in Surjection(1 .. size, S)
      BY <1>1, <2>1, FS_Injection
  <2> QED
      BY <2>2 DEF Surjection
<1>6. \A j \in 1 .. size : order[j] \in S /\ path(j) \in Paths /\ path(j) # << >>
    BY <1>4, DecodeType DEF Proper
<1>7. /\ map[0] = << >>
      /\ \A i \in 0 .. size - 1 : map[i + 1] = Put(map[i], path(i + 1), env[order[i + 1]])
    BY <1>1, LayerDef
<1> HIDE DEF map, S, size
<1>8. 0 \in T
  <2>1. map[0] = [p \in {} |-> p] /\ DOMAIN map[0] = {}
      BY <1>7
  <2>2. Fits(env, map[0])
      BY <2>1 DEF Fits
  <2> QED
      BY <2>2
<1>9. ASSUME NEW i \in Nat, i \in T PROVE i + 1 \in T
  <2>1. SUFFICES ASSUME i + 1 <= size PROVE Fits(env, map[i + 1]) /\ Covers(map[i + 1], i + 1)
      OBVIOUS
  <2>2. i + 1 \in 1 .. size /\ i \in 0 .. size - 1 /\ 1 .. i \subseteq 1 .. size /\ i <= size
      BY <1>1, <2>1
  <2> DEFINE old == map[i]
             new == map[i + 1]
             kind == env[order[i + 1]]
  <2>3. Fits(env, old) /\ Covers(old, i)
      BY <1>9, <2>2
  <2>4. PICK place \in Paths :
           /\ place # << >>
           /\ \/ place = path(i + 1)
              \/ Stray(env, place) /\ \E u \in DOMAIN old : IsPrefix(u, path(i + 1))
           /\ \A q \in DOMAIN old : ~IsStrictPrefix(q, place)
           /\ new = Merge(old, [p \in {place} |-> EnvValue(kind)])
    <3> HIDE DEF old
    <3>1. order[i + 1] \in DOMAIN env
        BY <1>6, <2>2 DEF S
    <3>2. new = Put(old, path(i + 1), kind)
        BY <1>7, <2>2 DEF old
    <3> DEFINE n == order[i + 1]
    <3>3. path(i + 1) = Decode(n) /\ n \in DOMAIN env
        BY <3>1
    <3> HIDE DEF n, path, new, kind
    <3>4. PICK place \in Paths : Lands(env, old, n, kind, place)
        BY <2>3, <3>3, PutFits
    <3> QED
        BY <3>2, <3>3, <3>4 DEF Lands
  <2> HIDE DEF old, new, kind
  <2>5. /\ new = [p \in DOMAIN new |-> new[p]]
        /\ DOMAIN new = {place} \cup {q \in DOMAIN old : ~IsPrefix(place, q) /\ ~IsPrefix(q, place)}
        /\ new[place] = EnvValue(kind)
        /\ \A p \in DOMAIN new : p # place => new[p] = old[p]
      BY <2>4 DEF Merge
  <2>6. Fits(env, new)
    <3>1. ASSUME NEW p \in DOMAIN new
          PROVE  /\ p \in Paths /\ p # << >>
                 /\ \E n \in DOMAIN env : new[p] = EnvValue(env[n]) /\ (p = Decode(n) \/ Stray(env, p))
      <4>1. CASE p = place
        <5>1. order[i + 1] \in DOMAIN env /\ new[p] = EnvValue(env[order[i + 1]])
            BY <1>6, <2>2, <2>5, <4>1 DEF S, kind
        <5> QED
            BY <2>4, <4>1, <5>1
      <4>2. CASE p # place
        <5>1. p \in DOMAIN old /\ new[p] = old[p]
            BY <2>5, <4>2
        <5> QED
            BY <2>3, <5>1 DEF Fits
      <4> QED
          BY <4>1, <4>2
    <3> QED
        BY <2>5, <3>1 DEF Fits
  <2>7. \A p \in DOMAIN old : p \in Paths
      BY <2>3 DEF Fits
  <2>8. \A p \in DOMAIN old : p \in DOMAIN new \/ IsPrefix(place, p)
    <3>1. ASSUME NEW p \in DOMAIN old, IsPrefix(p, place), ~IsPrefix(place, p) PROVE FALSE
      <4>1. p # place
          BY <2>4, <3>1, PrefixReflexive
      <4> QED
          BY <2>4, <3>1, <4>1 DEF IsStrictPrefix
    <3> QED
        BY <2>5, <3>1
  \* A value that was removed was below the new one, which is then above or
  \* below whatever that one was.
  <2>9. ASSUME NEW q \in Paths, NEW p \in DOMAIN old, ~Apart(p, q)
        PROVE  \E r \in DOMAIN new : ~Apart(r, q)
    <3>1. CASE p \in DOMAIN new
        BY <2>9, <3>1
    <3>2. CASE IsPrefix(place, p)
      <4>1. place \in DOMAIN new /\ p \in Paths
          BY <2>5, <2>7
      <4>2. CASE IsPrefix(p, q)
        <5>1. IsPrefix(place, q)
            BY <2>4, <3>2, <4>1, <4>2, PrefixTransitive
        <5> QED
            BY <4>1, <5>1 DEF Apart
      <4>3. CASE IsPrefix(q, p)
        <5>1. IsPrefix(place, q) \/ IsPrefix(q, place)
            BY <2>4, <3>2, <4>1, <4>3, PrefixesCompare
        <5> QED
            BY <4>1, <5>1 DEF Apart
      <4> QED
          BY <2>9, <4>2, <4>3 DEF Apart
    <3> QED
        BY <2>8, <3>1, <3>2
  <2>10. \E p \in DOMAIN new : ~Apart(p, path(i + 1))
    <3>1. path(i + 1) \in Paths
        BY <1>6, <2>2
    <3>2. CASE place = path(i + 1)
        BY <2>5, <3>1, <3>2, PrefixReflexive DEF Apart
    <3>3. ASSUME NEW u \in DOMAIN old, IsPrefix(u, path(i + 1))
          PROVE  \E p \in DOMAIN new : ~Apart(p, path(i + 1))
      <4>1. ~Apart(u, path(i + 1))
          BY <3>3 DEF Apart
      <4> QED
          BY <2>9, <3>1, <4>1
    <3> QED
        BY <2>4, <3>2, <3>3
  <2>11. Covers(new, i + 1)
    <3>1. ASSUME NEW j \in 1 .. i + 1 PROVE \E p \in DOMAIN new : ~Apart(p, path(j))
      <4>1. CASE j = i + 1
          BY <2>10, <4>1
      <4>2. CASE j # i + 1
        <5>1. j \in 1 .. i
            BY <4>2
        <5>2. PICK p \in DOMAIN old : ~Apart(p, path(j))
            BY <2>3, <5>1
        <5>3. path(j) \in Paths
            BY <1>6, <2>2, <5>1
        <5> QED
            BY <2>9, <5>2, <5>3
      <4> QED
          BY <4>1, <4>2
    <3> QED
        BY <3>1
  <2> QED
      BY <2>6, <2>11 DEF new
<1>10. Fits(env, map[size]) /\ Covers(map[size], size)
  <2> HIDE DEF T
  <2>1. size \in T
      BY <1>1, <1>8, <1>9, NatSets
  <2> QED
      BY <1>1, <2>1 DEF T
<1>11. ASSUME NEW n \in DOMAIN env PROVE \E p \in DOMAIN layer : ~Apart(p, Decode(n))
  <2>1. PICK j \in 1 .. size : order[j] = n
      BY <1>5 DEF S
  <2>2. \E p \in DOMAIN map[size] : ~Apart(p, path(j))
      BY <1>10
  <2> QED
      BY <1>3, <2>1, <2>2 DEF map
<1> QED
    BY <1>3, <1>10, <1>11 DEF map

LEMMA EnvHasLayer ==
    ASSUME NEW env, Proper(env)
    PROVE  EnvLayers(env) # {}
<1> DEFINE S == DOMAIN env
           size == Cardinality(S)
<1>1. ExistsBijection(1 .. size, S)
    BY FS_CardinalityType DEF Proper
<1>2. SetToSeqs(S) = Injection(1 .. size, S)
    BY DEF SetToSeqs, Injection, IsInjective
<1>3. \E order : order \in SetToSeqs(S)
    BY <1>1, <1>2 DEF ExistsBijection, Bijection
<1>4. EnvLayers(env) = {LayerUpTo(env, order)[size] : order \in SetToSeqs(S)}
    BY DEF EnvLayers, LayerUpTo
<1> HIDE DEF S, size
<1> QED
    BY <1>3, <1>4

(* With no name in the way of another there is only one layer.             *)
LEMMA EnvLayerIsOne ==
    ASSUME NEW env, Proper(env), Clashing(env) = {}
    PROVE  \E layer : EnvLayers(env) = {layer}
<1> DEFINE one == [p \in {Decode(n) : n \in DOMAIN env} |-> EnvValue(env[NameOf(p)])]
<1>1. ASSUME NEW layer \in EnvLayers(env) PROVE layer = one
  <2>1. /\ Fits(env, layer)
        /\ \A n \in DOMAIN env : \E p \in DOMAIN layer : ~Apart(p, Decode(n))
      BY EnvLayersFit
  <2>2. \A n \in DOMAIN env : Decode(n) \in Paths /\ NameOf(Decode(n)) = n
      BY DecodeType, DecodeNames DEF Proper
  <2>3. \A p : ~Stray(env, p)
      BY DEF Stray
  <2>4. \A p \in DOMAIN layer :
           \E n \in DOMAIN env : p = Decode(n) /\ layer[p] = EnvValue(env[n])
      BY <2>1, <2>3 DEF Fits
  <2>5. ASSUME NEW n \in DOMAIN env PROVE Decode(n) \in DOMAIN layer
    <3>1. PICK p \in DOMAIN layer : ~Apart(p, Decode(n))
        BY <2>1
    <3>2. PICK m \in DOMAIN env : p = Decode(m)
        BY <2>4
    <3>3. ~IsStrictPrefix(Decode(m), Decode(n)) /\ ~IsStrictPrefix(Decode(n), Decode(m))
        BY DEF Clashing
    <3>4. p = Decode(n)
        BY <3>1, <3>2, <3>3 DEF Apart, IsStrictPrefix
    <3> QED
        BY <3>4
  <2>6. DOMAIN layer = {Decode(n) : n \in DOMAIN env}
      BY <2>4, <2>5
  <2>7. \A p \in DOMAIN layer : layer[p] = EnvValue(env[NameOf(p)])
      BY <2>2, <2>4
  <2>8. layer = [p \in DOMAIN layer |-> layer[p]]
      BY <2>1 DEF Fits
  <2> QED
      BY <2>6, <2>7, <2>8
<1> HIDE DEF one
<1>2. EnvLayers(env) = {one}
    BY <1>1, EnvHasLayer
<1> QED
    BY <1>2

-----------------------------------------------------------------------------
(* The three layers.                                                       *)

LEMMA Tuples ==
    ASSUME NEW S
    PROVE  /\ \A a \in S : <<a>> \in Seq(S) \ {<< >>}
           /\ \A a, b \in S : <<a, b>> \in Seq(S) \ {<< >>}
           /\ \A a, b, c, d \in S : <<a, b, c, d>> \in Seq(S) \ {<< >>}
<1>1. ASSUME NEW a \in S PROVE <<a>> \in Seq(S) /\ Len(<<a>>) # 0
    OBVIOUS
<1>2. ASSUME NEW a \in S, NEW b \in S PROVE <<a, b>> \in Seq(S) /\ Len(<<a, b>>) # 0
    OBVIOUS
<1>3. ASSUME NEW a \in S, NEW b \in S, NEW c \in S, NEW d \in S
      PROVE  <<a, b, c, d>> \in Seq(S) /\ Len(<<a, b, c, d>>) # 0
    OBVIOUS
<1>4. Len(<< >>) = 0
    BY EmptySeq
<1> QED
    BY <1>1, <1>2, <1>3, <1>4, Zenon

(* The paths a value can be at.                                           *)
Good == Paths \ {<< >>}

LEMMA SettingsArePaths == \A s \in Settings : s \in Paths /\ s # << >>
<1>1. ASSUME NEW section \in Paths, NEW keys \in SUBSET Keys
      PROVE  In(section, keys) \subseteq Good
    BY Appended DEF In, Paths, Good
<1>2. /\ \A a \in Words : <<a>> \in Keys
      /\ \A a, b \in Words : <<a, b>> \in Keys
      /\ \A a, b, c, d \in Words : <<a, b, c, d>> \in Keys
    BY Tuples DEF Keys
<1>3. /\ "server" \in Words /\ "logging" \in Words /\ "rotate" \in Words /\ "proxy" \in Words
      /\ "cache" \in Words /\ "mail" \in Words /\ "from" \in Words /\ "database" \in Words
      /\ "notifications" \in Words /\ "telegram" \in Words /\ "discord" \in Words
      /\ "email" \in Words /\ "mailgun" \in Words /\ "msteams" \in Words
      /\ "enabled" \in Words /\ "url" \in Words /\ "username" \in Words
      /\ "password" \in Words /\ "no" \in Words /\ "timeout" \in Words /\ "user" \in Words
      /\ "agent" \in Words /\ "cert" \in Words /\ "dir" \in Words /\ "listen" \in Words
      /\ "metrics" \in Words /\ "pprof" \in Words /\ "graceful" \in Words
      /\ "secret" \in Words /\ "key" \in Words /\ "header" \in Words /\ "name" \in Words
      /\ "value" \in Words /\ "ip" \in Words /\ "host" \in Words /\ "headers" \in Words
      /\ "access" \in Words /\ "log" \in Words /\ "json" \in Words /\ "file" \in Words
      /\ "max" \in Words /\ "size" \in Words /\ "backups" \in Words /\ "age" \in Words
      /\ "compress" \in Words /\ "port" \in Words /\ "to" \in Words /\ "tls" \in Words
      /\ "starttls" \in Words /\ "skiptls" \in Words /\ "retries" \in Words
      /\ "filename" \in Words /\ "api" \in Words /\ "token" \in Words /\ "chat" \in Words
      /\ "ids" \in Words /\ "bot" \in Words /\ "oauth" \in Words /\ "channel" \in Words
      /\ "sender" \in Words /\ "recipients" \in Words /\ "address" \in Words
      /\ "domain" \in Words /\ "webhooks" \in Words
    BY DEF Words, SettingWords
<1>4. /\ \A a \in Keys : <<a>> \in Paths
      /\ \A a, b \in Keys : <<a, b>> \in Paths
      /\ << >> \in Paths
    BY Tuples, EmptySeq DEF Paths
<1> HIDE DEF Words, Keys, Paths
\* The keys of one word, of two and of four.
<1>a. /\ <<"server">> \in Keys /\ <<"logging">> \in Keys /\ <<"rotate">> \in Keys
      /\ <<"proxy">> \in Keys /\ <<"cache">> \in Keys /\ <<"mail">> \in Keys
      /\ <<"from">> \in Keys /\ <<"database">> \in Keys /\ <<"notifications">> \in Keys
      /\ <<"telegram">> \in Keys /\ <<"discord">> \in Keys /\ <<"email">> \in Keys
      /\ <<"mailgun">> \in Keys /\ <<"msteams">> \in Keys /\ <<"timeout">> \in Keys
      /\ <<"listen">> \in Keys /\ <<"json">> \in Keys /\ <<"enabled">> \in Keys
      /\ <<"compress">> \in Keys /\ <<"url">> \in Keys /\ <<"username">> \in Keys
      /\ <<"password">> \in Keys /\ <<"port">> \in Keys /\ <<"to">> \in Keys
      /\ <<"user">> \in Keys /\ <<"tls">> \in Keys /\ <<"starttls">> \in Keys
      /\ <<"skiptls">> \in Keys /\ <<"retries">> \in Keys /\ <<"name">> \in Keys
      /\ <<"filename">> \in Keys /\ <<"sender">> \in Keys /\ <<"recipients">> \in Keys
      /\ <<"domain">> \in Keys /\ <<"webhooks">> \in Keys
  <2>1. \A a \in Words : <<a>> \in Keys
      BY <1>2
  <2> QED
      BY <1>3, <2>1
<1>b. /\ <<"user", "agent">> \in Keys /\ <<"cert", "dir">> \in Keys
      /\ <<"listen", "metrics">> \in Keys /\ <<"listen", "pprof">> \in Keys
      /\ <<"graceful", "timeout">> \in Keys /\ <<"ip", "header">> \in Keys
      /\ <<"host", "headers">> \in Keys /\ <<"access", "log">> \in Keys
      /\ <<"log", "file">> \in Keys /\ <<"max", "size">> \in Keys
      /\ <<"max", "backups">> \in Keys /\ <<"max", "age">> \in Keys
      /\ <<"no", "proxy">> \in Keys /\ <<"api", "token">> \in Keys
      /\ <<"chat", "ids">> \in Keys /\ <<"bot", "token">> \in Keys
      /\ <<"oauth", "token">> \in Keys /\ <<"channel", "ids">> \in Keys
      /\ <<"api", "key">> \in Keys /\ <<"sender", "address">> \in Keys
  <2>1. \A a, b \in Words : <<a, b>> \in Keys
      BY <1>2
  <2> QED
      BY <1>3, <2>1
<1>c. /\ <<"secret", "key", "header", "name">> \in Keys
      /\ <<"secret", "key", "header", "value">> \in Keys
  <2>1. "header" \in Words /\ "key" \in Words /\ "name" \in Words /\ "secret" \in Words /\ "value" \in Words
      BY <1>3
  <2> QED
      BY <1>2, <2>1
<1>5. /\ <<"server">> \in Keys /\ <<"logging">> \in Keys /\ <<"rotate">> \in Keys
      /\ <<"proxy">> \in Keys /\ <<"cache">> \in Keys /\ <<"mail">> \in Keys
      /\ <<"from">> \in Keys /\ <<"database">> \in Keys /\ <<"notifications">> \in Keys
      /\ <<"telegram">> \in Keys /\ <<"discord">> \in Keys /\ <<"email">> \in Keys
      /\ <<"mailgun">> \in Keys /\ <<"msteams">> \in Keys
    BY <1>a, <1>b, <1>c
<1>6. /\ Server \in Paths /\ Logging \in Paths /\ Rotate \in Paths /\ Proxy \in Paths
      /\ Cache \in Paths /\ Mail \in Paths /\ From \in Paths /\ Database \in Paths
      /\ Telegram \in Paths /\ Discord \in Paths /\ Email \in Paths /\ Mailgun \in Paths
      /\ MSTeams \in Paths
    BY <1>4, <1>5
       DEF Server, Logging, Rotate, Proxy, Cache, Mail, From, Database, Telegram, Discord,
           Email, Mailgun, MSTeams
<1> HIDE DEF In
<1>7. In(<< >>, {<<"timeout">>, <<"user", "agent">>, <<"cert", "dir">>}) \subseteq Good
  <2>1. {<<"timeout">>, <<"user", "agent">>, <<"cert", "dir">>} \subseteq Keys
      BY <1>a, <1>b, <1>c
  <2> QED
      BY <1>1, <1>4, <1>6, <2>1
<1>8. In(Server, {<<"listen">>, <<"listen", "metrics">>, <<"listen", "pprof">>,
         <<"graceful", "timeout">>, <<"secret", "key", "header", "name">>, <<"secret",
         "key", "header", "value">>, <<"ip", "header">>, <<"host", "headers">>}) \subseteq
         Good
  <2>1. {<<"listen">>, <<"listen", "metrics">>, <<"listen", "pprof">>, <<"graceful",
        "timeout">>, <<"secret", "key", "header", "name">>, <<"secret", "key", "header",
        "value">>, <<"ip", "header">>, <<"host", "headers">>} \subseteq Keys
      BY <1>a, <1>b, <1>c
  <2> QED
      BY <1>1, <1>4, <1>6, <2>1
<1>9. In(Logging, {<<"access", "log">>, <<"json">>, <<"log", "file">>}) \subseteq Good
  <2>1. {<<"access", "log">>, <<"json">>, <<"log", "file">>} \subseteq Keys
      BY <1>a, <1>b, <1>c
  <2> QED
      BY <1>1, <1>4, <1>6, <2>1
<1>10. In(Rotate, {<<"enabled">>, <<"max", "size">>, <<"max", "backups">>, <<"max",
         "age">>, <<"compress">>}) \subseteq Good
  <2>1. {<<"enabled">>, <<"max", "size">>, <<"max", "backups">>, <<"max", "age">>,
        <<"compress">>} \subseteq Keys
      BY <1>a, <1>b, <1>c
  <2> QED
      BY <1>1, <1>4, <1>6, <2>1
<1>11. In(Proxy, {<<"url">>, <<"username">>, <<"password">>, <<"no", "proxy">>}) \subseteq
         Good
  <2>1. {<<"url">>, <<"username">>, <<"password">>, <<"no", "proxy">>} \subseteq Keys
      BY <1>a, <1>b, <1>c
  <2> QED
      BY <1>1, <1>4, <1>6, <2>1
<1>12. In(Cache, {<<"enabled">>, <<"timeout">>}) \subseteq Good
  <2>1. {<<"enabled">>, <<"timeout">>} \subseteq Keys
      BY <1>a, <1>b, <1>c
  <2> QED
      BY <1>1, <1>4, <1>6, <2>1
<1>13. In(Mail, {<<"enabled">>, <<"server">>, <<"port">>, <<"to">>, <<"user">>,
         <<"password">>, <<"tls">>, <<"starttls">>, <<"skiptls">>, <<"retries">>,
         <<"timeout">>}) \subseteq Good
  <2>1. {<<"enabled">>, <<"server">>, <<"port">>, <<"to">>, <<"user">>, <<"password">>,
        <<"tls">>, <<"starttls">>, <<"skiptls">>, <<"retries">>, <<"timeout">>} \subseteq
        Keys
      BY <1>a, <1>b, <1>c
  <2> QED
      BY <1>1, <1>4, <1>6, <2>1
<1>14. In(From, {<<"name">>, <<"email">>}) \subseteq Good
  <2>1. {<<"name">>, <<"email">>} \subseteq Keys
      BY <1>a, <1>b, <1>c
  <2> QED
      BY <1>1, <1>4, <1>6, <2>1
<1>15. In(Database, {<<"filename">>}) \subseteq Good
  <2>1. {<<"filename">>} \subseteq Keys
      BY <1>a, <1>b, <1>c
  <2> QED
      BY <1>1, <1>4, <1>6, <2>1
<1>16. In(Telegram, {<<"enabled">>, <<"api", "token">>, <<"chat", "ids">>}) \subseteq Good
  <2>1. {<<"enabled">>, <<"api", "token">>, <<"chat", "ids">>} \subseteq Keys
      BY <1>a, <1>b, <1>c
  <2> QED
      BY <1>1, <1>4, <1>6, <2>1
<1>17. In(Discord, {<<"enabled">>, <<"bot", "token">>, <<"oauth", "token">>, <<"channel",
         "ids">>}) \subseteq Good
  <2>1. {<<"enabled">>, <<"bot", "token">>, <<"oauth", "token">>, <<"channel", "ids">>}
        \subseteq Keys
      BY <1>a, <1>b, <1>c
  <2> QED
      BY <1>1, <1>4, <1>6, <2>1
<1>18. In(Email, {<<"enabled">>, <<"sender">>, <<"server">>, <<"port">>, <<"username">>,
         <<"password">>, <<"recipients">>}) \subseteq Good
  <2>1. {<<"enabled">>, <<"sender">>, <<"server">>, <<"port">>, <<"username">>,
        <<"password">>, <<"recipients">>} \subseteq Keys
      BY <1>a, <1>b, <1>c
  <2> QED
      BY <1>1, <1>4, <1>6, <2>1
<1>19. In(Mailgun, {<<"enabled">>, <<"api", "key">>, <<"sender", "address">>,
         <<"domain">>, <<"recipients">>}) \subseteq Good
  <2>1. {<<"enabled">>, <<"api", "key">>, <<"sender", "address">>, <<"domain">>,
        <<"recipients">>} \subseteq Keys
      BY <1>a, <1>b, <1>c
  <2> QED
      BY <1>1, <1>4, <1>6, <2>1
<1>20. In(MSTeams, {<<"enabled">>, <<"webhooks">>}) \subseteq Good
  <2>1. {<<"enabled">>, <<"webhooks">>} \subseteq Keys
      BY <1>a, <1>b, <1>c
  <2> QED
      BY <1>1, <1>4, <1>6, <2>1
<1>21. Settings \subseteq Good
    BY <1>7, <1>8, <1>9, <1>10, <1>11, <1>12, <1>13, <1>14, <1>15, <1>16, <1>17, <1>18, <1>19, <1>20
       DEF Settings, ProxySettings
<1> QED
    BY <1>21 DEF Good

LEMMA PathTypes ==
    /\ DOMAIN Defaults \subseteq Paths
    /\ \A s \in Settings, p \in Paths \ {<< >>} : IsStrictPrefix(p, s) => p \in Structs
<1>1. Proxy \in Paths
  <2>1. "proxy" \in Words
      BY DEF Words, SettingWords
  <2>2. <<"proxy">> \in Keys
      BY <2>1, Tuples DEF Keys
  <2> QED
      BY <2>2, Tuples DEF Proxy, Paths
<1>2. DOMAIN Defaults = (Settings \ ProxySettings) \cup {Proxy}
    BY DEF Defaults
<1>3. ASSUME NEW s \in Settings, NEW p \in Paths, p # << >>, IsStrictPrefix(p, s)
      PROVE  p \in Structs
  <2>1. s \in Paths /\ IsPrefix(p, s) /\ p # s
      BY <1>3, SettingsArePaths DEF IsStrictPrefix
  <2>2. /\ Len(p) \in Nat /\ Len(s) \in Nat /\ Len(p) <= Len(s) /\ Len(p) >= 1
        /\ \A i \in 1 .. Len(p) : p[i] = s[i]
      BY <1>3, <2>1, PrefixElements, EmptySeq, LenProperties DEF Paths
  <2>3. Len(p) # Len(s)
      BY <1>3, <2>1, <2>2, SeqEqual DEF Paths
  <2>4. SubSeq(s, 1, Len(p)) = p
    <3>1. /\ SubSeq(s, 1, Len(p)) \in Seq(Keys) /\ Len(SubSeq(s, 1, Len(p))) = Len(p)
          /\ \A i \in 1 .. Len(p) : SubSeq(s, 1, Len(p))[i] = s[i]
        BY <2>1, <2>2, SubSeqProperties DEF Paths
    <3> DEFINE t == SubSeq(s, 1, Len(p))
    <3> HIDE DEF t
    <3>2. t \in Seq(Keys) /\ Len(t) = Len(p) /\ \A i \in 1 .. Len(p) : t[i] = p[i]
        BY <2>2, <3>1 DEF t
    <3>3. t = p
        BY <3>2, SeqEqual DEF Paths
    <3> QED
        BY <3>3 DEF t
  <2>5. Len(p) \in 1 .. Len(s) - 1
      BY <2>2, <2>3
  <2> HIDE DEF Settings
  <2>6. \E n \in 1 .. Len(s) - 1 : p = SubSeq(s, 1, n)
      BY <2>4, <2>5
  <2>7. p \in {SubSeq(s, 1, n) : n \in 1 .. Len(s) - 1}
      BY <2>6
  <2> QED
      BY <2>7, Zenon DEF Structs
<1> HIDE DEF Settings, Structs, Paths
<1> QED
    BY <1>1, <1>2, <1>3, SettingsArePaths

(* Two of the paths are at the same place, or one is above the other, or   *)
(* they are apart.                                                         *)
LEMMA Places ==
    ASSUME NEW p \in Paths, NEW s \in Settings
    PROVE  Apart(p, s) \/ p = s \/ IsStrictPrefix(p, s) \/ IsStrictPrefix(s, p)
  BY DEF Apart, IsStrictPrefix

\* What the configuration is loaded from, and what a setting of it is.
Loading(file, layer) == Merge(Merge(Defaults, file.map), layer)

Decided(file, env, s) ==
    LET above == {p \in DOMAIN file.map : IsPrefix(p, s)}
    IN  IF NameOf(s) \in DOMAIN env
        THEN [layer |-> "env", kind |-> env[NameOf(s)]]
        ELSE IF above # {} THEN At(file.map, s)
        ELSE At(Defaults, s)

(* A layer that has nothing at, above or below a setting leaves it alone.  *)
LEMMA MergeKeeps ==
    ASSUME NEW old, NEW new, NEW s, \A p \in DOMAIN new : Apart(p, s), s \notin DOMAIN new
    PROVE  At(Merge(old, new), s) = At(old, s)
<1>1. DOMAIN Merge(old, new) = DOMAIN new \cup {q \in DOMAIN old :
                              \A n \in DOMAIN new : ~IsPrefix(n, q) /\ ~IsPrefix(q, n)}
    BY DEF Merge
<1>2. s \in DOMAIN Merge(old, new) <=> s \in DOMAIN old
    BY <1>1 DEF Apart
<1>3. s \in DOMAIN Merge(old, new) => Merge(old, new)[s] = old[s]
    BY <1>1 DEF Merge
<1> QED
    BY <1>2, <1>3 DEF At

LEMMA EnvDecides ==
    ASSUME NEW file, DOMAIN file.map \subseteq Paths, NEW env, Proper(env),
           NEW layer \in EnvLayers(env), Decodes(Loading(file, layer)),
           NEW s \in Settings, s \notin ByChance(env)
    PROVE  At(Loading(file, layer), s) = Decided(file, env, s)
<1> DEFINE below == Merge(Defaults, file.map)
           map == Loading(file, layer)
<1>1. s \in Paths /\ s # << >> /\ ~Stray(env, s)
    BY SettingsArePaths DEF ByChance
<1>2. map = Merge(below, layer)
    BY DEF Loading
<1>3. /\ Fits(env, layer)
      /\ \A n \in DOMAIN env : \E p \in DOMAIN layer : ~Apart(p, Decode(n))
    BY EnvLayersFit
<1>4. \A n \in DOMAIN env : /\ Decode(n) \in Paths /\ NameOf(Decode(n)) = n /\ env[n] # "null"
    BY DecodeType, DecodeNames DEF Proper
<1>5. Decode(NameOf(s)) = s
    BY <1>1, NameDecodes
<1> HIDE DEF map, below
<1>6. DOMAIN layer \subseteq DOMAIN map /\ \A p \in DOMAIN layer : map[p] = layer[p]
    BY <1>2 DEF Merge
\* Neither a value at a struct nor one below a setting is decoded.
<1>9. ASSUME NEW p \in DOMAIN layer PROVE Apart(p, s) \/ p = s
  <2>1. PICK n \in DOMAIN env : layer[p] = EnvValue(env[n])
      BY <1>3 DEF Fits
  <2>2. p \in Paths /\ p # << >> /\ env[n] # "null" /\ p \in DOMAIN map /\ map[p] = EnvValue(env[n])
      BY <1>3, <1>4, <1>6, <2>1 DEF Fits
  <2>3. ~IsStrictPrefix(p, s)
    <3>1. SUFFICES ASSUME IsStrictPrefix(p, s) PROVE FALSE
        OBVIOUS
    <3>2. p \in Structs
        BY <2>2, <3>1, PathTypes
    <3>3. map[p].kind = env[n]
      <4>1. ASSUME NEW kind PROVE EnvValue(kind).kind = kind
          BY DEF EnvValue
      <4> QED
          BY <2>2, <4>1
    <3>4. map[p].kind = "null"
        BY <2>2, <3>2 DEF Decodes, map
    <3> QED
        BY <2>2, <3>3, <3>4
  <2>4. ~IsStrictPrefix(s, p)
      BY <2>2 DEF Decodes, map
  <2> QED
      BY <2>2, <2>3, <2>4, Places
\* What is at the place of a setting that is not left to chance is its own.
<1>10. ASSUME s \in DOMAIN layer PROVE NameOf(s) \in DOMAIN env /\ layer[s] = EnvValue(env[NameOf(s)])
  <2>1. PICK n \in DOMAIN env : layer[s] = EnvValue(env[n]) /\ s = Decode(n)
      BY <1>1, <1>3, <1>10 DEF Fits
  <2>2. NameOf(s) = n
      BY <1>4, <2>1
  <2> QED
      BY <2>1, <2>2
<1>7. CASE NameOf(s) \in DOMAIN env
  <2>1. s \in DOMAIN layer
    <3>1. PICK p \in DOMAIN layer : ~Apart(p, s)
        BY <1>3, <1>5, <1>7
    <3> QED
        BY <1>9, <3>1
  <2>2. At(map, s) = EnvValue(env[NameOf(s)])
      BY <1>6, <1>10, <2>1 DEF At
  <2> QED
      BY <1>7, <2>2 DEF Decided, EnvValue, map
<1>8. CASE NameOf(s) \notin DOMAIN env
  <2>1. ASSUME NEW p \in DOMAIN layer PROVE Apart(p, s)
      BY <1>8, <1>9, <1>10
  <2>2. s \notin DOMAIN layer
      BY <1>1, <2>1, PrefixReflexive DEF Apart
  <2>3. At(map, s) = At(below, s)
      BY <1>2, <2>1, <2>2, MergeKeeps
  <2>4. CASE \E p \in DOMAIN file.map : IsPrefix(p, s)
    <3>1. At(below, s) = At(file.map, s)
      <4>1. CASE s \in DOMAIN file.map
        <5>1. s \in DOMAIN below /\ below[s] = file.map[s]
            BY <4>1 DEF below, Merge
        <5> QED
            BY <4>1, <5>1 DEF At
      <4>2. CASE s \notin DOMAIN file.map
        <5>1. s \notin DOMAIN below
            BY <2>4, <4>2 DEF below, Merge
        <5> QED
            BY <4>2, <5>1 DEF At
      <4> QED
          BY <4>1, <4>2
    <3>2. {p \in DOMAIN file.map : IsPrefix(p, s)} # {}
        BY <2>4
    <3> QED
        BY <1>8, <2>3, <3>1, <3>2 DEF Decided, map
  <2>5. CASE \A p \in DOMAIN file.map : ~IsPrefix(p, s)
    <3>1. ASSUME NEW q \in DOMAIN file.map PROVE Apart(q, s)
      <4>1. q \in Paths /\ ~IsPrefix(q, s)
          BY <2>5
      <4>2. SUFFICES ASSUME IsPrefix(s, q) PROVE FALSE
          BY <4>1 DEF Apart
      <4>3. ASSUME NEW p \in DOMAIN layer PROVE ~IsPrefix(p, q) /\ ~IsPrefix(q, p)
        <5>1. Apart(p, s) /\ p \in Paths
            BY <1>3, <2>1 DEF Fits
        <5>2. ~IsPrefix(p, q)
            BY <1>1, <4>1, <4>2, <5>1, PrefixesCompare DEF Apart
        <5>3. ~IsPrefix(q, p)
            BY <1>1, <4>1, <4>2, <5>1, PrefixTransitive DEF Apart
        <5> QED
            BY <5>2, <5>3
      <4>4. q \in DOMAIN below
          BY DEF below, Merge
      <4>5. q \in DOMAIN map
          BY <1>2, <4>3, <4>4 DEF Merge
      <4>6. IsStrictPrefix(s, q)
          BY <1>1, <4>1, <4>2, PrefixReflexive DEF IsStrictPrefix
      <4> QED
          BY <4>5, <4>6 DEF Decodes, map
    <3>2. s \notin DOMAIN file.map
        BY <1>1, <3>1, PrefixReflexive DEF Apart
    <3>3. At(below, s) = At(Defaults, s)
        BY <3>1, <3>2, MergeKeeps DEF below
    <3>4. {p \in DOMAIN file.map : IsPrefix(p, s)} = {}
        BY <2>5
    <3> QED
        BY <1>8, <2>3, <3>3, <3>4 DEF Decided, map
  <2> QED
      BY <2>4, <2>5
<1> QED
    BY <1>7, <1>8

(* In every configuration GetConfig returns, each setting is decided by    *)
(* the environment, else by the file, else by the defaults, but those that *)
(* names in the way of another leave to chance; without such names what    *)
(* GetConfig does is settled.                                              *)
LEMMA ConfigIs ==
    ASSUME NEW file, DOMAIN file.map \subseteq Paths, NEW env, Proper(env)
    PROVE  /\ Clashing(env) = {} => \E result : GetConfig(file, env) = {result}
           /\ \A result \in GetConfig(file, env) :
                 ~result.error =>
                    \A s \in Settings \ ByChance(env) : result.settings[s] = Decided(file, env, s)
<1> DEFINE Result(map) ==
               IF Decodes(map) /\ Valid(map)
               THEN [error |-> FALSE, settings |-> [s \in Settings |-> At(map, s)]]
               ELSE [error |-> TRUE, settings |-> << >>]
           failed == [error |-> TRUE, settings |-> << >>]
<1>1. file.readable =>
         GetConfig(file, env) = {Result(Loading(file, layer)) : layer \in EnvLayers(env)}
  <2>1. SUFFICES ASSUME file.readable
                 PROVE  GetConfig(file, env) = {Result(Loading(file, layer)) : layer \in EnvLayers(env)}
      OBVIOUS
  <2>2. GetConfig(file, env) = {Result(map) : map \in {Loading(file, layer) : layer \in EnvLayers(env)}}
      BY <2>1 DEF GetConfig, Loading
  <2> HIDE DEF Result
  <2> QED
      BY <2>2
<1>2. ~file.readable => GetConfig(file, env) = {failed}
    BY DEF GetConfig
<1>3. ASSUME NEW layer \in EnvLayers(env), ~Result(Loading(file, layer)).error,
             NEW s \in Settings, s \notin ByChance(env)
      PROVE  Result(Loading(file, layer)).settings[s] = Decided(file, env, s)
  <2> DEFINE map == Loading(file, layer)
             result == Result(map)
  <2> HIDE DEF map
  <2>1. Decodes(map) /\ Valid(map)
      BY <1>3 DEF map
  <2>2. result = [error |-> FALSE, settings |-> [t \in Settings |-> At(map, t)]]
      BY <2>1
  <2> HIDE DEF result
  <2>3. result.settings[s] = At(map, s)
      BY <2>2
  <2> QED
      BY <1>3, <2>1, <2>3, EnvDecides DEF map, result
<1>4. failed.error
    OBVIOUS
<1> HIDE DEF Result, failed
<1>5. ASSUME Clashing(env) = {} PROVE \E result : GetConfig(file, env) = {result}
  <2>1. PICK layer : EnvLayers(env) = {layer}
      BY <1>5, EnvLayerIsOne
  <2>2. {Result(Loading(file, other)) : other \in {layer}} = {Result(Loading(file, layer))}
      OBVIOUS
  <2> QED
      BY <1>1, <1>2, <2>1, <2>2
<1>6. ASSUME NEW result \in GetConfig(file, env), ~result.error,
             NEW s \in Settings, s \notin ByChance(env)
      PROVE  result.settings[s] = Decided(file, env, s)
  <2>1. file.readable
      BY <1>2, <1>4, <1>6
  <2>2. PICK layer \in EnvLayers(env) : result = Result(Loading(file, layer))
      BY <1>1, <1>6, <2>1
  <2> QED
      BY <1>3, <1>6, <2>2
<1> QED
    BY <1>5, <1>6

-----------------------------------------------------------------------------
(* The documented names.                                                   *)

\* The places of the settings: at the top, in a section, or in a section of
\* a section.
Tops  == {<<"timeout">>, <<"user", "agent">>, <<"cert", "dir">>}
Inner == {Rotate, From, Telegram, Discord, Email, Mailgun, MSTeams}

Shape(s) ==
    \/ Len(s) = 1 /\ s[1] \in Tops
    \/ Len(s) = 2 /\ s[1] \notin Tops /\ <<s[1], s[2]>> \notin Inner
    \/ Len(s) = 3 /\ s[1] \notin Tops /\ <<s[1], s[2]>> \in Inner

LEMMA SettingsHaveShape == \A s \in Settings : Shape(s)
<1>1. /\ \A k : Append(<< >>, k) = <<k>>
      /\ \A a, k : Append(<<a>>, k) = <<a, k>>
      /\ \A a, b, k : Append(<<a, b>>, k) = <<a, b, k>>
  <2>1. ASSUME NEW k PROVE Append(<< >>, k) = <<k>>
      OBVIOUS
  <2>2. ASSUME NEW a, NEW k PROVE Append(<<a>>, k) = <<a, k>>
    <3> DEFINE s == <<a>>
               t == Append(s, k)
    <3>1. s \in Seq({a, k}) /\ Len(s) = 1 /\ s[1] = a
        OBVIOUS
    <3> HIDE DEF s
    <3>e. PICK S : s \in Seq(S) /\ k \in S
      <4>1. k \in {a, k}
          OBVIOUS
      <4> QED
          BY <3>1, <4>1, Zenon
    <3>2. /\ t \in Seq(S) /\ Len(t) = Len(s) + 1
          /\ \A i \in 1 .. Len(s) : t[i] = s[i]
          /\ t[Len(s) + 1] = k
        BY <3>e, AppendProperties
    <3> HIDE DEF t
    <3>3. t = <<a, k>>
        BY <3>1, <3>2
    <3> QED
        BY <3>3 DEF s, t
  <2>3. ASSUME NEW a, NEW b, NEW k PROVE Append(<<a, b>>, k) = <<a, b, k>>
    <3> DEFINE s == <<a, b>>
               t == Append(s, k)
    <3>1. s \in Seq({a, b, k}) /\ Len(s) = 2 /\ s[1] = a /\ s[2] = b
        OBVIOUS
    <3> HIDE DEF s
    <3>e. PICK S : s \in Seq(S) /\ k \in S
      <4>1. k \in {a, b, k}
          OBVIOUS
      <4> QED
          BY <3>1, <4>1, Zenon
    <3>2. /\ t \in Seq(S) /\ Len(t) = Len(s) + 1
          /\ \A i \in 1 .. Len(s) : t[i] = s[i]
          /\ t[Len(s) + 1] = k
        BY <3>e, AppendProperties
    <3> HIDE DEF t
    <3>3. t = <<a, b, k>>
        BY <3>1, <3>2
    <3> QED
        BY <3>3 DEF s, t
  <2> QED
      BY <2>1, <2>2, <2>3, Zenon
<1>2. \A k \in Tops : Shape(<<k>>)
    BY DEF Shape
<1>3. ASSUME NEW a, NEW k, a \notin Tops, <<a, k>> \notin Inner PROVE Shape(<<a, k>>)
    BY <1>3 DEF Shape
<1>4. ASSUME NEW a, NEW b, NEW k, a \notin Tops, <<a, b>> \in Inner PROVE Shape(<<a, b, k>>)
    BY <1>4 DEF Shape
<1>5. /\ <<"server">> \notin Tops /\ <<"logging">> \notin Tops /\ <<"proxy">> \notin Tops
      /\ <<"cache">> \notin Tops /\ <<"mail">> \notin Tops /\ <<"database">> \notin Tops
      /\ <<"notifications">> \notin Tops
    BY DEF Tops
<1>6. \A a \in {<<"server">>, <<"proxy">>, <<"cache">>, <<"database">>} : \A k : <<a, k>> \notin Inner
    BY DEF Inner, Rotate, From, Telegram, Discord, Email, Mailgun, MSTeams
<1>7. \A k : k # <<"rotate">> => << <<"logging">>, k>> \notin Inner
    BY DEF Inner, Rotate, From, Telegram, Discord, Email, Mailgun, MSTeams
<1>8. \A k : k # <<"from">> => << <<"mail">>, k>> \notin Inner
    BY DEF Inner, Rotate, From, Telegram, Discord, Email, Mailgun, MSTeams
<1> DEFINE Shaped(section, keys) == \A s \in In(section, keys) : Shape(s)
<1>9. Shaped(<< >>, {<<"timeout">>, <<"user", "agent">>, <<"cert", "dir">>})
    BY <1>1, <1>2 DEF In, Tops
<1>10. \A keys : Shaped(Server, keys) /\ Shaped(Proxy, keys) /\ Shaped(Cache, keys) /\ Shaped(Database, keys)
    BY <1>1, <1>3, <1>5, <1>6 DEF In, Server, Proxy, Cache, Database
<1>11. Shaped(Logging, {<<"access", "log">>, <<"json">>, <<"log", "file">>})
  <2>1. \A k \in {<<"access", "log">>, <<"json">>, <<"log", "file">>} : k # <<"rotate">>
      OBVIOUS
  <2> QED
      BY <1>1, <1>3, <1>5, <1>7, <2>1 DEF In, Logging
<1>12. Shaped(Mail, {<<"enabled">>, <<"server">>, <<"port">>, <<"to">>, <<"user">>,
                     <<"password">>, <<"tls">>, <<"starttls">>, <<"skiptls">>,
                     <<"retries">>, <<"timeout">>})
  <2>1. \A k \in {<<"enabled">>, <<"server">>, <<"port">>, <<"to">>, <<"user">>,
                  <<"password">>, <<"tls">>, <<"starttls">>, <<"skiptls">>,
                  <<"retries">>, <<"timeout">>} : k # <<"from">>
      OBVIOUS
  <2> QED
      BY <1>1, <1>3, <1>5, <1>8, <2>1 DEF In, Mail
<1>13. \A keys :
          /\ Shaped(Rotate, keys) /\ Shaped(From, keys) /\ Shaped(Telegram, keys)
          /\ Shaped(Discord, keys) /\ Shaped(Email, keys) /\ Shaped(Mailgun, keys)
          /\ Shaped(MSTeams, keys)
  <2>1. Rotate \in Inner /\ From \in Inner /\ Telegram \in Inner /\ Discord \in Inner
        /\ Email \in Inner /\ Mailgun \in Inner /\ MSTeams \in Inner
      BY DEF Inner
  <2> QED
      BY <1>1, <1>4, <1>5, <2>1 DEF In, Rotate, From, Telegram, Discord, Email, Mailgun, MSTeams
<1> HIDE DEF In, Shape
<1> QED
    BY <1>9, <1>10, <1>11, <1>12, <1>13 DEF Settings, ProxySettings

(* No setting is above another.                                            *)
LEMMA SettingsApart ==
    ASSUME NEW s \in Settings, NEW t \in Settings, IsPrefix(s, t)
    PROVE  s = t
<1>1. /\ s \in Paths /\ t \in Paths /\ Len(s) \in Nat /\ Len(t) \in Nat
      /\ Len(s) <= Len(t) /\ \A i \in 1 .. Len(s) : s[i] = t[i]
    BY SettingsArePaths, PrefixElements, LenProperties DEF Paths
<1>2. Shape(s) /\ Shape(t)
    BY SettingsHaveShape
<1>3. Len(s) = Len(t)
  <2>1. Len(s) >= 1 => s[1] = t[1]
      BY <1>1
  <2>2. Len(s) >= 2 => s[2] = t[2]
      BY <1>1
  <2> QED
      BY <1>1, <1>2, <2>1, <2>2 DEF Shape
<1> QED
    BY <1>1, <1>3, SeqEqual DEF Paths

(* No documented name is in the way of another.                            *)
LEMMA DocumentedDoNotClash ==
    ASSUME NEW env, DOMAIN env \subseteq {NameOf(s) : s \in Settings}
    PROVE  Clashing(env) = {} /\ ByChance(env) = {} /\ DOMAIN env \subseteq ProperNames
<1>1. ASSUME NEW n \in DOMAIN env
      PROVE  n \in ProperNames /\ \E s \in Settings : n = NameOf(s) /\ Decode(n) = s
  <2>1. PICK s \in Settings : n = NameOf(s)
      OBVIOUS
  <2> QED
      BY <2>1, SettingsArePaths, NameDecodes
<1>2. ASSUME NEW m \in DOMAIN env, NEW n \in DOMAIN env PROVE ~IsStrictPrefix(Decode(m), Decode(n))
  <2>1. Decode(m) \in Settings /\ Decode(n) \in Settings
      BY <1>1
  <2> QED
      BY <2>1, SettingsApart DEF IsStrictPrefix
<1>3. Clashing(env) = {}
    BY <1>2 DEF Clashing
<1> QED
    BY <1>1, <1>3 DEF ByChance, Stray
=============================================================================
