---------------------------- MODULE CacherProofs ----------------------------
(***************************************************************************)
(* Proofs about Cacher for any clients, keys, expiration and period: no    *)
(* concurrent map access, the staleness bound, that only expired entries   *)
(* disappear, and that the lock deadlocks nobody.                          *)
(***************************************************************************)
EXTENDS Cacher, TLAPS

-----------------------------------------------------------------------------
(* The inductive invariant *)

(* What the lock hands out: at most one announced or writing goroutine,    *)
(* readers none while one writes, and no reader asleep without a writer    *)
(* whose Unlock will wake it.                                              *)
LockInv ==
  /\ \A p \in Procs : state[p] \in {"announced", "writing"} <=> writer = p
  /\ \A p, q \in Procs : state[p] = "writing" => state[q] # "reading"
  /\ \A p \in Procs : state[p] = "rwait" => writer # "nobody"
  /\ \A p \in Clients : state[p] # "stopped"

(* The sweep that will take entry k is still to come or under way.         *)
Owed(k) ==
  \/ pending
  \/ state[Inv] \in {"queued", "announced", "stopped"}
  \/ state[Inv] = "writing" /\ k \in doomed

(* An entry that outlived the last sweep was not older than Expiration     *)
(* then, and grew older only with the countdown.                           *)
AgeInv ==
  \A k \in Keys : age[k] # Absent /\ ~Owed(k) => age[k] + countdown <= Expiration + Period

(* Nothing is set while a sweep goes on, so what it found expired still is. *)
DoomedInv ==
  \A k \in doomed : state[Inv] = "writing" /\ age[k] # Absent /\ age[k] > Expiration

IInv == TypeOK /\ LockInv /\ AgeInv /\ DoomedInv

-----------------------------------------------------------------------------
(* The initial state satisfies the inductive invariant.                    *)
LEMMA InvInit == Init => IInv
<1> USE ClientsAssumption, TimeAssumption
<1> SUFFICES ASSUME Init PROVE IInv
  OBVIOUS
<1>1. Absent \in 0..Absent /\ Period \in 1..Period
  BY DEF Absent, MaxAge
<1>2. TypeOK
  BY <1>1 DEF Init, TypeOK
<1>3. LockInv
  BY DEF Init, LockInv, Procs, Inv
<1>4. AgeInv /\ DoomedInv
  BY DEF Init, AgeInv, DoomedInv
<1>5. QED
  BY <1>2, <1>3, <1>4 DEF IInv

(* The domains, kept by every step.                                        *)
LEMMA TypeStep == IInv /\ [Next]_vars => TypeOK'
<1> USE ClientsAssumption, TimeAssumption
<1> SUFFICES ASSUME IInv, [Next]_vars PROVE TypeOK'
  OBVIOUS
<1> USE DEF IInv, TypeOK, Procs, Inv, MaxAge, Absent, Becomes, MayEnter, Readers, Unlock
<1>1. ASSUME NEW p \in Procs, Acquire(p) PROVE TypeOK'
  BY <1>1 DEF Acquire
<1>2. ASSUME NEW p \in Clients, Call(p) PROVE TypeOK'
  BY <1>2 DEF Call, GetCall, SetCall
<1>3. ASSUME NEW p \in Clients, Continue(p) PROVE TypeOK'
  BY <1>3 DEF Continue, GetReturn, SetEnter, SetReturn
<1>4. CASE TakeTick \/ Stop
  BY <1>4 DEF TakeTick, Stop
<1>5. CASE Sweep
  BY <1>5 DEF Sweep, BeginSweep, Delete, EndSweep
<1>6. CASE Tick
  <2>1. age' \in [Keys -> 0..Absent]
    BY <1>6 DEF Tick
  <2>2. countdown' \in 1..Period
    BY <1>6 DEF Tick
  <2>3. pending' \in BOOLEAN
    BY <1>6, ZenonT(20) DEF Tick
  <2>4. QED
    BY <1>6, <2>1, <2>2, <2>3 DEF Tick
<1>7. CASE Cancel \/ UNCHANGED vars
  BY <1>7 DEF Cancel, vars
<1>8. QED
  BY <1>1, <1>2, <1>3, <1>4, <1>5, <1>6, <1>7 DEF Next

(* The lock, kept by every step.                                           *)
LEMMA LockStep == IInv /\ [Next]_vars => LockInv'
<1> USE ClientsAssumption, TimeAssumption
<1> SUFFICES ASSUME IInv, [Next]_vars PROVE LockInv'
  OBVIOUS
<1> USE DEF IInv, TypeOK, LockInv, Procs, Inv, Becomes, MayEnter, Readers, Unlock
<1>1. ASSUME NEW p \in Procs, Acquire(p) PROVE LockInv'
  BY <1>1 DEF Acquire
<1>2. ASSUME NEW p \in Clients, Call(p) PROVE LockInv'
  BY <1>2 DEF Call, GetCall, SetCall
<1>3. ASSUME NEW p \in Clients, Continue(p) PROVE LockInv'
  BY <1>3 DEF Continue, GetReturn, SetEnter, SetReturn
<1>4. CASE TakeTick \/ Stop
  BY <1>4 DEF TakeTick, Stop
<1>5. CASE Sweep
  BY <1>5 DEF Sweep, BeginSweep, Delete, EndSweep
<1>6. CASE Tick \/ Cancel
  BY <1>6 DEF Tick, Cancel
<1>7. CASE UNCHANGED vars
  BY <1>7 DEF vars
<1>8. QED
  BY <1>1, <1>2, <1>3, <1>4, <1>5, <1>6, <1>7 DEF Next

(* Ages and what is doomed, kept by every step.                            *)
LEMMA AgeStep == IInv /\ [Next]_vars => AgeInv' /\ DoomedInv'
<1> USE ClientsAssumption, TimeAssumption
<1> SUFFICES ASSUME IInv, [Next]_vars PROVE AgeInv' /\ DoomedInv'
  OBVIOUS
<1> USE DEF IInv, TypeOK, LockInv, AgeInv, DoomedInv, Owed, Procs, Inv, MaxAge, Absent,
            Becomes, MayEnter, Readers, Unlock
<1>1. ASSUME NEW p \in Procs, Acquire(p) PROVE AgeInv' /\ DoomedInv'
  BY <1>1 DEF Acquire
<1>2. ASSUME NEW p \in Clients, Call(p) PROVE AgeInv' /\ DoomedInv'
  BY <1>2 DEF Call, GetCall, SetCall
<1>3. ASSUME NEW p \in Clients, Continue(p) PROVE AgeInv' /\ DoomedInv'
  BY <1>3 DEF Continue, GetReturn, SetEnter, SetReturn
<1>4. CASE TakeTick \/ Stop
  BY <1>4 DEF TakeTick, Stop
<1>5. CASE Sweep
  BY <1>5 DEF Sweep, BeginSweep, Delete, EndSweep
<1>6. CASE Tick
  <2>1. DoomedInv'
    BY <1>6 DEF Tick
  <2>2. ASSUME NEW k \in Keys, age'[k] # Absent, ~Owed(k)' PROVE age'[k] + countdown' <= Expiration + Period
    <3>1. ~Owed(k) /\ countdown # 1
      BY <1>6, <2>2 DEF Tick
    <3>2. age[k] # Absent /\ age'[k] <= age[k] + 1 /\ countdown' = countdown - 1
      BY <1>6, <2>2, <3>1 DEF Tick
    <3>3. age[k] + countdown <= Expiration + Period
      BY <3>1, <3>2
    <3>4. age[k] \in Nat /\ age'[k] \in Nat /\ countdown \in Nat /\ countdown' \in Nat
      BY TypeStep
    <3>5. QED
      BY <3>2, <3>3, <3>4
  <2>3. QED
    BY <2>1, <2>2
<1>7. CASE Cancel \/ UNCHANGED vars
  BY <1>7 DEF Cancel, vars
<1>8. QED
  BY <1>1, <1>2, <1>3, <1>4, <1>5, <1>6, <1>7 DEF Next

(* The inductive invariant holds in every reachable state.                 *)
THEOREM Invariance == Spec => []IInv
<1>1. IInv /\ [Next]_vars => IInv'
  BY TypeStep, LockStep, AgeStep DEF IInv
<1>2. QED
  BY InvInit, <1>1, PTL DEF Spec

-----------------------------------------------------------------------------
(* Its consequences *)

(* The variables keep to their domains.                                    *)
THEOREM TypeCorrect == Spec => []TypeOK
<1>1. IInv => TypeOK
  BY DEF IInv
<1>2. QED
  BY <1>1, Invariance, PTL

(* Get, Set and the sweep never touch the map at the same time when one of *)
(* them writes.                                                            *)
THEOREM MapIsSafe == Spec => []NoMapRace
<1>1. IInv => NoMapRace
  BY DEF IInv, LockInv, NoMapRace
<1>2. QED
  BY <1>1, Invariance, PTL

(* No entry is older than Expiration + Period unless the sweep that takes  *)
(* it is about to run or running, or the invalidator is gone.              *)
THEOREM EntriesAreBounded == Spec => []StalenessBound
<1>1. IInv => StalenessBound
  BY TimeAssumption DEF IInv, TypeOK, AgeInv, Owed, StalenessBound, MaxAge, Absent, Inv, Procs
<1>2. QED
  BY <1>1, Invariance, PTL

(* Only an entry that has expired disappears.                              *)
THEOREM SweepKeepsFresh == Spec => FreshKept
<1>1. IInv /\ [Next]_vars =>
        [\A k \in Keys : age[k] # Absent /\ age'[k] = Absent => age[k] > Expiration]_vars
  <2> SUFFICES ASSUME IInv, Next, NEW k \in Keys, age[k] # Absent, age'[k] = Absent
               PROVE  age[k] > Expiration
    OBVIOUS
  <2> USE DEF IInv, TypeOK
  <2>1. ASSUME NEW p \in Procs, Acquire(p) PROVE FALSE
    BY <2>1 DEF Acquire
  <2>2. ASSUME NEW p \in Clients, Call(p) PROVE FALSE
    BY <2>2 DEF Call, GetCall, SetCall
  <2>3. ASSUME NEW p \in Clients, Continue(p) PROVE FALSE
    BY <2>3, TimeAssumption DEF Continue, GetReturn, SetEnter, SetReturn, Absent, MaxAge
  <2>4. ASSUME Tick PROVE FALSE
    BY <2>4, TimeAssumption DEF Tick, Absent, MaxAge
  <2>5. CASE Sweep
    BY <2>5 DEF Sweep, BeginSweep, Delete, EndSweep, DoomedInv
  <2>6. ASSUME TakeTick \/ Stop \/ Cancel PROVE FALSE
    BY <2>6 DEF TakeTick, Stop, Cancel
  <2>7. QED
    BY <2>1, <2>2, <2>3, <2>4, <2>5, <2>6 DEF Next
<1>2. QED
  BY <1>1, Invariance, PTL DEF Spec, FreshKept

-----------------------------------------------------------------------------
(* Why a Get or a Set returns. That it does is a matter of fairness and left *)
(* to the model checker; what it rests on is proved for any goroutines.     *)

(* A goroutine whose next step waits for no other.                         *)
Moves(q) ==
  \/ state[q] \in {"reading", "writing"}
  \/ MayEnter(q)
  \/ state[q] = "queued" /\ writer = "nobody"

(* Nobody waits for the lock while everybody does: the one who keeps the    *)
(* others out is never one of them (cacher.go 47-55, 63-65, 76-83).         *)
THEOREM NoDeadlock ==
  Spec => [](\A p \in Procs : state[p] \in {"rwait", "queued", "announced"} =>
               \E q \in Procs : Moves(q))
<1>1. IInv => \A p \in Procs : state[p] \in {"rwait", "queued", "announced"} =>
                \E q \in Procs : Moves(q)
  <2> SUFFICES ASSUME IInv, NEW p \in Procs, state[p] \in {"rwait", "queued", "announced"}
               PROVE  \E q \in Procs : Moves(q)
    OBVIOUS
  <2>1. CASE writer = "nobody"
    <3>1. state[p] = "queued"
      BY <2>1, ClientsAssumption DEF IInv, LockInv, Procs, Inv
    <3>2. QED
      BY <2>1, <3>1 DEF Moves
  <2>2. CASE writer # "nobody"
    <3>1. writer \in Procs /\ state[writer] \in {"announced", "writing"}
      BY <2>2 DEF IInv, TypeOK, LockInv
    <3>2. CASE Readers = {}
      BY <3>1, <3>2 DEF Moves, MayEnter
    <3>3. CASE Readers # {}
      BY <3>3 DEF Readers, Moves
    <3>4. QED
      BY <3>2, <3>3
  <2>3. QED
    BY <2>1, <2>2
<1>2. QED
  BY <1>1, Invariance, PTL

(* A Get is kept out by one writer at most: the Unlock of the one it waits  *)
(* for lets it in, however many others queue, the sweep among them.         *)
THEOREM ReadersWaitOnce ==
  Spec => [][\A p \in Procs : state[p] = "rwait" => writer' = writer \/ state'[p] = "reading"]_vars
<1>1. IInv /\ [Next]_vars =>
        [\A p \in Procs : state[p] = "rwait" => writer' = writer \/ state'[p] = "reading"]_vars
  <2> SUFFICES ASSUME IInv, Next, NEW p \in Procs, state[p] = "rwait", writer' # writer
               PROVE  state'[p] = "reading"
    OBVIOUS
  <2>1. writer # "nobody"
    BY DEF IInv, LockInv
  <2>2. ASSUME NEW q \in Procs, state[q] = "writing", Unlock(q) PROVE state'[p] = "reading"
    BY <2>2 DEF Unlock
  <2>3. ASSUME NEW q \in Clients, Call(q) PROVE FALSE
    BY <2>3 DEF Call, GetCall, SetCall
  <2>4. ASSUME NEW q \in Clients, Continue(q) PROVE SetReturn(q)
    BY <2>4 DEF Continue, GetReturn, SetEnter
  <2>5. CASE Sweep
    BY <2>2, <2>5 DEF Sweep, BeginSweep, Delete, EndSweep, Procs
  <2>6. ~(TakeTick \/ Stop \/ Tick \/ Cancel)
    BY DEF TakeTick, Stop, Tick, Cancel
  <2>7. QED
    BY <2>1, <2>2, <2>3, <2>4, <2>5, <2>6 DEF Next, Acquire, SetReturn, Procs
<1>2. QED
  BY <1>1, Invariance, PTL DEF Spec
=============================================================================
