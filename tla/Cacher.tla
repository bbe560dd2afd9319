------------------------------- MODULE Cacher -------------------------------
(***************************************************************************)
(* internal/cacher: a map under a sync.RWMutex, goroutines that Get and    *)
(* Set, and one invalidator that is woken by a ticker and sweeps the       *)
(* entries older than the expiration until its context is done.            *)
(*                                                                         *)
(* Time is discrete: a step of Tick ages every entry and the ticker. The   *)
(* RWMutex is modelled with the property the code relies on: a writer that *)
(* waits for readers keeps new readers out, and its Unlock admits them.    *)
(* Values, logging and metrics are left out; an entry is its age.          *)
(***************************************************************************)
EXTENDS Naturals

CONSTANTS
  Clients,     \* goroutines that call Get and Set
  Keys,
  Expiration,  \* Cache.expiration, in units of time
  Period       \* of the ticker: one minute, in the same unit

ASSUME ClientsAssumption == "invalidator" \notin Clients /\ "nobody" \notin Clients
ASSUME TimeAssumption == Expiration \in Nat /\ Period \in Nat \ {0}

Inv == "invalidator"
Procs == Clients \cup {Inv}

(* Ages are counted up to this bound and stay there.                       *)
MaxAge == Expiration + Period + 1
Absent == MaxAge + 1

VARIABLES
  state,      \* of a goroutine: "idle", "rwait" and "reading" (in RLock, holding
              \* the read lock), "queued", "announced" and "writing" (in Lock,
              \* first in Lock, holding the lock); "stopped" (the invalidator)
  key,        \* the key a client is busy with
  writer,     \* the writer that keeps readers out, or "nobody"
  age,        \* time since an entry was stamped, or Absent
  doomed,     \* entries the sweep under way has found expired
  countdown,  \* time until the ticker fires
  pending,    \* the ticker's channel (capacity 1) holds a tick
  ctxDone

vars == <<state, key, writer, age, doomed, countdown, pending, ctxDone>>

-----------------------------------------------------------------------------
(* The lock *)

Readers == {p \in Procs : state[p] = "reading"}

Becomes(p, s) == state' = [state EXCEPT ![p] = s]

(* sync.Mutex inside: one writer at a time announces itself.               *)
Acquire(p) ==
  /\ state[p] = "queued" /\ writer = "nobody"
  /\ writer' = p /\ Becomes(p, "announced")
  /\ UNCHANGED <<key, age, doomed, countdown, pending, ctxDone>>

MayEnter(p) == state[p] = "announced" /\ Readers = {}

(* Unlock: every reader that waits gets in before another writer may.      *)
Unlock(p) ==
  /\ writer' = "nobody"
  /\ state' = [q \in Procs |-> IF q = p THEN "idle"
                               ELSE IF state[q] = "rwait" THEN "reading" ELSE state[q]]

-----------------------------------------------------------------------------
(* Get and Set *)

(* Seeded faults (not part of Next). The map is read without RLock. *)
GetCall_NoLock(p, k) ==
  /\ state[p] = "idle"
  /\ Becomes(p, "reading")
  /\ key' = [key EXCEPT ![p] = k]
  /\ UNCHANGED <<writer, age, doomed, countdown, pending, ctxDone>>

(* The map is written without Lock. *)
SetCall_NoLock(p, k) ==
  /\ state[p] = "idle"
  /\ age' = [age EXCEPT ![k] = 0]
  /\ UNCHANGED <<state, key, writer, doomed, countdown, pending, ctxDone>>

GetCall(p, k) ==
  /\ state[p] = "idle"
  /\ Becomes(p, IF writer = "nobody" THEN "reading" ELSE "rwait")
  /\ key' = [key EXCEPT ![p] = k]
  /\ UNCHANGED <<writer, age, doomed, countdown, pending, ctxDone>>

(* The deferred RUnlock. Get returns whatever entry it finds: it does not  *)
(* look at the timestamp.                                                  *)
GetReturn(p) ==
  /\ state[p] = "reading" /\ Becomes(p, "idle")
  /\ UNCHANGED <<key, writer, age, doomed, countdown, pending, ctxDone>>

SetCall(p, k) ==
  /\ state[p] = "idle" /\ Becomes(p, "queued")
  /\ key' = [key EXCEPT ![p] = k]
  /\ UNCHANGED <<writer, age, doomed, countdown, pending, ctxDone>>

(* The timestamp is taken under the lock; nobody sees the map before the   *)
(* lock is released, so the entry counts as written from here on.          *)
SetEnter(p) ==
  /\ MayEnter(p) /\ Becomes(p, "writing")
  /\ age' = [age EXCEPT ![key[p]] = 0]
  /\ UNCHANGED <<key, writer, doomed, countdown, pending, ctxDone>>

SetReturn(p) ==
  /\ state[p] = "writing" /\ Unlock(p)
  /\ UNCHANGED <<key, age, doomed, countdown, pending, ctxDone>>

-----------------------------------------------------------------------------
(* The invalidator *)

(* Seeded faults (not part of Next). A tick that finds the cache in use is *)
(* skipped.                                                                *)
TakeTick_TryLock ==
  /\ state[Inv] = "idle" /\ pending
  /\ pending' = FALSE
  /\ Becomes(Inv, IF writer = "nobody" /\ Readers = {} THEN "queued" ELSE "idle")
  /\ UNCHANGED <<key, writer, age, doomed, countdown, ctxDone>>

(* The context is looked at only when no tick is waiting. *)
Stop_NoTick ==
  /\ state[Inv] = "idle" /\ ctxDone /\ ~pending
  /\ Becomes(Inv, "stopped")
  /\ UNCHANGED <<key, writer, age, doomed, countdown, pending, ctxDone>>

(* "return" out of the loop without Unlock. *)
EndSweep_NoUnlock ==
  /\ state[Inv] = "writing" /\ doomed = {}
  /\ Becomes(Inv, "idle")
  /\ UNCHANGED <<key, writer, age, doomed, countdown, pending, ctxDone>>

(* The operands of Before are swapped. *)
BeginSweep_After ==
  /\ MayEnter(Inv) /\ Becomes(Inv, "writing")
  /\ doomed' = {k \in Keys : age[k] < Expiration}
  /\ UNCHANGED <<key, writer, age, countdown, pending, ctxDone>>

(* case <-ticker.C                                                         *)
TakeTick ==
  /\ state[Inv] = "idle" /\ pending
  /\ pending' = FALSE /\ Becomes(Inv, "queued")
  /\ UNCHANGED <<key, writer, age, doomed, countdown, ctxDone>>

(* The cut-off is computed once, under the lock, so what the loop will     *)
(* delete is settled; the deletions follow in any order.                   *)
BeginSweep ==
  /\ MayEnter(Inv) /\ Becomes(Inv, "writing")
  /\ doomed' = {k \in Keys : age[k] # Absent /\ age[k] > Expiration}
  /\ UNCHANGED <<key, writer, age, countdown, pending, ctxDone>>

Delete(k) ==
  /\ state[Inv] = "writing" /\ k \in doomed
  /\ age' = [age EXCEPT ![k] = Absent]
  /\ doomed' = doomed \ {k}
  /\ UNCHANGED <<state, key, writer, countdown, pending, ctxDone>>

EndSweep ==
  /\ state[Inv] = "writing" /\ doomed = {}
  /\ Unlock(Inv)
  /\ UNCHANGED <<key, age, doomed, countdown, pending, ctxDone>>

(* case <-ctx.Done(); if a tick waits too, select may take either.         *)
Stop ==
  /\ state[Inv] = "idle" /\ ctxDone
  /\ Becomes(Inv, "stopped")
  /\ UNCHANGED <<key, writer, age, doomed, countdown, pending, ctxDone>>

-----------------------------------------------------------------------------
(* Time and the context *)

(* A tick that finds the channel full is dropped.                          *)
Tick ==
  /\ age' = [k \in Keys |-> IF age[k] < MaxAge THEN age[k] + 1 ELSE age[k]]
  /\ countdown' = IF countdown = 1 THEN Period ELSE countdown - 1
  /\ pending' = (pending \/ (countdown = 1 /\ state[Inv] # "stopped"))
  /\ UNCHANGED <<state, key, writer, doomed, ctxDone>>

Cancel ==
  /\ ~ctxDone /\ ctxDone' = TRUE
  /\ UNCHANGED <<state, key, writer, age, doomed, countdown, pending>>

-----------------------------------------------------------------------------

(* New: an empty map, the invalidator in its select.                       *)
Init ==
  /\ state = [p \in Procs |-> "idle"]
  /\ key \in [Clients -> Keys]
  /\ writer = "nobody"
  /\ age = [k \in Keys |-> Absent]
  /\ doomed = {} /\ countdown = Period
  /\ pending = FALSE /\ ctxDone = FALSE

Call(p)     == \E k \in Keys : GetCall(p, k) \/ SetCall(p, k)
Continue(p) == GetReturn(p) \/ SetEnter(p) \/ SetReturn(p)
Sweep       == BeginSweep \/ (\E k \in Keys : Delete(k)) \/ EndSweep

Next ==
  \/ \E p \in Procs : Acquire(p)
  \/ \E p \in Clients : Call(p) \/ Continue(p)
  \/ TakeTick \/ Sweep \/ Stop
  \/ Tick \/ Cancel

(* Goroutines run and time passes. sync.Mutex hands over to the longest    *)
(* waiter once one has waited for 1ms, and select chooses at random, so    *)
(* neither passes over the same candidate for ever. No client has to call. *)
Fairness ==
  /\ \A p \in Procs : SF_vars(Acquire(p))
  /\ \A p \in Clients : WF_vars(Continue(p))
  /\ WF_vars(TakeTick) /\ WF_vars(Sweep)
  /\ SF_vars(Stop) /\ WF_vars(Tick)

Spec == Init /\ [][Next]_vars /\ Fairness

-----------------------------------------------------------------------------
(* Properties *)

(* The variables keep to their domains.                                    *)
TypeOK ==
  /\ state \in [Procs -> {"idle", "rwait", "reading", "queued", "announced",
                          "writing", "stopped"}]
  /\ key \in [Clients -> Keys]
  /\ writer \in Procs \cup {"nobody"}
  /\ age \in [Keys -> 0..Absent]
  /\ doomed \subseteq Keys
  /\ countdown \in 1..Period
  /\ pending \in BOOLEAN /\ ctxDone \in BOOLEAN

(* The runtime aborts the process on a map access concurrent with a write:  *)
(* Get, Set and the sweep (cacher.go 47-55, 63-65, 76-83) exclude each other. *)
NoMapRace ==
  \A p, q \in Procs : state[p] = "writing" /\ q # p => state[q] \notin {"reading", "writing"}

(* What the invalidator (41-60) promises although Get never looks at the    *)
(* timestamp: an entry older than Expiration + Period is about to be swept, *)
(* unless the context is done and the invalidator gone. Slow readers may    *)
(* delay a sweep, and ticks may be dropped meanwhile; none is missed.       *)
StalenessBound ==
  \A k \in Keys : age[k] = MaxAge =>
    pending \/ state[Inv] \in {"queued", "announced", "writing", "stopped"}

(* A sweep that lasts takes nothing that was set while it waited for the    *)
(* lock or went through the map: only expired entries disappear (50-52).    *)
FreshKept ==
  [][\A k \in Keys : age[k] # Absent /\ age'[k] = Absent => age[k] > Expiration]_vars

(* Every Get and Set returns, whatever mixture of readers, writers and       *)
(* sweeps competes for the lock, and also after the context is done.         *)
CallsReturn == \A p \in Clients : state[p] # "idle" ~> state[p] = "idle"

(* While the context is live, no entry outlives its expiration for ever.    *)
ExpiredGo == \A k \in Keys : age[k] = MaxAge ~> age[k] # MaxAge \/ ctxDone

(* The invalidator ends with its context (56-57), even if ticks keep coming *)
(* because its sweeps are slow.                                             *)
InvalidatorStops == ctxDone ~> state[Inv] = "stopped"
=============================================================================
