----------------------------- MODULE InstancePool -----------------------------
(***************************************************************************)
(* The pool of WASM instance slots of one module                           *)
(* (slicer-wasm-host/src/pool.rs): how it is built from the manifest and   *)
(* the artifact, and how the workers that dispatch guest calls lease and   *)
(* return slots through one mutex and one condition variable.              *)
(*                                                                         *)
(* Each critical section of the mutex is one action.  A lock that another  *)
(* panicking worker poisoned is taken all the same, so poisoning is not    *)
(* told apart; a lease is dropped on return, on a trap and on unwinding.   *)
(***************************************************************************)
EXTENDS Naturals, FiniteSets

CONSTANTS
  Clients,          \* workers that dispatch calls of this module
  MaxParallelism,   \* bound on host_parallelism
  MaxCalls          \* guest calls each worker dispatches

ASSUME PoolAssumption ==
  /\ IsFiniteSet(Clients)
  /\ MaxParallelism \in Nat
  /\ MaxCalls \in Nat

VARIABLES
  pool,     \* the result of build_wasm_instance_pool and its inputs
  in_use,   \* SlotAvailabilityState
  pc,       \* where each worker is in acquire/release
  slot,     \* slot_index of the lease the worker holds
  left      \* calls the worker has still to dispatch

poolVars == <<pool, in_use, pc, slot, left>>

NoPool == [mode |-> "none", safe |-> FALSE, finalization |-> FALSE, size |-> 0]

Modes == {"none", "rejected", "Parallel", "Serialized"}

Slots == 0 .. pool.size - 1

Free == {s \in Slots : ~in_use[s]}

At(where) == {c \in Clients : pc[c] = where}

PoolInit ==
  /\ pool = NoPool
  /\ in_use = [s \in {} |-> FALSE]
  /\ pc = [c \in Clients |-> "idle"]
  /\ slot = [c \in Clients |-> 0]
  /\ left = [c \in Clients |-> MaxCalls]

\* Mutant: a finalization module gets a parallel pool.
PlannedBySafety(safe, finalization, parallelism) ==
  [mode |-> IF safe THEN "Parallel" ELSE "Serialized",
   safe |-> safe, finalization |-> finalization,
   size |-> IF safe /\ parallelism > 1 THEN parallelism ELSE 1]

\* (mode, size) of a pool that is not rejected.
PlannedPool(safe, finalization, parallelism) ==
  LET parallel == safe /\ ~finalization IN
  [mode |-> IF parallel THEN "Parallel" ELSE "Serialized",
   safe |-> safe, finalization |-> finalization,
   size |-> IF parallel /\ parallelism > 1 THEN parallelism ELSE 1]

build_wasm_instance_pool(safe, finalization, parallelism, shared) ==
  /\ pool = NoPool
  /\ IF safe /\ shared
       THEN pool' = [NoPool EXCEPT !.mode = "rejected", !.safe = TRUE,
                                   !.finalization = finalization]
       ELSE pool' = PlannedPool(safe, finalization, parallelism)
  /\ in_use' = [s \in 0 .. pool'.size - 1 |-> FALSE]
  /\ UNCHANGED <<pc, slot, left>>

\* A dispatch reaches instance_pool.acquire().
StartCall(c) ==
  /\ pool.size > 0
  /\ pc[c] = "idle" /\ left[c] > 0
  /\ pc' = [pc EXCEPT ![c] = "locking"]
  /\ left' = [left EXCEPT ![c] = @ - 1]
  /\ UNCHANGED <<pool, in_use, slot>>

\* position(|in_use| !in_use): the lowest free index.
FirstAvailable == CHOOSE s \in Free : \A r \in Free : s <= r

\* Mutant: the slot is not marked.
TakeUnmarked(c) ==
  /\ pc[c] = "locking" /\ Free # {}
  /\ slot' = [slot EXCEPT ![c] = FirstAvailable]
  /\ pc' = [pc EXCEPT ![c] = "leased"]
  /\ UNCHANGED <<pool, in_use, left>>

\* take_first_available marks the slot and leases it, under the mutex.
take_first_available(c) ==
  /\ pc[c] = "locking"
  /\ Free # {}
  /\ in_use' = [in_use EXCEPT ![FirstAvailable] = TRUE]
  /\ slot' = [slot EXCEPT ![c] = FirstAvailable]
  /\ pc' = [pc EXCEPT ![c] = "leased"]
  /\ UNCHANGED <<pool, left>>

\* available.wait releases the mutex and sleeps in one step.
Wait(c) ==
  /\ pc[c] = "locking"
  /\ Free = {}
  /\ pc' = [pc EXCEPT ![c] = "waiting"]
  /\ UNCHANGED <<pool, in_use, slot, left>>

SpuriousWakeup(c) ==
  /\ pc[c] = "waiting"
  /\ pc' = [pc EXCEPT ![c] = "locking"]
  /\ UNCHANGED <<pool, in_use, slot, left>>

\* Mutant: the condition variable is never signalled.
NotifyNone(c) == pc' = [pc EXCEPT ![c] = "idle"]

\* notify_one: some waiter, if there is one, has to lock again.
NotifyOne(c) ==
  \/ /\ At("waiting") = {}
     /\ pc' = [pc EXCEPT ![c] = "idle"]
  \/ \E w \in At("waiting") :
       pc' = [pc EXCEPT ![c] = "idle", ![w] = "locking"]

\* Mutant: a dropped lease wakes a waiter but keeps its slot.
ReleaseLeaks(c) ==
  /\ pc[c] = "leased"
  /\ NotifyOne(c)
  /\ UNCHANGED <<pool, in_use, slot, left>>

\* Drop for WasmInstanceLease.
release(c) ==
  /\ pc[c] = "leased"
  /\ in_use' = [in_use EXCEPT ![slot[c]] = FALSE]
  /\ NotifyOne(c)
  /\ UNCHANGED <<pool, slot, left>>

Served == \A c \in Clients : pc[c] = "idle" /\ left[c] = 0

\* The tier is over, or the module was never loaded.
Finished ==
  /\ pool.mode = "rejected" \/ Served
  /\ UNCHANGED poolVars

Client(c) == StartCall(c) \/ take_first_available(c) \/ Wait(c) \/ release(c)

PoolNext ==
  \/ \E safe, finalization, shared \in BOOLEAN, n \in 0 .. MaxParallelism :
       build_wasm_instance_pool(safe, finalization, n, shared)
  \/ \E c \in Clients : Client(c) \/ SpuriousWakeup(c)
  \/ Finished

PoolSpec == PoolInit /\ [][PoolNext]_poolVars

\* A worker inside a guest call returns and a runnable thread runs; nothing
\* forces a spurious wakeup.
FairPoolSpec == PoolSpec /\ \A c \in Clients : WF_poolVars(Client(c))

-----------------------------------------------------------------------------
(* Properties *)

\* The type of the pool's state and of its workers.
PoolTypeOK ==
  /\ pool \in [mode : Modes, safe : BOOLEAN, finalization : BOOLEAN, size : Nat]
  /\ in_use \in [Slots -> BOOLEAN]
  /\ pc \in [Clients -> {"idle", "locking", "waiting", "leased"}]
  /\ slot \in [Clients -> Nat]
  /\ left \in [Clients -> Nat]
  /\ \A c \in At("leased") : slot[c] \in Slots

\* No slot is leased to two workers, and a slot is marked in use exactly
\* while some worker leases it: none leaks, none is handed out twice.
LeaseExclusive ==
  /\ \A c, d \in At("leased") : slot[c] = slot[d] => c = d
  /\ \A s \in Slots : in_use[s] <=> \E c \in At("leased") : slot[c] = s

\* A module that is not layer-parallel-safe, or runs at finalization, is
\* never inside two guest calls at once.
SerializedAlone ==
  ~pool.safe \/ pool.finalization =>
    \A c, d \in At("leased") : c = d

\* notify_one is enough: while a worker sleeps, every free slot is already
\* promised to a worker that is on its way to the mutex.
NoLostWakeup ==
  At("waiting") # {} => Cardinality(Free) <= Cardinality(At("locking"))

\* Every worker that asks for a slot gets one, as calls are finitely many.
AcquireTerminates ==
  \A c \in Clients : pc[c] \in {"locking", "waiting"} ~> pc[c] = "leased"
=============================================================================
