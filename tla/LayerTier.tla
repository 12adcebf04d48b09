------------------------------- MODULE LayerTier -------------------------------
(***************************************************************************)
(* The per-layer tier: rayon workers run the layers of the print           *)
(* (layer_executor.rs), every module call leases a slot of that module's   *)
(* instance pool for the whole guest call (dispatch.rs, pool.rs), and a    *)
(* guest call may fan a batched host service out over the same workers     *)
(* (batch.rs).  The layer stage runner (preparation_lifecycle.rs) stands   *)
(* between the layer and the dispatcher and may answer without a call.     *)
(*                                                                         *)
(* rayon is modelled from how the code uses it: a join pushes its right    *)
(* half on the worker's own deque and runs the left half; the owner pops   *)
(* the youngest job, thieves take the oldest; a worker whose right half    *)
(* was stolen looks for other work until that half is done, and runs what  *)
(* it finds on top of its own stack.                                       *)
(***************************************************************************)
EXTENDS Naturals, Sequences, FiniteSets, SequencesExt

CONSTANTS
  Workers,    \* threads of the global rayon pool
  NLayers,    \* global layers of the plan
  NModules,   \* modules of the per-layer stages, in execution order
  Selected,   \* <<layer, module>> pairs whose selection says invoke
  PoolSize,   \* slots of each module's instance pool
  Batching,   \* modules whose guest call issues a parallel batch
  Prepared,   \* modules that consume a prepared owner
  NoWork,     \* selected pairs for which the runner finds no geometry
  Empty       \* selected pairs whose guest call returns no output

ASSUME TierAssumption ==
  /\ IsFiniteSet(Workers)
  /\ NLayers \in Nat \ {0} /\ NModules \in Nat
  /\ Selected \subseteq (1 .. NLayers) \X (1 .. NModules)
  /\ PoolSize \in [1 .. NModules -> Nat \ {0}]
  /\ Batching \subseteq 1 .. NModules /\ Prepared \subseteq 1 .. NModules
  /\ NoWork \subseteq Selected /\ Empty \subseteq Selected

Layers == 1 .. NLayers
Modules == 1 .. NModules

VARIABLES
  injector,   \* the tier's root job waits to be taken
  deque,      \* jobs each worker has pushed, oldest first
  stack,      \* call stack of each worker, innermost frame last
  finished,   \* stolen jobs whose latch is set
  leased,     \* in_use slots of each module's pool
  applied,    \* modules whose commit was applied to each layer's arena
  ended,      \* how each layer ended
  full,       \* the parallel collect has met an Err
  cancel      \* the cancel flag

tierVars == <<injector, deque, stack, finished, leased, applied, ended, full,
              cancel>>

LayersJob(lo, hi) == [kind |-> "layers", from |-> lo, to |-> hi]
BatchJob(l, k) == [kind |-> "batch", from |-> l, to |-> k]

RangeFrame(lo, hi) == [f |-> "range", lo |-> lo, hi |-> hi]
JoinFrame(job) == [f |-> "join", job |-> job]
StolenFrame(job) == [f |-> "stolen", job |-> job]
LayerFrame(l, k, at) == [f |-> "layer", l |-> l, k |-> k, at |-> at]

Busy(w) == stack[w] # <<>>
Top(w) == Last(stack[w])
TopIs(w, f) == Busy(w) /\ Top(w).f = f
InLayer(w, at) == TopIs(w, "layer") /\ Top(w).at = at

Replace(w, frames) == stack' = [stack EXCEPT ![w] = Front(@) \o frames]

TierInit ==
  /\ injector = TRUE
  /\ deque = [w \in Workers |-> <<>>]
  /\ stack = [w \in Workers |-> <<>>]
  /\ finished = {}
  /\ leased = [k \in Modules |-> 0]
  /\ applied = [l \in Layers |-> <<>>]
  /\ ended = [l \in Layers |-> "no"]
  /\ full = FALSE
  /\ cancel = FALSE

-----------------------------------------------------------------------------
(* Jobs: par_iter over the layers, map over the requests of a batch *)

TakeRoot(w) ==
  /\ injector /\ ~Busy(w)
  /\ injector' = FALSE
  /\ stack' = [stack EXCEPT ![w] = <<RangeFrame(1, NLayers)>>]
  /\ UNCHANGED <<deque, finished, leased, applied, ended, full, cancel>>

\* bridge: split in two and join.
SplitRange(w) ==
  LET r == Top(w)
      right == LayersJob(r.lo + (r.hi - r.lo + 1) \div 2, r.hi) IN
  /\ TopIs(w, "range") /\ r.lo < r.hi /\ ~full
  /\ deque' = [deque EXCEPT ![w] = Append(@, right)]
  /\ Replace(w, <<JoinFrame(right), RangeFrame(r.lo, right.from - 1)>>)
  /\ UNCHANGED <<injector, finished, leased, applied, ended, full, cancel>>

\* consumer.full(): a range that has not started is dropped after an Err.
DropRange(w) ==
  LET r == Top(w) IN
  /\ TopIs(w, "range") /\ full
  /\ ended' = [l \in Layers |-> IF l \in r.lo .. r.hi THEN "dropped" ELSE ended[l]]
  /\ Replace(w, <<>>)
  /\ UNCHANGED <<injector, deque, finished, leased, applied, full, cancel>>

Content(job) ==
  IF job.kind = "layers" THEN <<RangeFrame(job.from, job.to)>> ELSE <<>>

\* The right half is still on the own deque: run it in place.
PopOwn(w) ==
  LET job == Top(w).job IN
  /\ TopIs(w, "join")
  /\ deque[w] # <<>> /\ Last(deque[w]) = job
  /\ deque' = [deque EXCEPT ![w] = Front(@)]
  /\ Replace(w, Content(job))
  /\ UNCHANGED <<injector, finished, leased, applied, ended, full, cancel>>

\* An idle worker, or one that waits for a stolen half, takes the oldest job
\* of another.  (When the own half is gone, the own deque is empty.)
Steal(w, v) ==
  /\ ~Busy(w) \/ TopIs(w, "join")
  /\ deque[w] = <<>> /\ deque[v] # <<>>
  /\ Busy(w) => Top(w).job \notin finished
  /\ deque' = [deque EXCEPT ![v] = Tail(@)]
  /\ stack' = [stack EXCEPT ![w] =
                 @ \o <<StolenFrame(Head(deque[v]))>> \o Content(Head(deque[v]))]
  /\ UNCHANGED <<injector, finished, leased, applied, ended, full, cancel>>

FinishStolen(w) ==
  /\ TopIs(w, "stolen")
  /\ finished' = finished \cup {Top(w).job}
  /\ Replace(w, <<>>)
  /\ UNCHANGED <<injector, deque, leased, applied, ended, full, cancel>>

\* The latch of the stolen half is set: the join returns.
ResumeJoin(w) ==
  /\ TopIs(w, "join") /\ Top(w).job \in finished
  /\ Replace(w, <<>>)
  /\ UNCHANGED <<injector, deque, finished, leased, applied, ended, full, cancel>>

-----------------------------------------------------------------------------
(* One layer: execute_single_layer *)

\* Mutant: an error does not stop the collect.
EndUnnoticed(w, l, how) ==
  /\ ended' = [ended EXCEPT ![l] = how]
  /\ UNCHANGED full
  /\ Replace(w, <<>>)

EndLayer(w, l, how) ==
  /\ ended' = [ended EXCEPT ![l] = how]
  /\ full' = (full \/ how # "ok")
  /\ Replace(w, <<>>)

\* The parallel closure checks the cancel flag before the layer.
StartLayer(w) ==
  LET l == Top(w).lo IN
  /\ TopIs(w, "range") /\ Top(w).lo = Top(w).hi /\ ~full
  /\ IF cancel THEN EndLayer(w, l, "cancelled")
     ELSE Replace(w, <<LayerFrame(l, 1, "module")>>) /\ UNCHANGED <<ended, full>>
  /\ UNCHANGED <<injector, deque, finished, leased, applied, cancel>>

\* Outside a guest call a layer fails in hydrate_slice_arena, on a missing
\* selection, in the paint annotation, or on an owner that is not ready.
LayerFails(w) ==
  /\ InLayer(w, "module") \/ InLayer(w, "probe")
  /\ EndLayer(w, Top(w).l, "error")
  /\ UNCHANGED <<injector, deque, finished, leased, applied, cancel>>

SkipModule(w) ==
  LET r == Top(w) IN
  /\ InLayer(w, "module") /\ r.k <= NModules
  /\ <<r.l, r.k>> \notin Selected
  /\ Replace(w, <<LayerFrame(r.l, r.k + 1, "module")>>)
  /\ UNCHANGED <<injector, deque, finished, leased, applied, ended, full, cancel>>

\* run_stage answers Ok(None): the print is cancelled, or there is nothing to
\* work on.  Nothing is committed and the layer goes on.
YieldsNothing(w) ==
  LET r == Top(w) IN
  /\ \/ /\ InLayer(w, "module") /\ r.k <= NModules
        /\ <<r.l, r.k>> \in Selected
        /\ cancel \/ <<r.l, r.k>> \in NoWork
     \/ InLayer(w, "probe") /\ cancel
  /\ Replace(w, <<LayerFrame(r.l, r.k + 1, "module")>>)
  /\ UNCHANGED <<injector, deque, finished, leased, applied, ended, full, cancel>>

\* Mutant: the runner checks the cancel flag only after the owner is ready.
DispatchUnchecked(w) ==
  LET r == Top(w) IN
  /\ InLayer(w, "module") /\ r.k <= NModules
  /\ <<r.l, r.k>> \in Selected \ NoWork
  /\ Replace(w, <<LayerFrame(r.l, r.k, IF r.k \in Prepared THEN "probe"
                                       ELSE "acquire")>>)
  /\ UNCHANGED <<injector, deque, finished, leased, applied, ended, full, cancel>>

\* run_stage goes on: a prepared module first waits for its owner.
Dispatch(w) ==
  LET r == Top(w) IN
  /\ InLayer(w, "module") /\ r.k <= NModules
  /\ <<r.l, r.k>> \in Selected \ NoWork /\ ~cancel
  /\ Replace(w, <<LayerFrame(r.l, r.k, IF r.k \in Prepared THEN "probe"
                                       ELSE "acquire")>>)
  /\ UNCHANGED <<injector, deque, finished, leased, applied, ended, full, cancel>>

\* The owner is ready and the print still wanted: to the dispatcher, whose
\* first step is the lease.
OwnerReady(w) ==
  LET r == Top(w) IN
  /\ InLayer(w, "probe") /\ ~cancel
  /\ Replace(w, <<LayerFrame(r.l, r.k, "acquire")>>)
  /\ UNCHANGED <<injector, deque, finished, leased, applied, ended, full, cancel>>

\* instance_pool.acquire(): blocks the thread, not the rayon scheduler.
Acquire(w) ==
  LET r == Top(w) IN
  /\ InLayer(w, "acquire")
  /\ leased[r.k] < PoolSize[r.k]
  /\ leased' = [leased EXCEPT ![r.k] = @ + 1]
  /\ Replace(w, <<LayerFrame(r.l, r.k, "guest")>>)
  /\ UNCHANGED <<injector, deque, finished, applied, ended, full, cancel>>

\* Mutant: the lease is given up while the guest waits for its batch.
FanOutReleases(w) ==
  LET r == Top(w) IN
  /\ InLayer(w, "guest") /\ r.k \in Batching
  /\ leased' = [leased EXCEPT ![r.k] = @ - 1]
  /\ deque' = [deque EXCEPT ![w] = Append(@, BatchJob(r.l, r.k))]
  /\ Replace(w, <<LayerFrame(r.l, r.k, "batched"), JoinFrame(BatchJob(r.l, r.k))>>)
  /\ UNCHANGED <<injector, finished, applied, ended, full, cancel>>

\* map_batch_with_mode in Parallel mode: the guest call waits in the join.
FanOut(w) ==
  LET r == Top(w) IN
  /\ InLayer(w, "guest") /\ r.k \in Batching
  /\ deque' = [deque EXCEPT ![w] = Append(@, BatchJob(r.l, r.k))]
  /\ Replace(w, <<LayerFrame(r.l, r.k, "batched"), JoinFrame(BatchJob(r.l, r.k))>>)
  /\ UNCHANGED <<injector, finished, leased, applied, ended, full, cancel>>

\* deconstruct_layer_ctx makes no commit of a call that produced nothing.
Commit(l, k) ==
  applied' = IF <<l, k>> \in Empty THEN applied
             ELSE [applied EXCEPT ![l] = Append(@, k)]

\* The export returns, the lease drops and the commit is applied.
GuestReturns(w) ==
  LET r == Top(w) IN
  /\ InLayer(w, "guest") \/ InLayer(w, "batched")
  /\ leased' = [leased EXCEPT ![r.k] = @ - 1]
  /\ Commit(r.l, r.k)
  /\ Replace(w, <<LayerFrame(r.l, r.k + 1, "module")>>)
  /\ UNCHANGED <<injector, deque, finished, ended, full, cancel>>


\* A trap, a module error or a rejected commit ends the layer.
GuestFails(w) ==
  LET r == Top(w) IN
  /\ InLayer(w, "guest") \/ InLayer(w, "batched")
  /\ leased' = [leased EXCEPT ![r.k] = @ - 1]
  /\ EndLayer(w, r.l, "error")
  /\ UNCHANGED <<injector, deque, finished, applied, cancel>>

FinishLayer(w) ==
  /\ InLayer(w, "module") /\ Top(w).k > NModules
  /\ EndLayer(w, Top(w).l, "ok")
  /\ UNCHANGED <<injector, deque, finished, leased, applied, cancel>>

RequestCancel ==
  /\ ~cancel
  /\ cancel' = TRUE
  /\ UNCHANGED <<injector, deque, stack, finished, leased, applied, ended, full>>

Joined == ~injector /\ \A w \in Workers : ~Busy(w) /\ deque[w] = <<>>

Over == Joined /\ UNCHANGED tierVars

-----------------------------------------------------------------------------

Worker(w) ==
  \/ TakeRoot(w) \/ SplitRange(w) \/ DropRange(w) \/ PopOwn(w)
  \/ \E v \in Workers : Steal(w, v)
  \/ FinishStolen(w) \/ ResumeJoin(w)
  \/ StartLayer(w) \/ LayerFails(w) \/ SkipModule(w) \/ YieldsNothing(w)
  \/ Dispatch(w) \/ OwnerReady(w) \/ Acquire(w) \/ FanOut(w)
  \/ GuestReturns(w) \/ GuestFails(w) \/ FinishLayer(w)

TierNext == (\E w \in Workers : Worker(w)) \/ RequestCancel \/ Over

TierSpec == TierInit /\ [][TierNext]_tierVars

\* Every worker thread that can take a step takes one.
FairTierSpec == TierSpec /\ \A w \in Workers : WF_tierVars(Worker(w))

-----------------------------------------------------------------------------
(* Properties *)

\* The modules the plan runs on a layer, those of them that have something to
\* commit, and those whose commit was applied.
Wanted(l) == {k \in Modules : <<l, k>> \in Selected}
Due(l) == {k \in Wanted(l) : <<l, k>> \notin NoWork \cup Empty}
Applied(l) == ToSet(applied[l])

Holding(w, k) ==
  {i \in DOMAIN stack[w] : /\ stack[w][i].f = "layer"
                           /\ stack[w][i].k = k
                           /\ stack[w][i].at \in {"guest", "batched"}}

Calls(k) == UNION {{w} \X Holding(w, k) : w \in Workers}

\* Stolen layers, nested on other calls or not, lease and return slots in
\* balance: the slots in use are the guest calls on the workers' stacks.
LeasesAreCalls == \A k \in Modules : leased[k] = Cardinality(Calls(k))

\* A layer's commits are applied in plan order and without a gap whatever is
\* stolen and whenever the print is cancelled: a module never builds on a layer
\* that lacks the work of an earlier one.  Only a cancelled print lets a layer
\* end well without all of them.
CommitsInPlanOrder ==
  \A l \in Layers :
    /\ \A i, j \in DOMAIN applied[l] : i < j => applied[l][i] < applied[l][j]
    /\ Applied(l) \subseteq Due(l)
    /\ \A k \in Applied(l), j \in Due(l) : j < k => j \in Applied(l)
    /\ ended[l] = "ok" => Applied(l) = Due(l) \/ cancel

\* The tier reports success only when every layer of the plan succeeded, and
\* a failure only when some layer failed or was cancelled.
NoLayerLost ==
  Joined =>
    IF full THEN \E l \in Layers : ended[l] \in {"error", "cancelled"}
    ELSE \A l \in Layers : ended[l] = "ok"

\* w waits for a slot on top of a guest call of its own that keeps one: while
\* it waited for that call's batch it took another layer.
HoldsAndWaits(w) ==
  InLayer(w, "acquire") /\ \E k \in Modules : Holding(w, k) # {}


\* The tier ends: no worker waits for a slot that is never returned.
TierEnds == <>Joined
=============================================================================
