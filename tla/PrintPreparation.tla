--------------------------- MODULE PrintPreparation ---------------------------
(***************************************************************************)
(* One print from PrePass to disposal: the pipeline thread (pipeline.rs,   *)
(* run.rs), the print's preparation scope (preparation_lifecycle.rs), the  *)
(* layers that consume prepared plans concurrently (layer_executor.rs),    *)
(* a canceller, and a host application that kept the scope through the     *)
(* scope outlet and may dispose it at any time.                            *)
(*                                                                         *)
(* The store is the abstract PreparationAuthority, which                   *)
(* PreparedOwnerStore is shown to implement.  An owner is the position of  *)
(* its frozen binding in the identity-sorted selection.  Module results,   *)
(* IR and reports are abstracted to success or failure.                    *)
(***************************************************************************)
EXTENDS PreparationAuthority, FiniteSets, Sequences

CONSTANTS
  Declares,    \* positions whose binding declares preparation
  Eligible,    \* declared positions some layer selects
  Layers,      \* global layer indices (of the request, for visual taps)
  Invoked,     \* <<layer, position>> pairs whose selection says invoke
  NoGeometry,  \* invoked pairs whose views hold no actual geometry
  Completions, \* kinds of run: SliceCompletion
  MaxDisposals \* dispose calls of the application; 0: it keeps no scope

ASSUME PrintAssumption ==
  /\ IsFiniteSet(Owners) /\ Owners = 0 .. Cardinality(Owners) - 1
  /\ Layers \subseteq Nat /\ IsFiniteSet(Layers)
  /\ Eligible \subseteq Declares /\ Declares \subseteq Owners
  /\ Invoked \subseteq Layers \X Owners /\ NoGeometry \subseteq Invoked
  /\ Completions \subseteq
       {"FullSlice", "PreparationOnly", "PreparationVisual"}
  /\ MaxDisposals \in Nat

VARIABLES
  completion,     \* what the caller asked of this run
  pc, pos,        \* the pipeline thread and its position in the owner loop
  result,         \* how the pipeline body, then the run, ended
  owners,         \* scope.owners: positions with a live token
  committed,      \* scope.committed is Some
  locked,         \* prepare_committed holds the committed mutex
  required,       \* eligible positions when prepare_committed began
  cancel,         \* the shared cancel flag
  records,        \* lifecycle records of each position
  layer,          \* progress of each layer
  ran,            \* how each layer ran each module
  disposing,      \* progress of dispose in the run and in the application
  attempts        \* dispose calls the application may still make

scopeVars == <<owners, committed, locked, required, records>>
layerVars == <<layer, ran>>
printVars == <<authorityVars, completion, pc, pos, result, scopeVars, cancel,
               layerVars, disposing, attempts>>

NPositions == Cardinality(Owners)

NotStarted == [at |-> "todo", k |-> 0]
Ended == {"done", "error", "cancelled", "dropped"}
Active(l) == layer[l].at \notin Ended \cup {"todo"}

PrintInit ==
  /\ AInit
  /\ completion \in Completions
  /\ pc = "prepass" /\ pos = 0 /\ result = "none"
  /\ owners = {} /\ committed = FALSE /\ locked = FALSE /\ required = {}
  /\ cancel = FALSE
  /\ records = [p \in Owners |-> <<>>]
  /\ layer = [l \in Layers |-> NotStarted]
  /\ ran = [l \in Layers |-> [p \in Owners |-> "no"]]
  /\ disposing = [run |-> "idle",
                  app |-> IF MaxDisposals = 0 THEN "gone" ELSE "idle"]
  /\ attempts = MaxDisposals

\* The store's mutex: only an application's dispose is seen holding it, as
\* every other critical section is one step.
StoreFree == disposing.app # "holding"

Observe(p, s) == records' = [records EXCEPT ![p] = Append(@, s)]

\* The pipeline body returns r; run_slice_shared goes on with its cleanup.
Return(r) == pc' = "returned" /\ result' = r

-----------------------------------------------------------------------------
(* The pipeline thread up to the end of preparation *)

\* Mutant: the committed selection is never captured.
PrepassUncaptured ==
  /\ pc = "prepass"
  /\ \/ cancel /\ Return("cancelled")
     \/ ~cancel /\ Return("error")
     \/ ~cancel /\ pc' = "prepare" /\ UNCHANGED result
  /\ UNCHANGED <<authorityVars, completion, pos, scopeVars, cancel, layerVars,
                 disposing, attempts>>

\* Cancel checkpoint, PrePass, promotion, selection index and
\* capture_committed_selection; each of them may fail.  A visual request may
\* still be rejected when the selection is already captured.
Prepass ==
  /\ pc = "prepass"
  /\ \/ cancel /\ Return("cancelled") /\ UNCHANGED committed
     \/ ~cancel /\ Return("error") /\ UNCHANGED committed
     \/ /\ ~cancel
        /\ committed' = (committed \/ Eligible # {})
        /\ \/ pc' = "prepare" /\ UNCHANGED result
           \/ completion = "PreparationVisual" /\ Return("error")
  /\ UNCHANGED <<authorityVars, completion, pos, owners, locked, required,
                 records, cancel, layerVars, disposing, attempts>>

\* Mutant: the lock is dropped before the owner loop.
BeginUnlocked ==
  /\ pc = "prepare"
  /\ required' = IF committed THEN Eligible ELSE {}
  /\ pos' = 0 /\ pc' = "owner"
  /\ UNCHANGED <<authorityVars, completion, result, owners, committed, locked,
                 records, cancel, layerVars, disposing, attempts>>

\* prepare_committed takes the committed lock for the whole owner loop.
BeginLoop ==
  /\ pc = "prepare"
  /\ locked' = TRUE
  /\ required' = IF committed THEN Eligible ELSE {}
  /\ pos' = 0 /\ pc' = "owner"
  /\ UNCHANGED <<authorityVars, completion, result, owners, committed, records,
                 cancel, layerVars, disposing, attempts>>

\* prepare_committed returns early and drops the lock.
Fail(r) == Return(r) /\ locked' = FALSE

LoopCancelled ==
  /\ pc = "owner" /\ pos < NPositions
  /\ cancel
  /\ Observe(pos, "Cancelled")
  /\ Fail("cancelled")
  /\ UNCHANGED <<authorityVars, completion, pos, owners, committed, required,
                 cancel, layerVars, disposing, attempts>>

\* A plain module, or a declared one without selected work.
SkipOwner ==
  /\ pc = "owner" /\ pos < NPositions
  /\ ~cancel
  /\ pos \notin Declares \cap required
  /\ IF pos \in Declares THEN Observe(pos, "NoWork") ELSE UNCHANGED records
  /\ pos' = pos + 1
  /\ UNCHANGED <<authorityVars, completion, pc, result, owners, committed,
                 locked, required, cancel, layerVars, disposing, attempts>>

CreateOwner ==
  /\ pc = "owner" /\ pos < NPositions /\ StoreFree
  /\ ~cancel
  /\ pos \in Declares \cap required
  /\ \/ ACreate(pos) /\ pc' = "created" /\ UNCHANGED <<result, locked>>
     \/ closed /\ Fail("error") /\ UNCHANGED authorityVars
  /\ UNCHANGED <<completion, pos, owners, committed, required, records, cancel,
                 layerVars, disposing, attempts>>

\* owners.push and the Start record.
PushOwner ==
  /\ pc = "created"
  /\ owners' = owners \cup {pos}
  /\ Observe(pos, "Start")
  /\ pc' = "enter"
  /\ UNCHANGED <<authorityVars, completion, pos, result, committed, locked,
                 required, cancel, layerVars, disposing, attempts>>

\* from_committed, which may fail, and the adapter's whole-call guard.
EnterPrepare ==
  /\ pc = "enter" /\ StoreFree
  /\ \/ AEnter(pos) /\ pc' = "begin"
     \/ pc' = "failed" /\ UNCHANGED authorityVars
  /\ UNCHANGED <<completion, pos, result, scopeVars, cancel, layerVars,
                 disposing, attempts>>

BeginPrepare ==
  /\ pc = "begin" /\ StoreFree
  /\ ABegin(pos)
  /\ pc' = "module"
  /\ UNCHANGED <<completion, pos, result, scopeVars, cancel, layerVars,
                 disposing, attempts>>

\* The module fails, or the transaction is poisoned or rejected.
AbortPrepare ==
  /\ pc = "module" /\ StoreFree
  /\ AAbort(pos)
  /\ pc' = "leave_failed"
  /\ UNCHANGED <<completion, pos, result, scopeVars, cancel, layerVars,
                 disposing, attempts>>

\* The publication closure sees the cancel flag and rejects the publication.
CancelAtPublication ==
  /\ pc = "module" /\ StoreFree
  /\ cancel
  /\ AAbort(pos)
  /\ pc' = "leave_cancelled"
  /\ UNCHANGED <<completion, pos, result, scopeVars, cancel, layerVars,
                 disposing, attempts>>

PublishPlan ==
  /\ pc = "module" /\ StoreFree
  /\ ~cancel
  /\ APublish(pos)
  /\ pc' = "leave_ok"
  /\ UNCHANGED <<completion, pos, result, scopeVars, cancel, layerVars,
                 disposing, attempts>>

LeavePrepare ==
  /\ pc \in {"leave_ok", "leave_failed", "leave_cancelled"} /\ StoreFree
  /\ ALeave(pos)
  /\ pc' = CASE pc = "leave_ok" -> "current"
             [] pc = "leave_failed" -> "failed"
             [] pc = "leave_cancelled" -> "cancelled_at_publication"
  /\ UNCHANGED <<completion, pos, result, scopeVars, cancel, layerVars,
                 disposing, attempts>>

\* store.current after the call: readiness is never inferred from success.
CheckCurrent ==
  /\ pc = "current" /\ StoreFree
  /\ pc' = IF status[pos] = "ready" THEN "ready" ELSE "failed"
  /\ UNCHANGED <<authorityVars, completion, pos, result, scopeVars, cancel,
                 layerVars, disposing, attempts>>

ObserveReady ==
  /\ pc = "ready"
  /\ Observe(pos, "Ready")
  /\ pos' = pos + 1 /\ pc' = "owner"
  /\ UNCHANGED <<authorityVars, completion, result, owners, committed, locked,
                 required, cancel, layerVars, disposing, attempts>>

AfterPreparation ==
  CASE completion = "FullSlice" -> "admit"
    [] completion = "PreparationOnly" -> "capture"
    [] completion = "PreparationVisual" -> "taps"

ObserveFailure ==
  /\ pc \in {"failed", "cancelled_at_publication"}
  /\ Observe(pos, IF pc = "failed" THEN "Failure" ELSE "Cancelled")
  /\ Fail(IF pc = "failed" THEN "error" ELSE "cancelled")
  /\ UNCHANGED <<authorityVars, completion, pos, owners, committed, required,
                 cancel, layerVars, disposing, attempts>>

EndLoop ==
  /\ pc = "owner" /\ pos = NPositions
  /\ locked' = FALSE
  /\ pc' = "all_ready"
  /\ UNCHANGED <<authorityVars, completion, pos, result, owners, committed,
                 required, records, cancel, layerVars, disposing, attempts>>

EnsureAllReady(S) == \A p \in S : p \in owners /\ status[p] = "ready"

\* The end of prepare_committed: cancel checkpoint, then the all-ready guard.
AllReadyGuard ==
  /\ pc = "all_ready" /\ StoreFree
  /\ \/ cancel /\ Return("cancelled")
     \/ ~cancel /\ ~EnsureAllReady(required) /\ Return("error")
     \/ ~cancel /\ EnsureAllReady(required)
          /\ pc' = AfterPreparation /\ UNCHANGED result
  /\ UNCHANGED <<authorityVars, completion, pos, scopeVars, cancel, layerVars,
                 disposing, attempts>>

-----------------------------------------------------------------------------
(* The layers and PreparedLayerStageRunner::run_stage *)

\* Cancel checkpoint before the per-layer phase.
AdmitLayers ==
  /\ pc = "admit"
  /\ IF cancel THEN Return("cancelled") ELSE pc' = "layers" /\ UNCHANGED result
  /\ UNCHANGED <<authorityVars, completion, pos, scopeVars, cancel, layerVars,
                 disposing, attempts>>

Failed == \E l \in Layers : layer[l].at \in {"error", "cancelled"}

SetLayer(l, at) == layer' = [layer EXCEPT ![l].at = at]

\* The parallel closure checks the flag; after a failure rayon's collect
\* drops layers that have not started.
StartLayer(l) ==
  /\ pc = "layers" /\ layer[l].at = "todo"
  /\ \/ SetLayer(l, IF cancel THEN "cancelled" ELSE "select")
     \/ Failed /\ SetLayer(l, "dropped")
  /\ UNCHANGED <<authorityVars, completion, pc, pos, result, scopeVars, cancel,
                 ran, disposing, attempts>>

\* Visual taps run the requested layers one after another, without the flag.
StartTap(l) ==
  /\ pc = "taps" /\ layer[l].at = "todo"
  /\ \A m \in Layers : m < l => layer[m].at = "done"
  /\ SetLayer(l, "select")
  /\ UNCHANGED <<authorityVars, completion, pc, pos, result, scopeVars, cancel,
                 ran, disposing, attempts>>

\* Module k of layer l ran as how; go on with the next one.
Ran(l, how) ==
  /\ ran' = [ran EXCEPT ![l][layer[l].k] = how]
  /\ layer' = [layer EXCEPT ![l] = [at |-> "select", k |-> @.k + 1]]

FinishLayer(l) ==
  /\ layer[l].at = "select" /\ layer[l].k = NPositions
  /\ SetLayer(l, "done")
  /\ UNCHANGED <<authorityVars, completion, pc, pos, result, scopeVars, cancel,
                 ran, disposing, attempts>>

\* run_stage up to the owner lookup.  A plain module may fail its layer.
SelectModule(l) ==
  LET k == layer[l].k IN
  /\ layer[l].at = "select" /\ k < NPositions
  /\ \/ /\ <<l, k>> \notin Invoked
        /\ Ran(l, "unselected")
     \/ <<l, k>> \in Invoked /\ cancel /\ Ran(l, "skipped")
     \/ /\ <<l, k>> \in Invoked /\ ~cancel /\ k \notin Declares
        /\ Ran(l, "plain") \/ (SetLayer(l, "error") /\ UNCHANGED ran)
     \/ /\ <<l, k>> \in Invoked /\ ~cancel /\ k \in Declares
        /\ IF <<l, k>> \in NoGeometry THEN Ran(l, "nowork")
           ELSE SetLayer(l, "lookup") /\ UNCHANGED ran
  /\ UNCHANGED <<authorityVars, completion, pc, pos, result, scopeVars, cancel,
                 disposing, attempts>>

\* No owner: the plain export runs instead, and may fail the layer.
LookupOwner(l) ==
  /\ layer[l].at = "lookup"
  /\ IF layer[l].k \in owners THEN SetLayer(l, "guard") /\ UNCHANGED ran
     ELSE Ran(l, "plain") \/ (SetLayer(l, "error") /\ UNCHANGED ran)
  /\ UNCHANGED <<authorityVars, completion, pc, pos, result, scopeVars, cancel,
                 disposing, attempts>>

\* ensure_consumers_ready: the required set is read from committed again.
GuardConsumer(l) ==
  /\ layer[l].at = "guard" /\ ~locked /\ StoreFree
  /\ SetLayer(l, IF EnsureAllReady(IF committed THEN Eligible ELSE {})
                   THEN "probe" ELSE "error")
  /\ UNCHANGED <<authorityVars, completion, pc, pos, result, scopeVars, cancel,
                 ran, disposing, attempts>>

\* Mutant: a plan that is gone is asked for again.
ProbeRetries(l) ==
  /\ layer[l].at = "probe" /\ StoreFree
  /\ SetLayer(l, IF status[layer[l].k] = "ready" THEN "call" ELSE "guard")
  /\ UNCHANGED <<authorityVars, completion, pc, pos, result, scopeVars, cancel,
                 ran, disposing, attempts>>

\* Second cancel check, then store.current.
ProbePlan(l) ==
  /\ layer[l].at = "probe" /\ StoreFree
  /\ IF cancel THEN Ran(l, "skipped")
     ELSE /\ SetLayer(l, IF status[layer[l].k] = "ready" THEN "call"
                         ELSE "error")
          /\ UNCHANGED ran
  /\ UNCHANGED <<authorityVars, completion, pc, pos, result, scopeVars, cancel,
                 disposing, attempts>>

\* Mutant: the call trusts the probe instead of checking under its guard.
EnterUnchecked(l) ==
  /\ layer[l].at = "call" /\ StoreFree
  /\ calls' = [calls EXCEPT ![layer[l].k] = @ + 1]
  /\ SetLayer(l, "consuming")
  /\ UNCHANGED <<status, closed, completion, pc, pos, result, scopeVars,
                 cancel, ran, disposing, attempts>>

\* run_prepared_stage_with_failure enters with its own checked guard.
EnterConsumer(l) ==
  /\ layer[l].at = "call" /\ StoreFree
  /\ IF Live(layer[l].k)
       THEN AEnter(layer[l].k) /\ SetLayer(l, "consuming")
       ELSE SetLayer(l, "error") /\ UNCHANGED authorityVars
  /\ UNCHANGED <<completion, pc, pos, result, scopeVars, cancel, ran,
                 disposing, attempts>>

LeaveConsumer(l) ==
  /\ layer[l].at = "consuming" /\ StoreFree
  /\ ALeave(layer[l].k)
  /\ Ran(l, "prepared") \/ (SetLayer(l, "error") /\ UNCHANGED ran)
  /\ UNCHANGED <<completion, pc, pos, result, scopeVars, cancel, disposing,
                 attempts>>

\* collect joins every layer and keeps one of the errors; the anchored host
\* closure and row synthesis may fail afterwards.
JoinLayers ==
  /\ pc = "layers"
  /\ \A l \in Layers : layer[l].at \in Ended
  /\ \/ \E l \in Layers : layer[l].at = "error" /\ Return("error")
     \/ \E l \in Layers : layer[l].at = "cancelled" /\ Return("cancelled")
     \/ ~Failed /\ Return("error")
     \/ ~Failed /\ pc' = "postpass" /\ UNCHANGED result
  /\ UNCHANGED <<authorityVars, completion, pos, scopeVars, cancel, layerVars,
                 disposing, attempts>>

\* Classifying the requested taps may fail before the first layer and reading
\* the blackboard taps after the last one; a request without per-layer taps
\* runs no layer.
JoinTaps ==
  /\ pc = "taps"
  /\ \/ Failed /\ Return("error")
     \/ /\ \E at \in {"todo", "done"} : \A l \in Layers : layer[l].at = at
        /\ Return("error") \/ (pc' = "capture" /\ UNCHANGED result)
  /\ UNCHANGED <<authorityVars, completion, pos, scopeVars, cancel, layerVars,
                 disposing, attempts>>

\* Mutant: no checkpoint between the layers and PostPass.
PostPassUnchecked ==
  /\ pc = "postpass"
  /\ \E r \in {"gcode", "error"} : Return(r)
  /\ UNCHANGED <<authorityVars, completion, pos, scopeVars, cancel, layerVars,
                 disposing, attempts>>

\* Cancel checkpoint, then finalization and post-processing.
PostPass ==
  /\ pc = "postpass"
  /\ \/ cancel /\ Return("cancelled")
     \/ ~cancel /\ \E r \in {"gcode", "error"} : Return(r)
  /\ UNCHANGED <<authorityVars, completion, pos, scopeVars, cancel, layerVars,
                 disposing, attempts>>

\* What snapshot_and_dispose and capture_visual_and_dispose need of the scope
\* before their disposal.
CaptureReady ==
  IF completion = "PreparationVisual"
    THEN committed /\ \A p \in owners : status[p] = "ready"
    ELSE owners = {} \/ (committed /\ \A p \in owners : Live(p))

\* Paging the selected targets, the accounting and a projection may still fail.
Capture ==
  /\ pc = "capture" /\ StoreFree
  /\ Return("error") \/ (CaptureReady /\ Return("capture"))
  /\ UNCHANGED <<authorityVars, completion, pos, scopeVars, cancel, layerVars,
                 disposing, attempts>>

-----------------------------------------------------------------------------
(* PrintPreparationScope::dispose, by the run and by the application *)

\* store.dispose succeeds.
DisposeStore(a) ==
  /\ ADispose
  /\ disposing' = [disposing EXCEPT ![a] = "store"]
  /\ UNCHANGED <<completion, pc, pos, result, scopeVars, cancel, layerVars,
                 attempts>>

\* Mutant: the committed inputs outlive the disposal.
TakeNothing(a) ==
  /\ disposing[a] = "store" /\ ~locked
  /\ disposing' = [disposing EXCEPT ![a] = "committed"]
  /\ UNCHANGED <<authorityVars, completion, pc, pos, result, scopeVars, cancel,
                 layerVars, attempts>>

TakeCommitted(a) ==
  /\ disposing[a] = "store" /\ ~locked
  /\ committed' = FALSE
  /\ disposing' = [disposing EXCEPT ![a] = "committed"]
  /\ UNCHANGED <<authorityVars, completion, pc, pos, result, owners, locked,
                 required, records, cancel, layerVars, attempts>>

\* mem::take(owners) under its mutex, one Disposed record for each.
TakeOwners(a) ==
  /\ disposing[a] = "committed"
  /\ owners' = {}
  /\ records' = [p \in Owners |->
                   IF p \in owners THEN Append(records[p], "Disposed")
                   ELSE records[p]]
  /\ disposing' = [disposing EXCEPT ![a] = IF a = "run" THEN "over" ELSE "idle"]
  /\ UNCHANGED <<authorityVars, completion, pc, pos, result, committed, locked,
                 required, cancel, layerVars, attempts>>

\* The run's own disposal: dispose_after_run, the captures, or Drop of the
\* last reference, which a failed PreparationOnly run leaves to the outlet.
OwnsCleanup ==
  completion # "PreparationOnly" \/ result = "capture" \/ disposing.app = "gone"

StartCleanup ==
  /\ pc = "returned" /\ disposing.run = "idle" /\ OwnsCleanup
  /\ StoreFree
  /\ DisposeStore("run")

\* try_lock contention or an active owner: the typed Busy turns a success
\* into an error.  A visual capture tries once more with dispose_after_run.
CleanupBusy ==
  /\ pc = "returned" /\ disposing.run = "idle" /\ OwnsCleanup
  /\ ~StoreFree \/ ~\A p \in Owners : Idle(p)
  /\ result' = IF result \in {"gcode", "capture"} THEN "busy" ELSE result
  /\ disposing' = [disposing EXCEPT !.run =
                     IF completion = "PreparationVisual" /\ result = "capture"
                     THEN "idle" ELSE "over"]
  /\ UNCHANGED <<authorityVars, completion, pc, pos, scopeVars, cancel,
                 layerVars, attempts>>

\* The application's dispose holds the store's mutex while it looks.
AppLock ==
  /\ disposing.app = "idle" /\ attempts > 0
  /\ attempts' = attempts - 1
  /\ disposing' = [disposing EXCEPT !.app = "holding"]
  /\ UNCHANGED <<authorityVars, completion, pc, pos, result, scopeVars, cancel,
                 layerVars>>

AppDispose == disposing.app = "holding" /\ DisposeStore("app")

AppBusy ==
  /\ disposing.app = "holding"
  /\ \E p \in Owners : ~Idle(p)
  /\ disposing' = [disposing EXCEPT !.app = "idle"]
  /\ UNCHANGED <<authorityVars, completion, pc, pos, result, scopeVars, cancel,
                 layerVars, attempts>>

DropOutlet ==
  /\ disposing.app = "idle" /\ pc = "returned"
  /\ disposing' = [disposing EXCEPT !.app = "gone"]
  /\ UNCHANGED <<authorityVars, completion, pc, pos, result, scopeVars, cancel,
                 layerVars, attempts>>

RequestCancel ==
  /\ ~cancel /\ pc # "returned"
  /\ cancel' = TRUE
  /\ UNCHANGED <<authorityVars, completion, pc, pos, result, scopeVars,
                 layerVars, disposing, attempts>>

Over == disposing = [run |-> "over", app |-> "gone"] /\ UNCHANGED printVars

-----------------------------------------------------------------------------

Pipeline ==
  \/ Prepass \/ BeginLoop \/ LoopCancelled \/ SkipOwner \/ CreateOwner
  \/ PushOwner \/ EnterPrepare \/ BeginPrepare \/ AbortPrepare
  \/ CancelAtPublication \/ PublishPlan \/ LeavePrepare \/ CheckCurrent
  \/ ObserveReady \/ ObserveFailure \/ EndLoop \/ AllReadyGuard
  \/ AdmitLayers \/ JoinLayers \/ JoinTaps \/ PostPass \/ Capture
  \/ StartCleanup \/ CleanupBusy \/ TakeCommitted("run") \/ TakeOwners("run")

Layer(l) ==
  \/ StartLayer(l) \/ StartTap(l) \/ SelectModule(l) \/ LookupOwner(l)
  \/ GuardConsumer(l) \/ ProbePlan(l) \/ EnterConsumer(l) \/ LeaveConsumer(l)
  \/ FinishLayer(l)

AppTail == AppDispose \/ AppBusy \/ TakeCommitted("app") \/ TakeOwners("app")

PrintNext ==
  \/ Pipeline
  \/ \E l \in Layers : Layer(l)
  \/ AppLock \/ AppTail \/ DropOutlet
  \/ RequestCancel
  \/ Over

PrintSpec == PrintInit /\ [][PrintNext]_printVars

\* The pipeline thread and the rayon workers run until they block; a dispose
\* call that has begun goes on and the application drops the scope in the end.
\* Nobody has to cancel and the application never has to call dispose.
FairPrintSpec ==
  /\ PrintSpec
  /\ WF_printVars(Pipeline)
  /\ \A l \in Layers : WF_printVars(Layer(l))
  /\ WF_printVars(AppTail)
  /\ WF_printVars(DropOutlet)

-----------------------------------------------------------------------------
(* Properties *)

\* A module call that consumes a plan always runs on a ready owner, whoever
\* disposes what in between: the probe may be stale, the guard is not.
ConsumesReady ==
  \A l \in Layers : layer[l].at = "consuming" => status[layer[l].k] = "ready"

\* G-code is only returned when no layer skipped a module because of a
\* cancellation that arrived after the layer's own checkpoint.
NoPartialGcode ==
  result = "gcode" =>
    \A l \in Layers, p \in Owners :
      ran[l][p] \in (IF <<l, p>> \in Invoked
                     THEN {"plain", "prepared", "nowork"} ELSE {"unselected"})

\* The lifecycle records of an owner are a prefix of Start, verdict, Disposed
\* (or the single record of an owner that was never created): Disposed comes
\* once and never before the verdict, although dispose runs on other threads.
LifecycleRecords ==
  \A p \in Owners :
    records[p] \in {<<>>, <<"NoWork">>, <<"Cancelled">>, <<"Start">>}
      \cup {<<"Start", v>> : v \in {"Ready", "Failure", "Cancelled"}}
      \cup {<<"Start", v, "Disposed">> : v \in {"Ready", "Failure", "Cancelled"}}

\* After the run's disposal nothing is retained: no live owner, no token and
\* no committed inputs, even while an application still holds the scope and
\* even if the run lost the race with that application's own dispose.
NothingRetained ==
  disposing.run = "over" /\ disposing.app \in {"idle", "gone"} =>
    /\ owners = {} /\ ~committed
    /\ \A p \in Owners : ~Live(p)

\* A module with an eligible owner is consumed through its prepared plan, the
\* plain export being for modules that have none, as long as no application
\* disposes the scope under the print (after that the plain export is run).
EligibleRunsPrepared ==
  attempts = MaxDisposals =>
    \A l \in Layers, p \in Eligible : ran[l][p] # "plain"

\* The print ends and its scope is disposed, whatever fails or is cancelled
\* and whenever the application disposes.
PrintEnds == <>(disposing = [run |-> "over", app |-> "gone"])
=============================================================================
