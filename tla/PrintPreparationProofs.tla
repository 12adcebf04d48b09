------------------------ MODULE PrintPreparationProofs ------------------------
(***************************************************************************)
(* Proofs about one print from PrePass to disposal, for any selection of   *)
(* prepared modules, any layers and any number of disposals by the         *)
(* application.                                                            *)
(*                                                                         *)
(* The invariant is a chain: Cursor is inductive by itself, Flow uses      *)
(* Cursor, Authority uses both, and what the properties say of G-code,     *)
(* records, retention and eligible owners follows on top of them.          *)
(***************************************************************************)
EXTENDS PrintPreparation, FiniteSetTheorems, SequenceTheorems, TLAPS

\* prepare_committed is inside the guard of an owner's prepare call, has an
\* owner in hand, or is in its owner loop.
Guarded == {"begin", "module", "leave_ok", "leave_failed", "leave_cancelled"}
InHand == Guarded \cup {"created", "enter", "current", "ready", "failed",
                        "cancelled_at_publication"}
Loop == InHand \cup {"owner"}

\* Where no layer has started yet, and where layers run.
Early == Loop \cup {"prepass", "prepare", "all_ready", "admit"}
Running == {"layers", "taps"}
Late == {"postpass", "capture", "returned"}

\* The pipeline thread: the loop holds the lock, and the run disposes nothing
\* before its body has returned.
Cursor ==
  /\ completion \in Completions /\ cancel \in BOOLEAN
  /\ pc \in Early \cup Running \cup Late
  /\ pos \in 0 .. NPositions /\ (pc \in InHand => pos < NPositions)
  /\ locked <=> pc \in Loop
  /\ pc # "returned" => result = "none"

\* The two disposals; the run's begins after its body has returned.
Disposal ==
  /\ disposing \in [run : {"idle", "store", "committed", "over"},
                    app : {"idle", "holding", "store", "committed", "gone"}]
  /\ pc # "returned" => disposing.run = "idle"
  /\ attempts \in 0 .. MaxDisposals
  /\ attempts = MaxDisposals => disposing.app \in {"idle", "gone"}

Busy == {"lookup", "guard", "probe", "call", "consuming"}

\* The layers: none is active before the layers start or after they were
\* joined, taps run one after another, and only a failure drops a layer.
Flow ==
  /\ layer \in [Layers -> [at : Busy \cup Ended \cup {"todo", "select"},
                           k : 0 .. NPositions]]
  /\ \A l \in Layers :
       /\ layer[l].at \in Busy =>
            /\ layer[l].k < NPositions
            /\ <<l, layer[l].k>> \in Invoked /\ layer[l].k \in Declares
       /\ layer[l].at = "todo" => layer[l].k = 0
       /\ layer[l].at = "done" => layer[l].k = NPositions
       /\ layer[l].at = "dropped" => Failed
       /\ Active(l) => pc \in Running
       /\ pc \in Early => layer[l] = NotStarted
       /\ pc = "postpass" => layer[l].at = "done"
       /\ pc = "taps" /\ layer[l].at # "todo" =>
            \A m \in Layers : m < l => layer[m].at = "done"

\* The calls an owner is under: consuming layers and the prepare call.
Consumers(p) == {l \in Layers : layer[l].at = "consuming" /\ layer[l].k = p}
Authority ==
  /\ status \in [Owners -> Statuses] /\ calls \in [Owners -> Nat]
  /\ closed \in BOOLEAN
  /\ \A p \in Owners :
       /\ closed => ~Live(p)
       /\ status[p] = "staging" => pc = "module" /\ pos = p
       /\ calls[p] = Cardinality(Consumers(p))
                       + (IF pc \in Guarded /\ pos = p THEN 1 ELSE 0)
  /\ \A l \in Layers :
       /\ layer[l].at = "call" => status[layer[l].k] \in {"ready", "disposed"}
       /\ layer[l].at = "consuming" => status[layer[l].k] = "ready"

\* What a layer has run so far.
Allowed(l, p) ==
  IF <<l, p>> \in Invoked THEN {"plain", "prepared", "nowork"}
                          ELSE {"unselected"}
Output ==
  /\ ran \in [Layers -> [Owners -> {"no", "unselected", "skipped", "plain",
                                    "nowork", "prepared"}]]
  /\ \A l \in Layers, p \in Owners :
       p < layer[l].k =>
         ran[l][p] \in Allowed(l, p) \cup (IF cancel THEN {"skipped"} ELSE {})
  /\ result = "gcode" =>
       \A l \in Layers, p \in Owners : ran[l][p] \in Allowed(l, p)

Verdicts == {"Ready", "Failure", "Cancelled"}
Started == <<"Start">>
Open == {<<"Start", v>> : v \in Verdicts}
Shut == {<<>>, <<"NoWork">>, <<"Cancelled">>}
          \cup {<<"Start", v, "Disposed">> : v \in Verdicts}

\* Positions the owner loop has not reached.
Unreached(p) ==
  \/ pc \in {"prepass", "prepare"}
  \/ pc \in Loop /\ (p > pos \/ (p = pos /\ pc \in {"owner", "created"}))

\* The records of an owner in hand, of the other tokens, and of the rest.
Records ==
  /\ owners \subseteq Owners
  /\ DOMAIN records = Owners
  /\ pc \in InHand \ {"created"} => pos \in owners
  /\ \A p \in Owners :
       /\ Unreached(p) => records[p] = <<>> /\ p \notin owners
       /\ p \in owners =>
            IF pc \in InHand /\ p = pos THEN records[p] = Started
            ELSE records[p] \in Open
       /\ p \notin owners => records[p] \in Shut

\* A disposal that has taken the committed inputs meets the owner loop only
\* when the store was closed before the loop could create an owner.
Closing ==
  /\ disposing.app \in {"store", "committed"} => closed
  /\ disposing.run \in {"store", "committed"} => closed
  /\ disposing.app = "committed" /\ pc \in Loop => pc = "owner" /\ owners = {}

Retention ==
  /\ disposing.run = "committed" => ~committed
  /\ disposing.run = "over" =>
       \/ disposing.app = "holding"
       \/ closed /\ disposing.app = "store"
       \/ closed /\ ~committed /\ (disposing.app = "committed" \/ owners = {})

\* While the application has not disposed anything, every eligible owner is
\* required and, once the all-ready guard has passed, has its token.
Prepared ==
  /\ attempts = MaxDisposals =>
       /\ pc \in Loop \cup {"prepare"} => committed \/ Eligible = {}
       /\ pc \in Loop \cup {"all_ready"} => Eligible \subseteq required
       /\ pc \in {"admit", "layers", "taps"} => Eligible \subseteq owners
       /\ \A l \in Layers, p \in Eligible : ran[l][p] # "plain"

PrintInv ==
  /\ Cursor /\ Disposal /\ Flow /\ Authority /\ Output /\ Records /\ Closing
  /\ Retention /\ Prepared

-----------------------------------------------------------------------------
(* The pipeline thread and the two disposals *)

LEMMA Positions ==
  NPositions \in Nat /\ Owners = 0 .. NPositions - 1
BY FS_CardinalityType, PrintAssumption DEF NPositions

LEMMA NextPhase ==
  ASSUME Cursor  PROVE AfterPreparation \in {"admit", "capture", "taps"}
BY PrintAssumption DEF AfterPreparation, Cursor

\* The steps of the pipeline thread that are not its disposal, and the
\* disposals.
Body ==
  \/ Prepass \/ BeginLoop \/ LoopCancelled \/ SkipOwner \/ CreateOwner
  \/ PushOwner \/ EnterPrepare \/ BeginPrepare \/ AbortPrepare
  \/ CancelAtPublication \/ PublishPlan \/ LeavePrepare \/ CheckCurrent
  \/ ObserveReady \/ ObserveFailure \/ EndLoop \/ AllReadyGuard
  \/ AdmitLayers \/ JoinLayers \/ JoinTaps \/ PostPass \/ Capture
Disposes ==
  \/ StartCleanup \/ CleanupBusy \/ TakeCommitted("run") \/ TakeOwners("run")
  \/ AppLock \/ AppTail \/ DropOutlet

LEMMA Steps ==
  ASSUME [PrintNext]_printVars
  PROVE  \/ Body \/ Disposes \/ RequestCancel \/ UNCHANGED printVars
         \/ \E l \in Layers : Layer(l)
BY Zenon DEF PrintNext, Pipeline, Body, Disposes, Over

\* What each kind of step leaves alone.
LEMMA BodyFrame ==
  Body => UNCHANGED <<completion, cancel, layerVars, disposing, attempts>>
BY DEF Body, Prepass, BeginLoop, LoopCancelled, SkipOwner, CreateOwner,
       PushOwner, EnterPrepare, BeginPrepare, AbortPrepare,
       CancelAtPublication, PublishPlan, LeavePrepare, CheckCurrent,
       ObserveReady, ObserveFailure, EndLoop, AllReadyGuard, AdmitLayers,
       JoinLayers, JoinTaps, PostPass, Capture

LEMMA LayerFrame ==
  ASSUME NEW l \in Layers, Layer(l)
  PROVE  UNCHANGED <<status, closed, completion, pc, pos, result, scopeVars,
                     cancel, disposing, attempts>>
BY DEF Layer, StartLayer, StartTap, SelectModule, LookupOwner, GuardConsumer,
       ProbePlan, EnterConsumer, LeaveConsumer, FinishLayer, AEnter, ALeave,
       authorityVars

LEMMA DisposalFrame ==
  Disposes => UNCHANGED <<calls, completion, pc, pos, locked, required, cancel,
                          layerVars>>
BY DEF Disposes, StartCleanup, CleanupBusy, TakeCommitted, TakeOwners, AppLock,
       AppTail, AppDispose, AppBusy, DropOutlet, DisposeStore, ADispose,
       authorityVars, scopeVars

LEMMA CancelFrame ==
  RequestCancel =>
    /\ UNCHANGED <<authorityVars, completion, pc, pos, result, scopeVars,
                   layerVars, disposing, attempts>>
    /\ cancel' = TRUE /\ pc # "returned"
BY DEF RequestCancel

LEMMA InitCursor == PrintInit => Cursor /\ Disposal
<1> SUFFICES ASSUME PrintInit  PROVE Cursor /\ Disposal
  OBVIOUS
<1>1. Cursor
  <2>1. pos \in 0 .. NPositions
    BY Positions DEF PrintInit
  <2>2. pc = "prepass" /\ pc \notin Loop /\ pc \in Early
    BY DEF PrintInit, Early, Loop, InHand, Guarded
  <2>3. cancel \in BOOLEAN /\ ~locked /\ completion \in Completions
    BY Zenon DEF PrintInit
  <2> QED
    BY <2>1, <2>2, <2>3 DEF PrintInit, Cursor, Loop
<1>2. disposing \in [run : {"idle"}, app : {"idle", "gone"}]
  BY DEF PrintInit
<1>3. attempts = MaxDisposals /\ MaxDisposals \in Nat
  BY PrintAssumption DEF PrintInit
<1> QED
  BY <1>1, <1>2, <1>3 DEF Disposal

\* Every step of the thread keeps its cursor.
LEMMA BodyCursor ==
  ASSUME Cursor, Body
  PROVE  Cursor'
<1>0. NPositions \in Nat
  BY Positions
<1> USE <1>0 DEF Cursor, Early, Late, Running, Loop, InHand, Guarded
<1>1. CASE Prepass
  BY <1>1 DEF Prepass, Return
<1>2. CASE BeginLoop
  BY <1>2 DEF BeginLoop
<1>3. CASE LoopCancelled
  BY <1>3 DEF LoopCancelled, Fail, Return
<1>4. CASE SkipOwner
  BY <1>4 DEF SkipOwner
<1>5. CASE CreateOwner
  <2>1. /\ UNCHANGED <<completion, pos, cancel>> /\ pos < NPositions
        /\ pc = "owner"
        /\ \/ pc' = "created" /\ UNCHANGED <<result, locked>>
           \/ pc' = "returned" /\ locked' = FALSE
    BY <1>5 DEF CreateOwner, Fail, Return
  <2>2. CASE pc' = "created" /\ UNCHANGED <<result, locked>>
    BY <2>1, <2>2
  <2>3. CASE pc' = "returned" /\ locked' = FALSE
    BY <2>1, <2>3
  <2> QED
    BY <2>1, <2>2, <2>3
<1>6. CASE PushOwner
  BY <1>6 DEF PushOwner
<1>7. CASE EnterPrepare
  BY <1>7 DEF EnterPrepare, scopeVars
<1>8. CASE BeginPrepare
  BY <1>8 DEF BeginPrepare, scopeVars
<1>9. CASE AbortPrepare
  BY <1>9 DEF AbortPrepare, scopeVars
<1>10. CASE CancelAtPublication
  BY <1>10 DEF CancelAtPublication, scopeVars
<1>11. CASE PublishPlan
  BY <1>11 DEF PublishPlan, scopeVars
<1>12. CASE LeavePrepare
  BY <1>12 DEF LeavePrepare, scopeVars
<1>13. CASE CheckCurrent
  BY <1>13 DEF CheckCurrent, scopeVars
<1>14. CASE ObserveReady
  BY <1>14 DEF ObserveReady
<1>15. CASE ObserveFailure
  BY <1>15 DEF ObserveFailure, Fail, Return
<1>16. CASE EndLoop
  BY <1>16 DEF EndLoop
<1>17. CASE AllReadyGuard
  BY <1>17, PrintAssumption DEF AllReadyGuard, Return, AfterPreparation, scopeVars
<1>18. CASE AdmitLayers
  BY <1>18 DEF AdmitLayers, Return, scopeVars
<1>19. CASE JoinLayers
  BY <1>19 DEF JoinLayers, Return, scopeVars
<1>20. CASE JoinTaps
  BY <1>20 DEF JoinTaps, Return, scopeVars
<1>21. CASE PostPass
  BY <1>21 DEF PostPass, Return, scopeVars
<1>22. CASE Capture
  BY <1>22 DEF Capture, Return, scopeVars
<1> QED
  BY <1>1, <1>2, <1>3, <1>4, <1>5, <1>6, <1>7, <1>8, <1>9, <1>10, <1>11, <1>12,
     <1>13, <1>14, <1>15, <1>16, <1>17, <1>18, <1>19, <1>20, <1>21, <1>22 DEF Body

LEMMA CursorStep ==
  ASSUME Cursor, [PrintNext]_printVars
  PROVE  Cursor'
<1>1. CASE Body
  BY <1>1, BodyCursor
<1>2. CASE Disposes
  <2>1. pc # "returned" => UNCHANGED result
    BY <1>2 DEF Disposes, StartCleanup, CleanupBusy, TakeCommitted, TakeOwners,
                AppLock, AppTail, AppDispose, AppBusy, DropOutlet, DisposeStore
  <2> QED
    BY <1>2, <2>1, DisposalFrame DEF Cursor
<1>3. CASE RequestCancel
  BY <1>3, CancelFrame DEF Cursor, scopeVars
<1>4. CASE UNCHANGED printVars
  BY <1>4 DEF Cursor, printVars, scopeVars
<1>5. CASE \E l \in Layers : Layer(l)
  BY <1>5, LayerFrame DEF Cursor, scopeVars
<1> QED
  BY <1>1, <1>2, <1>3, <1>4, <1>5, Steps

\* The run's disposal starts after its body has returned, and a body that has
\* returned takes no further step.
LEMMA BodyNotReturned == Body => pc # "returned"
BY DEF Body, Prepass, BeginLoop, LoopCancelled, SkipOwner, CreateOwner,
       PushOwner, EnterPrepare, BeginPrepare, AbortPrepare,
       CancelAtPublication, PublishPlan, LeavePrepare, CheckCurrent,
       ObserveReady, ObserveFailure, EndLoop, AllReadyGuard, AdmitLayers,
       JoinLayers, JoinTaps, PostPass, Capture

LEMMA DisposalStep ==
  ASSUME Disposal, [PrintNext]_printVars
  PROVE  Disposal'
<1>1. CASE Body
  BY <1>1, BodyFrame, BodyNotReturned DEF Disposal
<1>2. CASE Disposes
  <2>0. pc' = pc
    BY <1>2, DisposalFrame
  <2>1. CASE StartCleanup
    BY <2>0, <2>1 DEF StartCleanup, DisposeStore, Disposal
  <2>2. CASE CleanupBusy
    BY <2>0, <2>2 DEF CleanupBusy, Disposal
  <2>3. CASE TakeCommitted("run") \/ TakeOwners("run")
    BY <2>0, <2>3 DEF TakeCommitted, TakeOwners, Disposal
  <2>4. CASE AppLock
    BY <2>0, <2>4, PrintAssumption DEF AppLock, Disposal
  <2>5. CASE AppTail
    BY <2>0, <2>5 DEF AppTail, AppDispose, AppBusy, DisposeStore, TakeCommitted,
                      TakeOwners, Disposal
  <2>6. CASE DropOutlet
    BY <2>0, <2>6 DEF DropOutlet, Disposal
  <2> QED
    BY <1>2, <2>1, <2>2, <2>3, <2>4, <2>5, <2>6 DEF Disposes
<1>3. CASE RequestCancel \/ UNCHANGED printVars \/ \E l \in Layers : Layer(l)
  <2>1. UNCHANGED <<pc, disposing, attempts>>
    BY <1>3, CancelFrame, LayerFrame DEF printVars
  <2> QED
    BY <2>1 DEF Disposal
<1> QED
  BY <1>1, <1>2, <1>3, Steps

-----------------------------------------------------------------------------
(* The layers *)

Points == [at : Busy \cup Ended \cup {"todo", "select"}, k : 0 .. NPositions]

LEMMA InitFlow == PrintInit => Flow
<1> SUFFICES ASSUME PrintInit  PROVE Flow
  OBVIOUS
<1>1. NotStarted \in Points
  BY Positions DEF NotStarted, Points
<1>2. /\ layer \in [Layers -> Points]
      /\ \A l \in Layers : layer[l] = NotStarted /\ ~Active(l)
  BY <1>1 DEF PrintInit, Active, NotStarted
<1>3. pc = "prepass"
  BY DEF PrintInit
<1> QED
  BY <1>2, <1>3 DEF Flow, Points, NotStarted, Busy

\* A layer that is looking for its plan or consuming it names an owner.
LEMMA BusyOwner ==
  ASSUME Flow, NEW l \in Layers, layer[l].at \in Busy
  PROVE  layer[l].k \in Owners
<1>1. layer[l].k \in 0 .. NPositions /\ layer[l].k < NPositions
  BY DEF Flow
<1> QED
  BY <1>1, Positions

\* Layers are joined by JoinLayers and JoinTaps only.
LEMMA BodyPhase ==
  ASSUME Cursor, Body, ~JoinLayers, ~JoinTaps
  PROVE  /\ pc \notin Running /\ pc' # "postpass"
         /\ pc' \in Early \cup Running => pc \in Early
<1> USE DEF Early, Running, Loop, InHand, Guarded
<1>1. CASE Prepass \/ BeginLoop \/ LoopCancelled \/ SkipOwner
  BY <1>1 DEF Prepass, BeginLoop, LoopCancelled, SkipOwner, Fail, Return
<1>2. CASE CreateOwner \/ PushOwner \/ EnterPrepare \/ BeginPrepare
  BY <1>2 DEF CreateOwner, PushOwner, EnterPrepare, BeginPrepare, Fail, Return
<1>3. CASE AbortPrepare \/ CancelAtPublication \/ PublishPlan
  BY <1>3 DEF AbortPrepare, CancelAtPublication, PublishPlan
<1>4. CASE LeavePrepare \/ CheckCurrent \/ ObserveReady \/ ObserveFailure
  BY <1>4 DEF LeavePrepare, CheckCurrent, ObserveReady, ObserveFailure, Fail,
              Return
<1>5. CASE EndLoop \/ AllReadyGuard
  <2>2. pc' # "postpass"
    BY <1>5, NextPhase
    DEF EndLoop, AllReadyGuard, Return
  <2> QED
    BY <1>5, <2>2 DEF EndLoop, AllReadyGuard, Return
<1>6. CASE AdmitLayers \/ PostPass \/ Capture
  BY <1>6 DEF AdmitLayers, PostPass, Capture, Return
<1> QED
  BY <1>1, <1>2, <1>3, <1>4, <1>5, <1>6 DEF Body

LEMMA BodyFlow ==
  ASSUME Cursor, Flow, Body
  PROVE  Flow'
<1>0. layer' = layer
  BY BodyFrame DEF layerVars
<1>1. Failed' <=> Failed
  BY <1>0 DEF Failed
<1>2. \A l \in Layers : Active(l)' <=> Active(l)
  BY <1>0 DEF Active
<1>3. CASE ~JoinLayers /\ ~JoinTaps
  BY <1>0, <1>1, <1>2, <1>3, BodyPhase
  DEF Flow, Running, Early, Loop, InHand, Guarded, NotStarted
<1>4. CASE JoinLayers
  <2>1. pc' \in {"returned", "postpass"}
    BY <1>4 DEF JoinLayers, Return
  <2>2. \A l \in Layers : ~Active(l)
    BY <1>4 DEF JoinLayers, Active
  <2>3. pc' = "postpass" => \A l \in Layers : layer[l].at = "done"
    BY <1>4 DEF JoinLayers, Return, Failed, Ended, Flow
  <2> QED
    BY <1>0, <1>1, <1>2, <2>1, <2>2, <2>3
    DEF Flow, Running, Early, Loop, InHand, Guarded
<1>5. CASE JoinTaps
  <2>1. pc = "taps" /\ pc' \in {"returned", "capture"}
    BY <1>5 DEF JoinTaps, Return
  <2>2. \A l \in Layers : ~Active(l)
    <3>1. CASE Failed
      <4>1. PICK m \in Layers : layer[m].at \in {"error", "cancelled"}
        BY <3>1 DEF Failed
      <4>2. ASSUME NEW l \in Layers, l # m  PROVE layer[l].at \in {"done", "todo"}
        <5>1. l < m \/ m < l
          BY <4>2, PrintAssumption
        <5> QED
          BY <4>1, <5>1, <2>1 DEF Flow
      <4> QED
        BY <4>1, <4>2 DEF Active, Ended
    <3>2. CASE ~Failed
      BY <3>2, <1>5 DEF JoinTaps, Active, Ended
    <3> QED
      BY <3>1, <3>2
  <2> QED
    BY <1>0, <1>1, <1>2, <2>1, <2>2
    DEF Flow, Running, Early, Loop, InHand, Guarded
<1> QED
  BY <1>3, <1>4, <1>5

\* A layer that has not ended moves on to the point r.
LEMMA MoveFlow ==
  ASSUME Flow, NEW l \in Layers, NEW r \in Points, r.at # "todo",
         layer' = [layer EXCEPT ![l] = r], UNCHANGED pc, pc \in Running,
         layer[l].at \notin Ended,
         r.at \in Busy => r.k < NPositions /\ <<l, r.k>> \in Invoked
                            /\ r.k \in Declares,
         r.at = "done" => r.k = NPositions,
         r.at = "dropped" => Failed,
         pc = "taps" => \A m \in Layers : m < l => layer[m].at = "done"
  PROVE  Flow'
<1>1. layer' \in [Layers -> Points]
  BY DEF Flow, Points
<1>2. Failed => Failed'
  BY DEF Failed, Flow, Ended
<1>3. \A m \in Layers : layer'[m] = IF m = l THEN r ELSE layer[m]
  BY DEF Flow
<1>4. \A m \in Layers : layer[m].at = "done" => layer'[m].at = "done"
  BY <1>3 DEF Ended
<1>5. \A m \in Layers :
        pc = "taps" /\ layer'[m].at # "todo" =>
          \A j \in Layers : j < m => layer'[j].at = "done"
  <2> SUFFICES ASSUME pc = "taps", NEW m \in Layers, layer'[m].at # "todo",
                      NEW j \in Layers, j < m
               PROVE  layer[j].at = "done"
    BY <1>4
  <2>1. CASE m = l
    BY <2>1
  <2>2. CASE m # l
    BY <2>2, <1>3 DEF Flow
  <2> QED
    BY <2>1, <2>2
<1>6. pc \notin Early /\ pc # "postpass"
  BY DEF Running, Early, Loop, InHand, Guarded
<1>7. ASSUME NEW m \in Layers
      PROVE  /\ layer'[m].at \in Busy =>
                  /\ layer'[m].k < NPositions
                  /\ <<m, layer'[m].k>> \in Invoked /\ layer'[m].k \in Declares
             /\ layer'[m].at = "todo" => layer'[m].k = 0
             /\ layer'[m].at = "done" => layer'[m].k = NPositions
             /\ layer'[m].at = "dropped" => Failed'
  BY <1>2, <1>3 DEF Flow
<1> QED
  BY <1>1, <1>5, <1>6, <1>7 DEF Flow, Points

\* Where one step of a layer takes it.
LEMMA LayerMove ==
  ASSUME Cursor, Flow, NEW l \in Layers, Layer(l)
  PROVE  /\ pc \in Running /\ layer[l].at \notin Ended
         /\ pc = "taps" => \A m \in Layers : m < l => layer[m].at = "done"
         /\ \E r \in Points :
              /\ layer' = [layer EXCEPT ![l] = r] /\ r.at # "todo"
              /\ r.at \in Busy => r.k < NPositions /\ <<l, r.k>> \in Invoked
                                    /\ r.k \in Declares
              /\ r.at = "done" => r.k = NPositions
              /\ r.at = "dropped" => Failed
<1>0. NPositions \in Nat /\ layer[l] \in Points /\ layer[l].k \in 0 .. NPositions
  BY Positions DEF Flow, Points
<1> DEFINE k == layer[l].k
           r(at) == [at |-> at, k |-> k]
           Goes(p) == layer' = [layer EXCEPT ![l] = p]
<1>1. \A at : SetLayer(l, at) => Goes(r(at))
  BY <1>0 DEF SetLayer, Flow, Points
<1>2. \A how : Ran(l, how) => Goes([at |-> "select", k |-> k + 1])
  BY <1>0 DEF Ran, Flow
<1>3. layer[l].at \in Busy \cup {"select"} =>
        /\ pc \in Running /\ layer[l].at \notin Ended
        /\ pc = "taps" => \A m \in Layers : m < l => layer[m].at = "done"
  BY DEF Flow, Busy, Ended, Active
<1>4. \A at \in Busy \cup Ended \cup {"select"} : r(at) \in Points
  BY <1>0 DEF Points
<1>5. k < NPositions => [at |-> "select", k |-> k + 1] \in Points
  BY <1>0 DEF Points
<1> DEFINE Good(p) ==
      /\ Goes(p) /\ p.at # "todo"
      /\ p.at \in Busy => p.k < NPositions /\ <<l, p.k>> \in Invoked
                            /\ p.k \in Declares
      /\ p.at = "done" => p.k = NPositions
      /\ p.at = "dropped" => Failed
<1>6. \A how : Ran(l, how) /\ k < NPositions =>
        Good([at |-> "select", k |-> k + 1])
  BY <1>0, <1>2 DEF Busy
<1>7. \A at \in {"select", "error", "cancelled"} :
        SetLayer(l, at) => Good(r(at))
  BY <1>0, <1>1 DEF Busy
<1>8. SetLayer(l, "dropped") /\ Failed => Good(r("dropped"))
  BY <1>0, <1>1 DEF Busy
<1>9. SetLayer(l, "done") /\ k = NPositions => Good(r("done"))
  BY <1>0, <1>1 DEF Busy
<1>10. \A at \in Busy :
         SetLayer(l, at) /\ k < NPositions /\ <<l, k>> \in Invoked
           /\ k \in Declares => Good(r(at))
  BY <1>0, <1>1 DEF Busy
<1>11. layer[l].at \in Busy =>
         k < NPositions /\ <<l, k>> \in Invoked /\ k \in Declares
  BY DEF Flow
<1> HIDE DEF Good, Goes, r, k
<1>12. CASE StartLayer(l)
  <2>1. \E p \in Points : Good(p)
    BY <1>12, <1>4, <1>7, <1>8 DEF StartLayer, Ended
  <2> QED
    BY <1>12, <2>1 DEF StartLayer, Ended, Running, Good, Goes
<1>13. CASE StartTap(l)
  <2>1. \E p \in Points : Good(p)
    BY <1>13, <1>4, <1>7 DEF StartTap, Ended
  <2> QED
    BY <1>13, <2>1 DEF StartTap, Ended, Running, Good, Goes
<1>14. CASE FinishLayer(l)
  <2>1. \E p \in Points : Good(p)
    BY <1>14, <1>4, <1>9 DEF FinishLayer, Ended, k
  <2> QED
    BY <1>3, <1>14, <2>1 DEF FinishLayer, Good, Goes
<1>15. CASE SelectModule(l)
  <2>1. layer[l].at = "select" /\ k < NPositions
    BY <1>15 DEF SelectModule, k
  <2>2. \/ \E how : Ran(l, how)
        \/ SetLayer(l, "error")
        \/ SetLayer(l, "lookup") /\ <<l, k>> \in Invoked /\ k \in Declares
    BY <1>15 DEF SelectModule, k
  <2>3. \E p \in Points : Good(p)
    BY <2>1, <2>2, <1>4, <1>5, <1>6, <1>7, <1>10 DEF Ended, Busy
  <2> QED
    BY <1>3, <2>1, <2>3 DEF Good, Goes
<1>16. CASE \/ LookupOwner(l) \/ GuardConsumer(l) \/ ProbePlan(l)
            \/ EnterConsumer(l) \/ LeaveConsumer(l)
  <2>1. layer[l].at \in Busy
    BY <1>16 DEF LookupOwner, GuardConsumer, ProbePlan, EnterConsumer,
                 LeaveConsumer, Busy
  <2>2. \/ \E how : Ran(l, how)
        \/ \E at \in Busy \cup {"error"} : SetLayer(l, at)
    BY <1>16 DEF LookupOwner, GuardConsumer, ProbePlan, EnterConsumer,
                 LeaveConsumer, Busy
  <2>3. \E p \in Points : Good(p)
    BY <2>1, <2>2, <1>4, <1>5, <1>6, <1>7, <1>10, <1>11 DEF Ended
  <2> QED
    BY <1>3, <2>1, <2>3 DEF Good, Goes
<1> QED
  BY <1>12, <1>13, <1>14, <1>15, <1>16 DEF Layer

LEMMA FlowStep ==
  ASSUME Cursor, Flow, [PrintNext]_printVars
  PROVE  Flow'
<1>1. CASE Body
  BY <1>1, BodyFlow
<1>2. CASE Disposes \/ RequestCancel \/ UNCHANGED printVars
  <2>1. UNCHANGED <<pc, layer>>
    BY <1>2, DisposalFrame, CancelFrame DEF printVars, layerVars
  <2> QED
    BY <2>1 DEF Flow, Failed, Active
<1>3. ASSUME NEW l \in Layers, Layer(l)  PROVE Flow'
  <2>1. UNCHANGED pc
    BY <1>3, LayerFrame
  <2> QED
    BY <1>3, <2>1, LayerMove, MoveFlow
<1> QED
  BY <1>1, <1>2, <1>3, Steps

-----------------------------------------------------------------------------
(* The store as the print uses it *)

LEMMA InitAuthority == PrintInit => Authority
<1> SUFFICES ASSUME PrintInit  PROVE Authority
  OBVIOUS
<1>1. \A p \in Owners : Consumers(p) = {}
  BY DEF PrintInit, Consumers, NotStarted
<1>2. \A p \in Owners : Cardinality(Consumers(p)) = 0
  BY <1>1, FS_EmptySet
<1>3. closed \in BOOLEAN /\ ~closed
  BY Zenon DEF PrintInit, AInit
<1>4. pc \notin Guarded
  BY DEF PrintInit, Guarded
<1> QED
  BY <1>2, <1>3, <1>4 DEF PrintInit, AInit, Authority, Statuses, NotStarted, Live

LEMMA ConsumersFinite ==
  \A p : IsFiniteSet(Consumers(p)) /\ Cardinality(Consumers(p)) \in Nat
<1>1. \A p : Consumers(p) \subseteq Layers /\ IsFiniteSet(Layers)
  BY PrintAssumption DEF Consumers
<1> QED
  BY <1>1, FS_Subset, FS_CardinalityType

\* The pipeline thread moves the owner in hand to another status.
LEMMA MoveAuthority ==
  ASSUME Flow, Authority, pos \in Owners,
         NEW from \in {"absent", "unready", "staging"},
         NEW to \in {"unready", "staging", "ready"},
         Move(pos, from, to), ~closed, UNCHANGED <<layer, pos>>,
         pc \in Guarded <=> pc' \in Guarded,
         to = "staging" => pc' = "module"
  PROVE  Authority'
<1>1. \A p \in Owners : Consumers(p)' = Consumers(p)
  BY DEF Consumers
<1>2. /\ status' \in [Owners -> Statuses] /\ UNCHANGED <<calls, closed>>
      /\ status'[pos] = to
      /\ \A p \in Owners \ {pos} : status'[p] = status[p]
      /\ status[pos] = from
  BY DEF Move, Authority, Statuses
<1>3. \A p \in Owners : status'[p] = "staging" => pc' = "module" /\ pos' = p
  BY <1>2 DEF Authority
<1>4. \A l \in Layers : layer[l].at \in {"call", "consuming"} =>
        /\ layer[l].k \in Owners /\ status[layer[l].k] \in {"ready", "disposed"}
        /\ layer[l].k # pos
  BY <1>2, BusyOwner DEF Authority, Busy
<1>5. \A l \in Layers :
        /\ layer'[l].at = "call" => status'[layer'[l].k] \in {"ready", "disposed"}
        /\ layer'[l].at = "consuming" => status'[layer'[l].k] = "ready"
  BY <1>2, <1>4 DEF Authority
<1>6. \A p \in Owners :
        calls'[p] = Cardinality(Consumers(p)')
                      + (IF pc' \in Guarded /\ pos' = p THEN 1 ELSE 0)
  BY <1>1, <1>2 DEF Authority
<1> QED
  BY <1>2, <1>3, <1>5, <1>6 DEF Authority

\* A step outside the owner's prepare call that leaves the store alone.
LEMMA SameAuthority ==
  ASSUME Authority, UNCHANGED <<authorityVars, layer>>,
         \/ pc \notin Guarded /\ pc' \notin Guarded
         \/ UNCHANGED <<pc, pos>>
  PROVE  Authority'
<1>1. \A p \in Owners : Consumers(p)' = Consumers(p)
  BY DEF Consumers
<1>2. UNCHANGED <<status, calls, closed>>
  BY DEF authorityVars
<1>3. "module" \in Guarded
  BY DEF Guarded
<1> QED
  BY <1>1, <1>2, <1>3 DEF Authority, Live

LEMMA BodyAuthority ==
  ASSUME Cursor, Flow, Authority, Body
  PROVE  Authority'
<1>0. layer' = layer
  BY BodyFrame DEF layerVars
<1>a. pc \in InHand \/ (pc = "owner" /\ pos < NPositions) => pos \in Owners
  BY Positions DEF Cursor
<1>1. CASE CreateOwner
  <2>1. CASE ACreate(pos) /\ pc' = "created"
    BY <1>0, <1>a, <1>1, <2>1, MoveAuthority DEF CreateOwner, ACreate, Guarded
  <2>2. CASE UNCHANGED authorityVars /\ pc' = "returned"
    BY <1>0, <1>1, <2>2, SameAuthority DEF CreateOwner, Guarded
  <2> QED
    BY <1>1, <2>1, <2>2 DEF CreateOwner, Fail, Return
<1>2. CASE EnterPrepare
  <2>1. CASE AEnter(pos) /\ pc' = "begin"
    <3>0. pos \in Owners /\ pos' = pos /\ pc \notin Guarded /\ pc' \in Guarded
      BY <1>a, <1>2, <2>1 DEF EnterPrepare, InHand, Guarded
    <3>1. \A p \in Owners : Consumers(p)' = Consumers(p)
      BY <1>0 DEF Consumers
    <3>2. /\ UNCHANGED <<status, closed>> /\ calls' \in [Owners -> Nat]
          /\ calls'[pos] = calls[pos] + 1
          /\ \A p \in Owners \ {pos} : calls'[p] = calls[p]
      BY <2>1, <3>0 DEF AEnter, Authority
    <3>3. \A p \in Owners :
            calls'[p] = Cardinality(Consumers(p)')
                          + (IF pc' \in Guarded /\ pos' = p THEN 1 ELSE 0)
      BY <3>0, <3>1, <3>2, ConsumersFinite DEF Authority
    <3> QED
      BY <1>0, <1>2, <3>2, <3>3 DEF Authority, EnterPrepare, Live
  <2>2. CASE UNCHANGED authorityVars /\ pc' = "failed"
    BY <1>0, <1>2, <2>2, SameAuthority DEF EnterPrepare, Guarded
  <2> QED
    BY <1>2, <2>1, <2>2 DEF EnterPrepare
<1>3. CASE BeginPrepare
  <2>1. ~closed
    BY <1>a, <1>3 DEF BeginPrepare, ABegin, Move, Authority, Live, InHand, Guarded
  <2> QED
    BY <1>0, <1>a, <1>3, <2>1, MoveAuthority
    DEF BeginPrepare, ABegin, InHand, Guarded
<1>4. CASE AbortPrepare \/ CancelAtPublication
  <2>1. ~closed
    BY <1>a, <1>4 DEF AbortPrepare, CancelAtPublication, AAbort, Move, Authority,
                      Live, InHand, Guarded
  <2> QED
    BY <1>0, <1>a, <1>4, <2>1, MoveAuthority
    DEF AbortPrepare, CancelAtPublication, AAbort, InHand, Guarded
<1>5. CASE PublishPlan
  <2>1. ~closed
    BY <1>a, <1>5 DEF PublishPlan, APublish, Move, Authority, Live, InHand, Guarded
  <2> QED
    BY <1>0, <1>a, <1>5, <2>1, MoveAuthority
    DEF PublishPlan, APublish, InHand, Guarded
<1>6. CASE LeavePrepare
  <2>0. /\ pos \in Owners /\ pos' = pos /\ pc \in Guarded /\ pc' \notin Guarded
        /\ pc # "module"
    BY <1>a, <1>6 DEF LeavePrepare, InHand, Guarded
  <2>1. \A p \in Owners : Consumers(p)' = Consumers(p)
    BY <1>0 DEF Consumers
  <2>2. /\ UNCHANGED <<status, closed>> /\ calls[pos] > 0
        /\ calls' = [calls EXCEPT ![pos] = @ - 1]
    BY <1>6 DEF LeavePrepare, ALeave
  <2>3. /\ calls' \in [Owners -> Nat]
        /\ calls'[pos] = calls[pos] - 1
        /\ \A p \in Owners \ {pos} : calls'[p] = calls[p]
    BY <2>0, <2>2 DEF Authority
  <2>4. \A p \in Owners :
          calls'[p] = Cardinality(Consumers(p)')
                        + (IF pc' \in Guarded /\ pos' = p THEN 1 ELSE 0)
    BY <2>0, <2>1, <2>3, ConsumersFinite DEF Authority
  <2>5. \A p \in Owners : status[p] # "staging"
    BY <2>0 DEF Authority
  <2> QED
    BY <1>0, <2>2, <2>3, <2>4, <2>5 DEF Authority, Live
<1>7. CASE \/ Prepass \/ BeginLoop \/ LoopCancelled \/ SkipOwner \/ PushOwner
           \/ CheckCurrent \/ ObserveReady \/ ObserveFailure \/ EndLoop
  <2>1. UNCHANGED authorityVars /\ pc \notin Guarded /\ pc' \notin Guarded
    BY <1>7 DEF Prepass, BeginLoop, LoopCancelled, SkipOwner, PushOwner,
                CheckCurrent, ObserveReady, ObserveFailure, EndLoop, Fail,
                Return, Guarded
  <2> QED
    BY <1>0, <2>1, SameAuthority
<1>8. CASE \/ AllReadyGuard \/ AdmitLayers \/ JoinLayers \/ JoinTaps
           \/ PostPass \/ Capture
  <2>0. AfterPreparation \notin Guarded
    BY NextPhase DEF Guarded
  <2>1. UNCHANGED authorityVars /\ pc \notin Guarded /\ pc' \notin Guarded
    BY <1>8, <2>0 DEF AllReadyGuard, AdmitLayers, JoinLayers, JoinTaps, PostPass,
                Capture, Return, Guarded
  <2> QED
    BY <1>0, <2>1, SameAuthority
<1> QED
  BY <1>1, <1>2, <1>3, <1>4, <1>5, <1>6, <1>7, <1>8 DEF Body

\* A layer moves without entering or leaving a call.
LEMMA StayAuthority ==
  ASSUME Flow, Authority, NEW l \in Layers, NEW r \in Points,
         layer' = [layer EXCEPT ![l] = r], UNCHANGED <<authorityVars, pc, pos>>,
         layer[l].at # "consuming", r.at # "consuming",
         r.at = "call" => r.k \in Owners /\ status[r.k] = "ready"
  PROVE  Authority'
<1>1. \A m \in Layers : layer'[m] = IF m = l THEN r ELSE layer[m]
  BY DEF Flow
<1>2. \A p \in Owners : Consumers(p)' = Consumers(p)
  BY <1>1 DEF Consumers
<1>3. UNCHANGED <<status, calls, closed>>
  BY DEF authorityVars
<1>4. \A m \in Layers :
        /\ layer'[m].at = "call" => status'[layer'[m].k] \in {"ready", "disposed"}
        /\ layer'[m].at = "consuming" => status'[layer'[m].k] = "ready"
  BY <1>1, <1>3 DEF Authority
<1> QED
  BY <1>2, <1>3, <1>4 DEF Authority, Live

LEMMA EnterAuthority ==
  ASSUME Flow, Authority, NEW l \in Layers, EnterConsumer(l)
  PROVE  Authority'
<1>a. layer[l].k \in Owners /\ layer[l] \in Points /\ layer[l].at = "call"
  BY BusyOwner DEF EnterConsumer, Busy, Flow, Points
<1>b. PICK k \in Owners : k = layer[l].k
  BY <1>a
<1>0. /\ k \in Owners /\ k = layer[l].k
      /\ layer[l] \in Points /\ layer[l].at = "call"
  BY <1>a, <1>b
<1>1. UNCHANGED <<pc, pos>>
  BY DEF EnterConsumer
<1>2. CASE ~Live(k)
  <2>1. layer' = [layer EXCEPT ![l] = [at |-> "error", k |-> k]]
    BY <1>0, <1>2 DEF EnterConsumer, SetLayer, Flow, Points
  <2>2. [at |-> "error", k |-> k] \in Points /\ UNCHANGED authorityVars
    BY <1>0, <1>2 DEF EnterConsumer, Points, Ended
  <2> QED
    BY <1>0, <1>1, <2>1, <2>2, StayAuthority
<1>3. CASE Live(k)
  <2>1. layer' = [layer EXCEPT ![l] = [at |-> "consuming", k |-> k]]
    BY <1>0, <1>3 DEF EnterConsumer, SetLayer, Flow, Points
  <2>2. \A m \in Layers :
          layer'[m] = IF m = l THEN [at |-> "consuming", k |-> k] ELSE layer[m]
    BY <2>1 DEF Flow
  <2>3. /\ UNCHANGED <<status, closed>> /\ calls' \in [Owners -> Nat]
        /\ calls'[k] = calls[k] + 1
        /\ \A p \in Owners \ {k} : calls'[p] = calls[p]
    BY <1>0, <1>3 DEF EnterConsumer, AEnter, Authority
  <2>4. Consumers(k)' = Consumers(k) \cup {l} /\ l \notin Consumers(k)
    BY <1>0, <2>2 DEF Consumers
  <2>5. Cardinality(Consumers(k)') = Cardinality(Consumers(k)) + 1
    BY <2>4, ConsumersFinite, FS_AddElement
  <2>6. \A p \in Owners \ {k} : Consumers(p)' = Consumers(p)
    BY <1>0, <2>2 DEF Consumers
  <2>7. \A p \in Owners :
          calls'[p] = Cardinality(Consumers(p)')
                        + (IF pc' \in Guarded /\ pos' = p THEN 1 ELSE 0)
    BY <1>0, <1>1, <2>3, <2>5, <2>6, ConsumersFinite DEF Authority
  <2>8. status[k] = "ready"
    BY <1>0, <1>3 DEF Authority, Live
  <2>9. \A m \in Layers :
          /\ layer'[m].at = "call" =>
               status'[layer'[m].k] \in {"ready", "disposed"}
          /\ layer'[m].at = "consuming" => status'[layer'[m].k] = "ready"
    BY <2>2, <2>3, <2>8 DEF Authority
  <2> QED
    BY <1>1, <2>3, <2>7, <2>9 DEF Authority, Live
<1> QED
  BY <1>2, <1>3

LEMMA LeaveAuthority ==
  ASSUME Flow, Authority, NEW l \in Layers, LeaveConsumer(l)
  PROVE  Authority'
<1>a. layer[l].k \in Owners /\ layer[l] \in Points /\ layer[l].at = "consuming"
  BY BusyOwner DEF LeaveConsumer, Busy, Flow, Points
<1>b. PICK k \in Owners : k = layer[l].k
  BY <1>a
<1>0. /\ k \in Owners /\ k = layer[l].k
      /\ layer[l] \in Points /\ layer[l].at = "consuming"
  BY <1>a, <1>b
<1>1. UNCHANGED <<pc, pos, status, closed>>
  BY DEF LeaveConsumer, ALeave
<1>2. PICK r : /\ layer' = [layer EXCEPT ![l] = r]
               /\ r.at \in {"select", "error"}
  <2>1. CASE Ran(l, "prepared")
    <3>1. layer' = [layer EXCEPT ![l] = [at |-> "select", k |-> k + 1]]
      BY <1>0, <2>1 DEF Ran
    <3> WITNESS [at |-> "select", k |-> k + 1]
    <3> QED
      BY <3>1
  <2>2. CASE SetLayer(l, "error")
    <3>1. layer' = [layer EXCEPT ![l] = [layer[l] EXCEPT !.at = "error"]]
      BY <2>2 DEF SetLayer
    <3>2. [layer[l] EXCEPT !.at = "error"].at = "error"
      BY <1>0 DEF Points
    <3> QED
      BY <3>1, <3>2
  <2> QED
    BY <2>1, <2>2 DEF LeaveConsumer
<1>3. \A m \in Layers : layer'[m] = IF m = l THEN r ELSE layer[m]
  BY <1>2 DEF Flow
<1>4. /\ calls[k] > 0 /\ calls' = [calls EXCEPT ![k] = @ - 1]
  BY <1>0 DEF LeaveConsumer, ALeave
<1>5. /\ calls' \in [Owners -> Nat]
      /\ calls'[k] = calls[k] - 1
      /\ \A p \in Owners \ {k} : calls'[p] = calls[p]
  BY <1>0, <1>4 DEF Authority
<1>6. Consumers(k)' = Consumers(k) \ {l} /\ l \in Consumers(k)
  BY <1>0, <1>2, <1>3 DEF Consumers
<1>7. Cardinality(Consumers(k)') = Cardinality(Consumers(k)) - 1
  BY <1>6, ConsumersFinite, FS_RemoveElement
<1>8. \A p \in Owners \ {k} : Consumers(p)' = Consumers(p)
  BY <1>0, <1>2, <1>3 DEF Consumers
<1>9. \A p \in Owners :
        calls'[p] = Cardinality(Consumers(p)')
                      + (IF pc' \in Guarded /\ pos' = p THEN 1 ELSE 0)
  BY <1>0, <1>1, <1>5, <1>7, <1>8, ConsumersFinite DEF Authority
<1>10. \A m \in Layers :
         /\ layer'[m].at = "call" =>
              status'[layer'[m].k] \in {"ready", "disposed"}
         /\ layer'[m].at = "consuming" => status'[layer'[m].k] = "ready"
  BY <1>1, <1>2, <1>3 DEF Authority
<1> QED
  BY <1>1, <1>5, <1>9, <1>10 DEF Authority, Live

LEMMA LayerAuthority ==
  ASSUME Cursor, Flow, Authority, NEW l \in Layers, Layer(l)
  PROVE  Authority'
<1>1. CASE EnterConsumer(l) \/ LeaveConsumer(l)
  BY <1>1, EnterAuthority, LeaveAuthority
<1>2. CASE ~EnterConsumer(l) /\ ~LeaveConsumer(l)
  <2>1. PICK r \in Points : layer' = [layer EXCEPT ![l] = r]
    BY LayerMove
  <2>2. /\ UNCHANGED <<authorityVars, pc, pos>> /\ layer[l].at # "consuming"
    BY <1>2 DEF Layer, StartLayer, StartTap, SelectModule, LookupOwner,
                GuardConsumer, ProbePlan, FinishLayer
  <2>3. layer'[l] = r
    BY <2>1 DEF Flow
  <2>4. /\ layer'[l].at # "consuming"
        /\ layer'[l].at = "call" =>
             layer'[l].k \in Owners /\ status[layer'[l].k] = "ready"
    <3>1. \A at : SetLayer(l, at) =>
            layer'[l].at = at /\ layer'[l].k = layer[l].k
      BY DEF SetLayer, Flow
    <3>2. \A how : Ran(l, how) => layer'[l].at = "select"
      BY DEF Ran, Flow
    <3>3. CASE ProbePlan(l)
      <4>1. \/ Ran(l, "skipped") \/ SetLayer(l, "error")
            \/ SetLayer(l, "call") /\ status[layer[l].k] = "ready"
        BY <3>3 DEF ProbePlan
      <4>2. layer[l].k \in Owners
        BY <3>3, BusyOwner DEF ProbePlan, Busy
      <4> QED
        BY <4>1, <4>2, <3>1, <3>2
    <3>4. CASE ~ProbePlan(l)
      <4>1. \/ \E how : Ran(l, how)
            \/ \E at \in {"cancelled", "select", "dropped", "done", "error",
                          "lookup", "guard", "probe"} : SetLayer(l, at)
        BY <1>2, <3>4 DEF Layer, StartLayer, StartTap, SelectModule, LookupOwner,
                          GuardConsumer, FinishLayer
      <4> QED
        BY <4>1, <3>1, <3>2
    <3> QED
      BY <3>3, <3>4
  <2> QED
    BY <2>1, <2>2, <2>3, <2>4, StayAuthority
<1> QED
  BY <1>1, <1>2

\* Disposal is refused while a call is under way, so no consumer loses its
\* plan and no transaction its owner.
LEMMA DisposeAuthority ==
  ASSUME Flow, Authority, Disposes
  PROVE  Authority'
<1>0. UNCHANGED <<calls, pc, pos, layer>>
  BY DisposalFrame DEF layerVars
<1>1. CASE UNCHANGED <<status, closed>>
  BY <1>0, <1>1, SameAuthority DEF authorityVars
<1>2. CASE ADispose
  <2>1. \A p \in Owners : Consumers(p)' = Consumers(p)
    BY <1>0 DEF Consumers
  <2>2. \A p \in Owners : calls[p] = 0 /\ Consumers(p) = {}
    <3> SUFFICES ASSUME NEW p \in Owners
                 PROVE  calls[p] = 0 /\ Consumers(p) = {}
      OBVIOUS
    <3>1. calls[p] = 0
      BY <1>2 DEF ADispose, Idle
    <3>2. Cardinality(Consumers(p)) = 0
      BY <3>1, ConsumersFinite DEF Authority
    <3> QED
      BY <3>1, <3>2, ConsumersFinite, FS_EmptySet
  <2>3. \A l \in Layers : layer[l].at # "consuming"
    BY <2>2, BusyOwner DEF Consumers, Busy
  <2>4. /\ status' \in [Owners -> Statuses] /\ closed' = TRUE
        /\ \A p \in Owners :
             status'[p] = IF status[p] = "absent" THEN "absent" ELSE "disposed"
    BY <1>2 DEF ADispose, Statuses
  <2>5. \A l \in Layers :
          layer[l].at = "call" => status'[layer[l].k] \in {"ready", "disposed"}
    BY <2>4, BusyOwner DEF Busy, Authority
  <2> QED
    BY <1>0, <2>1, <2>3, <2>4, <2>5 DEF Authority, Live
<1> QED
  BY <1>1, <1>2
  DEF Disposes, StartCleanup, CleanupBusy, TakeCommitted, TakeOwners, AppLock,
      AppTail, AppDispose, AppBusy, DropOutlet, DisposeStore, authorityVars

LEMMA AuthorityStep ==
  ASSUME Cursor, Flow, Authority, [PrintNext]_printVars
  PROVE  Authority'
<1>1. CASE RequestCancel \/ UNCHANGED printVars
  <2>1. UNCHANGED <<authorityVars, layer, pc, pos>>
    BY <1>1, CancelFrame DEF printVars, layerVars
  <2> QED
    BY <2>1, SameAuthority
<1> QED
  BY <1>1, BodyAuthority, LayerAuthority, DisposeAuthority, Steps

-----------------------------------------------------------------------------
(* What the layers have run *)

LEMMA InitOutput == PrintInit => Output
<1> SUFFICES ASSUME PrintInit  PROVE Output
  OBVIOUS
<1>1. \A l \in Layers : layer[l].k = 0
  BY DEF PrintInit, NotStarted
<1>2. \A p \in Owners : ~(p < 0)
  BY Positions
<1> QED
  BY <1>1, <1>2 DEF PrintInit, Output

\* Only PostPass returns G-code, behind its cancel checkpoint.
LEMMA GcodeFromPostPass ==
  ASSUME Body, result' = "gcode", result # "gcode"
  PROVE  pc = "postpass" /\ ~cancel
BY DEF Body, Prepass, BeginLoop, LoopCancelled, SkipOwner, CreateOwner,
       PushOwner, EnterPrepare, BeginPrepare, AbortPrepare,
       CancelAtPublication, PublishPlan, LeavePrepare, CheckCurrent,
       ObserveReady, ObserveFailure, EndLoop, AllReadyGuard, AdmitLayers,
       JoinLayers, JoinTaps, PostPass, Capture, Fail, Return

LEMMA BodyOutput ==
  ASSUME Cursor, Flow, Output, Body
  PROVE  Output'
<1>1. UNCHANGED <<cancel, layer, ran>>
  BY BodyFrame DEF layerVars
<1>2. CASE result' # "gcode" \/ result = "gcode"
  BY <1>1, <1>2 DEF Output
<1>3. CASE result' = "gcode" /\ result # "gcode"
  <2>1. pc = "postpass" /\ ~cancel
    BY <1>3, GcodeFromPostPass
  <2>2. \A l \in Layers : layer[l].k = NPositions
    BY <2>1 DEF Flow
  <2>3. \A p \in Owners : p < NPositions
    BY Positions
  <2>4. \A l \in Layers, p \in Owners : ran[l][p] \in Allowed(l, p)
    BY <2>1, <2>2, <2>3 DEF Output
  <2> QED
    BY <1>1, <2>4 DEF Output, Allowed
<1> QED
  BY <1>2, <1>3

\* How one step of a layer records what it ran.
LEMMA LayerRan ==
  ASSUME Cursor, Flow, NEW l \in Layers, Layer(l)
  PROVE  \/ UNCHANGED ran /\ layer'[l].k = layer[l].k
         \/ \E how \in {"unselected", "skipped", "plain", "nowork", "prepared"} :
              /\ Ran(l, how) /\ layer[l].k \in Owners
              /\ how \in Allowed(l, layer[l].k)
                           \cup (IF cancel THEN {"skipped"} ELSE {})
              /\ how = "plain" => layer[l].k \notin Declares \cap owners
<1>0. \A at : SetLayer(l, at) => layer'[l].k = layer[l].k
  BY DEF SetLayer, Flow
<1>1. CASE StartLayer(l) \/ StartTap(l) \/ FinishLayer(l) \/ GuardConsumer(l)
             \/ EnterConsumer(l)
  BY <1>0, <1>1 DEF StartLayer, StartTap, FinishLayer, GuardConsumer,
                    EnterConsumer
<1>2. CASE SelectModule(l)
  <2>1. layer[l].k \in Owners
    BY <1>2, Positions DEF SelectModule, Flow
  <2>2. \/ <<l, layer[l].k>> \notin Invoked /\ Ran(l, "unselected")
        \/ <<l, layer[l].k>> \in Invoked /\ cancel /\ Ran(l, "skipped")
        \/ /\ <<l, layer[l].k>> \in Invoked /\ layer[l].k \notin Declares
           /\ Ran(l, "plain")
        \/ <<l, layer[l].k>> \in Invoked /\ Ran(l, "nowork")
        \/ UNCHANGED ran /\ \E at : SetLayer(l, at)
    BY <1>2 DEF SelectModule
  <2> QED
    BY <1>0, <2>1, <2>2 DEF Allowed
<1>3. CASE LookupOwner(l) \/ ProbePlan(l) \/ LeaveConsumer(l)
  <2>1. layer[l].k \in Owners /\ <<l, layer[l].k>> \in Invoked
    BY <1>3, BusyOwner DEF LookupOwner, ProbePlan, LeaveConsumer, Busy, Flow
  <2>2. \/ layer[l].k \notin owners /\ Ran(l, "plain")
        \/ cancel /\ Ran(l, "skipped")
        \/ Ran(l, "prepared")
        \/ UNCHANGED ran /\ \E at : SetLayer(l, at)
    BY <1>3 DEF LookupOwner, ProbePlan, LeaveConsumer
  <2> QED
    BY <1>0, <2>1, <2>2 DEF Allowed
<1> QED
  BY <1>1, <1>2, <1>3 DEF Layer

LEMMA LayerOutput ==
  ASSUME Cursor, Flow, Output, NEW l \in Layers, Layer(l)
  PROVE  Output'
<1>1. UNCHANGED <<cancel, result>> /\ result # "gcode"
  BY LayerFrame, LayerMove DEF Cursor, Running
<1>2. \A m \in Layers \ {l} : layer'[m] = layer[m]
  <2>1. PICK r \in Points : layer' = [layer EXCEPT ![l] = r]
    BY LayerMove
  <2> QED
    BY <2>1 DEF Flow
<1>3. CASE UNCHANGED ran /\ layer'[l].k = layer[l].k
  BY <1>1, <1>2, <1>3 DEF Output
<1>4. ASSUME NEW how \in {"unselected", "skipped", "plain", "nowork", "prepared"},
             Ran(l, how), layer[l].k \in Owners,
             how \in Allowed(l, layer[l].k)
                       \cup (IF cancel THEN {"skipped"} ELSE {})
      PROVE  Output'
  <2>0. PICK k \in Owners : k = layer[l].k
    BY <1>4
  <2>1. /\ ran' \in [Layers -> [Owners -> {"no", "unselected", "skipped",
                                           "plain", "nowork", "prepared"}]]
        /\ ran'[l][k] = how
        /\ \A p \in Owners \ {k} : ran'[l][p] = ran[l][p]
        /\ \A m \in Layers \ {l} : ran'[m] = ran[m]
    BY <1>4, <2>0 DEF Ran, Output
  <2>2. layer'[l].k = k + 1
    BY <1>4, <2>0 DEF Ran, Flow
  <2>3. \A p \in Owners : p < k + 1 => p < k \/ p = k
    BY <2>0, Positions
  <2>4. \A m \in Layers, p \in Owners :
          p < layer'[m].k =>
            ran'[m][p] \in Allowed(m, p)
                             \cup (IF cancel THEN {"skipped"} ELSE {})
    <3> SUFFICES ASSUME NEW m \in Layers, NEW p \in Owners, p < layer'[m].k
                 PROVE  ran'[m][p] \in Allowed(m, p)
                             \cup (IF cancel THEN {"skipped"} ELSE {})
      OBVIOUS
    <3>1. CASE m # l
      BY <3>1, <1>2, <2>1 DEF Output
    <3>2. CASE m = l /\ p = k
      BY <3>2, <1>4, <2>0, <2>1
    <3>3. CASE m = l /\ p # k
      BY <3>3, <2>0, <2>1, <2>2, <2>3 DEF Output
    <3> QED
      BY <3>1, <3>2, <3>3
  <2> QED
    BY <1>1, <2>1, <2>4 DEF Output, Allowed
<1> QED
  BY <1>3, <1>4, LayerRan

LEMMA OutputStep ==
  ASSUME Cursor, Flow, Output, [PrintNext]_printVars
  PROVE  Output'
<1>1. CASE Disposes
  <2>1. UNCHANGED <<cancel, layer, ran>>
    BY <1>1, DisposalFrame DEF layerVars
  <2>2. result' = "gcode" => result = "gcode"
    BY <1>1 DEF Disposes, StartCleanup, CleanupBusy, TakeCommitted, TakeOwners,
                AppLock, AppTail, AppDispose, AppBusy, DropOutlet, DisposeStore
  <2> QED
    BY <2>1, <2>2 DEF Output, Allowed
<1>2. CASE RequestCancel
  <2>1. cancel' /\ UNCHANGED <<layer, ran, result>>
    BY <1>2, CancelFrame DEF layerVars
  <2> QED
    BY <2>1 DEF Output, Allowed
<1>3. CASE UNCHANGED printVars
  BY <1>3 DEF printVars, layerVars, Output, Allowed
<1> QED
  BY <1>1, <1>2, <1>3, BodyOutput, LayerOutput, Steps

-----------------------------------------------------------------------------
(* Records, tokens and disposal *)

\* Appending to a short sequence.
LEMMA AppendOne ==
  ASSUME NEW x, NEW y  PROVE Append(<<x>>, y) = <<x, y>>
<1> DEFINE S == {x, y}
<1>1. /\ Append(<<x>>, y) \in Seq(S) /\ Len(Append(<<x>>, y)) = 2
      /\ Append(<<x>>, y)[1] = x /\ Append(<<x>>, y)[2] = y
  OBVIOUS
<1>2. /\ <<x, y>> \in Seq(S) /\ Len(<<x, y>>) = 2
      /\ <<x, y>>[1] = x /\ <<x, y>>[2] = y
  OBVIOUS
<1>3. \A i \in 1 .. 2 : i = 1 \/ i = 2
  OBVIOUS
<1> HIDE DEF S
<1> QED
  BY <1>1, <1>2, <1>3, SeqEqual

LEMMA AppendTwo ==
  ASSUME NEW x, NEW y, NEW z  PROVE Append(<<x, y>>, z) = <<x, y, z>>
<1> DEFINE S == {x, y, z}
<1>1. /\ Append(<<x, y>>, z) \in Seq(S) /\ Len(Append(<<x, y>>, z)) = 3
      /\ Append(<<x, y>>, z)[1] = x /\ Append(<<x, y>>, z)[2] = y
      /\ Append(<<x, y>>, z)[3] = z
  OBVIOUS
<1>2. /\ <<x, y, z>> \in Seq(S) /\ Len(<<x, y, z>>) = 3
      /\ <<x, y, z>>[1] = x /\ <<x, y, z>>[2] = y /\ <<x, y, z>>[3] = z
  OBVIOUS
<1>3. \A i \in 1 .. 3 : i = 1 \/ i = 2 \/ i = 3
  OBVIOUS
<1> HIDE DEF S
<1> QED
  BY <1>1, <1>2, <1>3, SeqEqual

\* How the records of one owner grow.
LEMMA Appended ==
  /\ <<>> \in Shut
  /\ Append(<<>>, "Cancelled") \in Shut
  /\ Append(<<>>, "NoWork") \in Shut
  /\ Append(<<>>, "Start") = Started
  /\ \A v \in Verdicts : Append(Started, v) \in Open
  /\ \A r \in Open : Append(r, "Disposed") \in Shut
<1>1. /\ Append(<<>>, "Cancelled") = <<"Cancelled">>
      /\ Append(<<>>, "NoWork") = <<"NoWork">>
      /\ Append(<<>>, "Start") = <<"Start">>
  OBVIOUS
<1>2. \A v \in Verdicts : Append(<<"Start">>, v) = <<"Start", v>>
  BY AppendOne, Zenon
<1>3. \A v \in Verdicts :
        Append(<<"Start", v>>, "Disposed") = <<"Start", v, "Disposed">>
  BY AppendTwo, Zenon
<1> QED
  BY <1>1, <1>2, <1>3, Zenon DEF Shut, Open, Started

LEMMA InitRecords == PrintInit => Records /\ Closing /\ Retention
<1> SUFFICES ASSUME PrintInit  PROVE Records /\ Closing /\ Retention
  OBVIOUS
<1>1. /\ owners = {} /\ pc = "prepass" /\ disposing.run = "idle"
      /\ disposing.app \in {"idle", "gone"}
      /\ DOMAIN records = Owners /\ \A p \in Owners : records[p] = <<>>
  BY DEF PrintInit
<1>2. Records
  BY <1>1, Appended DEF Records, InHand, Guarded
<1> QED
  BY <1>1, <1>2 DEF Closing, Retention, Loop, InHand, Guarded

\* One more record for the owner p.
LEMMA Observed ==
  ASSUME DOMAIN records = Owners, NEW p \in Owners, NEW s, Observe(p, s)
  PROVE  /\ DOMAIN records' = Owners
         /\ records'[p] = Append(records[p], s)
         /\ \A q \in Owners \ {p} : records'[q] = records[q]
BY DEF Observe

\* A step that records nothing and keeps the owner in hand.
LEMMA KeepRecords ==
  ASSUME Records, UNCHANGED <<owners, records>>,
         \A p \in Owners : Unreached(p)' => Unreached(p),
         (pc' \in InHand \ {"created"}) <=> (pc \in InHand \ {"created"}),
         pc \in InHand \ {"created"} => UNCHANGED pos
  PROVE  Records'
<1> USE DEF Records
<1>1. pc' \in InHand \ {"created"} => pos' \in owners'
  OBVIOUS
<1>2. ASSUME NEW p \in Owners
      PROVE  /\ Unreached(p)' => records'[p] = <<>> /\ p \notin owners'
             /\ p \notin owners' => records'[p] \in Shut
  BY <1>2
<1>3. ASSUME NEW p \in Owners, p \in owners'
      PROVE  IF pc' \in InHand /\ p = pos' THEN records'[p] = Started
             ELSE records'[p] \in Open
  <2>1. ~Unreached(p) /\ ~Unreached(p)'
    BY <1>3
  <2>2. ~(pc = "created" /\ p = pos) /\ ~(pc' = "created" /\ p = pos')
    BY <2>1 DEF Unreached, Loop, InHand
  <2> QED
    BY <1>3, <2>2
<1> QED
  BY <1>1, <1>2, <1>3

\* The steps of the thread that record nothing.
LEMMA QuietRecords ==
  ASSUME Cursor, Records, UNCHANGED <<owners, records>>,
         \/ Prepass \/ BeginLoop \/ CreateOwner \/ EnterPrepare \/ BeginPrepare
         \/ AbortPrepare \/ CancelAtPublication \/ PublishPlan \/ LeavePrepare
         \/ CheckCurrent \/ EndLoop \/ AllReadyGuard \/ AdmitLayers
         \/ JoinLayers \/ JoinTaps \/ PostPass \/ Capture
  PROVE  Records'
<1> USE DEF Unreached, Loop, InHand, Guarded
<1>1. CASE Prepass
  BY <1>1, KeepRecords DEF Prepass, Return
<1>2. CASE BeginLoop
  BY <1>2, KeepRecords DEF BeginLoop
<1>3. CASE CreateOwner
  <2>1. pc = "owner" /\ UNCHANGED pos /\ pc' \in {"created", "returned"}
    BY <1>3 DEF CreateOwner, Fail, Return
  <2> QED
    BY <2>1, KeepRecords
<1>4. CASE \/ EnterPrepare \/ BeginPrepare \/ AbortPrepare
           \/ CancelAtPublication \/ PublishPlan \/ LeavePrepare \/ CheckCurrent
  <2>1. /\ pc \in InHand \ {"created"} /\ pc' \in InHand \ {"created"}
        /\ UNCHANGED pos
    BY <1>4 DEF EnterPrepare, BeginPrepare, AbortPrepare, CancelAtPublication,
                PublishPlan, LeavePrepare, CheckCurrent
  <2> QED
    BY <2>1, KeepRecords
<1>5. CASE EndLoop
  BY <1>5, KeepRecords DEF EndLoop
<1>6. CASE \/ AllReadyGuard \/ AdmitLayers \/ JoinLayers \/ JoinTaps
           \/ PostPass \/ Capture
  <2>1. AfterPreparation \in {"admit", "capture", "taps"}
    BY NextPhase
  <2>2. pc \in {"all_ready", "admit", "layers", "taps", "postpass", "capture"}
    BY <1>6 DEF AllReadyGuard, AdmitLayers, JoinLayers, JoinTaps, PostPass,
                Capture
  <2>3. pc' \in {"admit", "layers", "taps", "postpass", "capture", "returned"}
    BY <1>6, <2>1 DEF AllReadyGuard, AdmitLayers, JoinLayers, JoinTaps, PostPass,
                      Capture, Return
  <2> QED
    BY <2>2, <2>3, KeepRecords
<1> QED
  BY <1>1, <1>2, <1>3, <1>4, <1>5, <1>6

\* The steps that record something, or pass a position by.
LEMMA LoudRecords ==
  ASSUME Cursor, Records,
         LoopCancelled \/ SkipOwner \/ PushOwner \/ ObserveReady \/ ObserveFailure
  PROVE  Records'
<1>0. /\ pos \in Owners /\ DOMAIN records = Owners /\ NPositions \in Nat
      /\ pos \in Nat /\ \A p \in Owners : p \in Nat
  <2>1. pos \in 0 .. NPositions /\ pos < NPositions
    BY DEF Cursor, LoopCancelled, SkipOwner, PushOwner, ObserveReady,
           ObserveFailure, InHand
  <2> QED
    BY <2>1, Positions DEF Records
<1> USE DEF Loop, InHand, Guarded
<1>1. CASE LoopCancelled
  <2>1. /\ pc = "owner" /\ pc' = "returned" /\ UNCHANGED <<pos, owners>>
        /\ Observe(pos, "Cancelled")
    BY <1>1 DEF LoopCancelled, Fail, Return
  <2>2. records[pos] = <<>> /\ pos \notin owners
    BY <1>0, <2>1 DEF Records, Unreached
  <2>3. records'[pos] \in Shut
    BY <1>0, <2>1, <2>2, Observed, Appended
  <2> QED
    BY <1>0, <2>1, <2>2, <2>3, Observed DEF Records, Unreached
<1>2. CASE SkipOwner
  <2>1. /\ pc = "owner" /\ pc' = "owner" /\ pos' = pos + 1 /\ owners' = owners
        /\ Observe(pos, "NoWork") \/ UNCHANGED records
    BY <1>2 DEF SkipOwner
  <2>2. records[pos] = <<>> /\ pos \notin owners
    BY <1>0, <2>1 DEF Records, Unreached
  <2>3. /\ DOMAIN records' = Owners /\ records'[pos] \in Shut
        /\ \A q \in Owners \ {pos} : records'[q] = records[q]
    BY <1>0, <2>1, <2>2, Observed, Appended
  <2>4. \A q \in Owners : Unreached(q)' => Unreached(q) /\ q # pos
    BY <1>0, <2>1 DEF Unreached
  <2> QED
    BY <1>0, <2>1, <2>2, <2>3, <2>4 DEF Records
<1>3. CASE PushOwner
  <2>1. /\ pc = "created" /\ pc' = "enter" /\ UNCHANGED pos
        /\ owners' = owners \cup {pos} /\ Observe(pos, "Start")
    BY <1>3 DEF PushOwner
  <2>2. records[pos] = <<>> /\ pos \notin owners
    BY <1>0, <2>1 DEF Records, Unreached
  <2>3. /\ DOMAIN records' = Owners /\ records'[pos] = Started
        /\ \A q \in Owners \ {pos} : records'[q] = records[q]
    BY <1>0, <2>1, <2>2, Observed, Appended
  <2>4. \A q \in Owners : Unreached(q)' => Unreached(q) /\ q # pos
    BY <1>0, <2>1 DEF Unreached
  <2> QED
    BY <1>0, <2>1, <2>2, <2>3, <2>4 DEF Records
<1>4. CASE ObserveReady \/ ObserveFailure
  <2>1. /\ pc \in InHand \ {"created"} /\ pc' \in {"owner", "returned"}
        /\ pc' = "owner" => pos' = pos + 1
        /\ owners' = owners /\ \E v \in Verdicts : Observe(pos, v)
    BY <1>4 DEF ObserveReady, ObserveFailure, Fail, Return, Verdicts
  <2>2. records[pos] = Started /\ pos \in owners
    BY <1>0, <2>1 DEF Records
  <2>3. /\ DOMAIN records' = Owners /\ records'[pos] \in Open
        /\ \A q \in Owners \ {pos} : records'[q] = records[q]
    BY <1>0, <2>1, <2>2, Observed, Appended
  <2>4. \A q \in Owners : Unreached(q)' => Unreached(q) /\ q # pos
    BY <1>0, <2>1 DEF Unreached
  <2> QED
    BY <1>0, <2>1, <2>2, <2>3, <2>4 DEF Records
<1> QED
  BY <1>1, <1>2, <1>3, <1>4

LEMMA BodyRecords ==
  ASSUME Cursor, Records, Body
  PROVE  Records'
<1>1. CASE \/ LoopCancelled \/ SkipOwner \/ PushOwner \/ ObserveReady
           \/ ObserveFailure
  BY <1>1, LoudRecords
<1>2. CASE \/ Prepass \/ BeginLoop \/ CreateOwner \/ EnterPrepare
           \/ BeginPrepare \/ AbortPrepare \/ CancelAtPublication \/ PublishPlan
           \/ LeavePrepare \/ CheckCurrent \/ EndLoop \/ AllReadyGuard
           \/ AdmitLayers \/ JoinLayers \/ JoinTaps \/ PostPass \/ Capture
  <2>1. UNCHANGED <<owners, records>>
    BY <1>2 DEF Prepass, BeginLoop, CreateOwner, EnterPrepare, BeginPrepare,
                AbortPrepare, CancelAtPublication, PublishPlan, LeavePrepare,
                CheckCurrent, EndLoop, AllReadyGuard, AdmitLayers, JoinLayers,
                JoinTaps, PostPass, Capture, scopeVars
  <2> QED
    BY <1>2, <2>1, QuietRecords
<1> QED
  BY <1>1, <1>2 DEF Body

LEMMA TakeOwnersRecords ==
  ASSUME Cursor, Disposal, Records, Closing, NEW a \in {"run", "app"},
         TakeOwners(a)
  PROVE  Records'
<1>0. UNCHANGED <<pc, pos>> /\ owners' = {} /\ disposing[a] = "committed"
  BY DEF TakeOwners
<1>1. \A p \in Owners :
        records'[p] = IF p \in owners THEN Append(records[p], "Disposed")
                      ELSE records[p]
  BY DEF TakeOwners
<1>2. DOMAIN records' = Owners
  BY DEF TakeOwners
<1>3. pc \in Loop => pc = "owner" /\ owners = {}
  <2>1. "returned" \notin Loop
    BY DEF Loop, InHand, Guarded
  <2> QED
    BY <1>0, <2>1 DEF Closing, Disposal
<1>4. pc' \notin InHand
  BY <1>0, <1>3 DEF Loop, InHand, Guarded
<1>5. \A p \in Owners : Unreached(p)' <=> Unreached(p)
  BY <1>0 DEF Unreached
<1>6. \A p \in Owners : p \in owners => records[p] \in Open
  BY <1>0, <1>4 DEF Records
<1>7. \A p \in Owners : records'[p] \in Shut
  BY <1>1, <1>6, Appended DEF Records
<1> QED
  BY <1>0, <1>1, <1>2, <1>4, <1>5, <1>7 DEF Records

LEMMA RecordsStep ==
  ASSUME Cursor, Disposal, Records, Closing, [PrintNext]_printVars
  PROVE  Records'
<1>1. CASE UNCHANGED <<pc, pos, owners, records>>
  BY <1>1 DEF Records, Unreached
<1>2. CASE Disposes
  <2>1. UNCHANGED <<pc, pos>>
    BY <1>2, DisposalFrame
  <2>2. CASE TakeOwners("run") \/ TakeOwners("app")
    BY <2>2, TakeOwnersRecords
  <2>3. CASE ~TakeOwners("run") /\ ~TakeOwners("app")
    <3>1. UNCHANGED <<owners, records>>
      BY <1>2, <2>3 DEF Disposes, StartCleanup, CleanupBusy, TakeCommitted,
           AppLock, AppTail, AppDispose, AppBusy, DropOutlet, DisposeStore,
           scopeVars
    <3> QED
      BY <1>1, <2>1, <3>1
  <2> QED
    BY <2>2, <2>3
<1>3. CASE RequestCancel \/ UNCHANGED printVars \/ \E l \in Layers : Layer(l)
  <2>1. UNCHANGED <<pc, pos, owners, records>>
    BY <1>3, CancelFrame, LayerFrame DEF printVars, scopeVars
  <2> QED
    BY <2>1, <1>1
<1> QED
  BY <1>2, <1>3, BodyRecords, Steps

\* Before the owner loop there is no token.
LEMMA NoTokenYet ==
  ASSUME Records, pc \in {"prepass", "prepare"}
  PROVE  owners = {}
BY DEF Records, Unreached

LEMMA BodyClosing ==
  ASSUME Cursor, Records, Closing, Body
  PROVE  Closing'
<1>1. disposing' = disposing
  BY BodyFrame
<1>2. closed' = closed
  BY DEF Body, Prepass, BeginLoop, LoopCancelled, SkipOwner, CreateOwner,
         PushOwner, EnterPrepare, BeginPrepare, AbortPrepare,
         CancelAtPublication, PublishPlan, LeavePrepare, CheckCurrent,
         ObserveReady, ObserveFailure, EndLoop, AllReadyGuard, AdmitLayers,
         JoinLayers, JoinTaps, PostPass, Capture, authorityVars, ACreate,
         AEnter, ABegin, AAbort, APublish, ALeave, Move
<1>3. ASSUME disposing.app = "committed", pc' \in Loop
      PROVE  pc' = "owner" /\ owners' = {}
  <2>0. closed /\ (pc \in Loop => pc = "owner" /\ owners = {})
    BY <1>3 DEF Closing
  <2> USE DEF Loop, InHand, Guarded
  <2>1. CASE BeginLoop
    BY <2>1, NoTokenYet DEF BeginLoop
  <2>2. CASE SkipOwner
    BY <2>0, <2>2 DEF SkipOwner
  <2>3. CASE CreateOwner \/ LoopCancelled \/ EndLoop \/ Prepass
    BY <1>3, <2>0, <2>3 DEF CreateOwner, ACreate, LoopCancelled, EndLoop, Prepass,
                            Fail, Return
  <2>4. CASE \/ PushOwner \/ EnterPrepare \/ BeginPrepare \/ AbortPrepare
             \/ CancelAtPublication \/ PublishPlan \/ LeavePrepare
             \/ CheckCurrent \/ ObserveReady \/ ObserveFailure
    BY <2>0, <2>4 DEF PushOwner, EnterPrepare, BeginPrepare, AbortPrepare,
             CancelAtPublication, PublishPlan, LeavePrepare, CheckCurrent,
             ObserveReady, ObserveFailure
  <2>5. CASE \/ AllReadyGuard \/ AdmitLayers \/ JoinLayers \/ JoinTaps
             \/ PostPass \/ Capture
    <3>1. pc' \notin Loop
      BY <2>5, NextPhase DEF AllReadyGuard, AdmitLayers, JoinLayers,
                  JoinTaps, PostPass, Capture, Return
    <3> QED
      BY <1>3, <3>1
  <2> QED
    BY <2>1, <2>2, <2>3, <2>4, <2>5 DEF Body
<1> QED
  BY <1>1, <1>2, <1>3 DEF Closing

LEMMA ClosingStep ==
  ASSUME Cursor, Disposal, Records, Closing, [PrintNext]_printVars
  PROVE  Closing'
<1>1. CASE Disposes
  <2>0. UNCHANGED <<pc, locked>>
    BY <1>1, DisposalFrame
  <2>1. CASE StartCleanup \/ AppDispose
    BY <2>0, <2>1 DEF StartCleanup, AppDispose, DisposeStore, ADispose, Closing,
                      Disposal, scopeVars
  <2>2. CASE TakeCommitted("run") \/ TakeCommitted("app")
    <3>1. pc \notin Loop /\ closed' = closed
      BY <2>2 DEF TakeCommitted, Cursor, authorityVars
    <3> QED
      BY <2>0, <2>2, <3>1 DEF TakeCommitted, Closing, Disposal
  <2>3. CASE TakeOwners("run") \/ TakeOwners("app")
    BY <2>0, <2>3 DEF TakeOwners, Closing, Disposal, authorityVars
  <2>4. CASE CleanupBusy \/ AppLock \/ AppBusy \/ DropOutlet
    <3>1. UNCHANGED <<closed, owners>>
      BY <2>4 DEF CleanupBusy, AppLock, AppBusy, DropOutlet, authorityVars,
                  scopeVars
    <3>2. /\ disposing'.run \in {"store", "committed"} =>
               disposing.run \in {"store", "committed"}
          /\ disposing'.app \in {"store", "committed"} =>
               disposing'.app = disposing.app
      BY <2>4 DEF CleanupBusy, AppLock, AppBusy, DropOutlet, Disposal
    <3> QED
      BY <2>0, <3>1, <3>2 DEF Closing
  <2> QED
    BY <1>1, <2>1, <2>2, <2>3, <2>4 DEF Disposes, AppTail
<1>2. CASE RequestCancel \/ UNCHANGED printVars \/ \E l \in Layers : Layer(l)
  <2>1. UNCHANGED <<pc, owners, closed, disposing>>
    BY <1>2, CancelFrame, LayerFrame DEF printVars, scopeVars, authorityVars
  <2> QED
    BY <2>1 DEF Closing
<1> QED
  BY <1>1, <1>2, BodyClosing, Steps

\* Once the body has returned no call is under way: nothing refuses disposal.
LEMMA ReturnedIdle ==
  ASSUME Flow, Authority, pc = "returned"
  PROVE  \A p \in Owners : Idle(p)
<1> SUFFICES ASSUME NEW p \in Owners  PROVE Idle(p)
  OBVIOUS
<1>1. \A l \in Layers : layer[l].at # "consuming"
  BY DEF Flow, Active, Ended, Running
<1>2. Consumers(p) = {}
  BY <1>1 DEF Consumers
<1>3. Cardinality(Consumers(p)) = 0
  BY <1>2, FS_EmptySet
<1> QED
  BY <1>3 DEF Authority, Idle, Guarded

LEMMA RetentionStep ==
  ASSUME Disposal, Flow, Authority, Closing, Retention, [PrintNext]_printVars
  PROVE  Retention'
<1>1. CASE Body
  <2>1. disposing.run = "idle" /\ disposing' = disposing
    BY <1>1, BodyNotReturned, BodyFrame DEF Disposal
  <2> QED
    BY <2>1 DEF Retention
<1>2. CASE Disposes
  <2>1. CASE StartCleanup \/ TakeCommitted("run") \/ TakeOwners("run")
    BY <2>1 DEF StartCleanup, DisposeStore, TakeCommitted, TakeOwners,
                Retention, Closing, Disposal, authorityVars
  <2>2. CASE CleanupBusy
    <3>1. disposing.app = "holding"
      BY <2>2, ReturnedIdle DEF CleanupBusy, StoreFree
    <3> QED
      BY <2>2, <3>1 DEF CleanupBusy, Retention, Disposal
  <2>3. CASE AppLock \/ DropOutlet
    BY <2>3 DEF AppLock, DropOutlet, Retention, Disposal, scopeVars,
                authorityVars
  <2>4. CASE AppDispose
    BY <2>4 DEF AppDispose, DisposeStore, ADispose, Retention, Disposal,
                scopeVars
  <2>5. CASE AppBusy
    <3>1. disposing.run # "over"
      BY <2>5, ReturnedIdle DEF AppBusy, Disposal
    <3> QED
      BY <2>5, <3>1 DEF AppBusy, Retention, Disposal, scopeVars
  <2>6. CASE TakeCommitted("app") \/ TakeOwners("app")
    BY <2>6 DEF TakeCommitted, TakeOwners, Retention, Closing, Disposal,
                authorityVars
  <2> QED
    BY <1>2, <2>1, <2>2, <2>3, <2>4, <2>5, <2>6 DEF Disposes, AppTail
<1>3. CASE RequestCancel \/ UNCHANGED printVars \/ \E l \in Layers : Layer(l)
  <2>1. UNCHANGED <<owners, committed, closed, disposing>>
    BY <1>3, CancelFrame, LayerFrame DEF printVars, scopeVars, authorityVars
  <2> QED
    BY <2>1 DEF Retention
<1> QED
  BY <1>1, <1>2, <1>3, Steps

-----------------------------------------------------------------------------
(* Eligible owners *)

LEMMA InitPrepared == PrintInit => Prepared
<1> SUFFICES ASSUME PrintInit  PROVE Prepared
  OBVIOUS
<1>1. pc \notin Loop \cup {"prepare", "all_ready", "admit", "layers", "taps"}
  BY DEF PrintInit, Loop, InHand, Guarded
<1>2. \A l \in Layers, p \in Eligible : ran[l][p] = "no"
  BY PrintAssumption DEF PrintInit
<1> QED
  BY <1>1, <1>2 DEF Prepared

LEMMA BodyPrepared ==
  ASSUME Cursor, Prepared, Body
  PROVE  Prepared'
<1>0. UNCHANGED <<attempts, ran>>
  BY BodyFrame DEF layerVars
<1>1. CASE attempts # MaxDisposals
  BY <1>0, <1>1 DEF Prepared
<1> SUFFICES ASSUME attempts = MaxDisposals  PROVE Prepared'
  BY <1>1
<1>a. \A l \in Layers, p \in Eligible : ran[l][p] # "plain"
  BY DEF Prepared
<1> USE DEF Loop, InHand, Guarded
<1>2. CASE Prepass
  BY <1>0, <1>a, <1>2 DEF Prepass, Return, Prepared
<1>3. CASE BeginLoop
  BY <1>0, <1>a, <1>3 DEF BeginLoop, Prepared
<1>4. CASE \/ SkipOwner \/ PushOwner \/ EnterPrepare \/ BeginPrepare
           \/ AbortPrepare \/ CancelAtPublication \/ PublishPlan \/ LeavePrepare
           \/ CheckCurrent \/ ObserveReady
  <2>1. UNCHANGED <<committed, required>> /\ pc \in Loop /\ pc' \in Loop
    BY <1>4 DEF SkipOwner, PushOwner, EnterPrepare, BeginPrepare, AbortPrepare,
           CancelAtPublication, PublishPlan, LeavePrepare, CheckCurrent,
           ObserveReady, scopeVars
  <2> QED
    BY <1>0, <1>a, <2>1 DEF Prepared
<1>5. CASE CreateOwner
  <2>1. /\ UNCHANGED <<committed, required>> /\ pc \in Loop
        /\ pc' \in {"created", "returned"}
    BY <1>5 DEF CreateOwner, Fail, Return
  <2> QED
    BY <1>0, <1>a, <2>1 DEF Prepared
<1>6. CASE LoopCancelled \/ ObserveFailure
  <2>1. pc' = "returned"
    BY <1>6 DEF LoopCancelled, ObserveFailure, Fail, Return
  <2> QED
    BY <1>0, <1>a, <2>1 DEF Prepared
<1>7. CASE EndLoop
  BY <1>0, <1>a, <1>7 DEF EndLoop, Prepared
<1>8. CASE AllReadyGuard
  <2>1. CASE pc' = "returned"
    BY <1>0, <1>a, <2>1 DEF Prepared
  <2>2. CASE EnsureAllReady(required) /\ pc' = AfterPreparation
    <3>1. Eligible \subseteq owners /\ owners' = owners
      BY <1>8, <2>2 DEF AllReadyGuard, EnsureAllReady, Prepared, scopeVars
    <3> QED
      BY <1>0, <1>a, <2>2, <3>1, NextPhase DEF Prepared
  <2> QED
    BY <1>8, <2>1, <2>2 DEF AllReadyGuard, Return
<1>9. CASE AdmitLayers \/ JoinLayers \/ JoinTaps \/ PostPass \/ Capture
  <2>1. /\ UNCHANGED owners
        /\ pc' \in {"layers", "postpass", "capture", "returned"}
        /\ pc' = "layers" => pc = "admit"
    BY <1>9 DEF AdmitLayers, JoinLayers, JoinTaps, PostPass, Capture, Return,
                scopeVars
  <2> QED
    BY <1>0, <1>a, <2>1 DEF Prepared
<1> QED
  BY <1>2, <1>3, <1>4, <1>5, <1>6, <1>7, <1>8, <1>9 DEF Body

LEMMA LayerPrepared ==
  ASSUME Cursor, Flow, Output, Prepared, NEW l \in Layers, Layer(l)
  PROVE  Prepared'
<1>0. UNCHANGED <<attempts, pc, owners, committed, required>>
  BY LayerFrame DEF scopeVars
<1>1. CASE attempts # MaxDisposals
  BY <1>0, <1>1 DEF Prepared
<1>2. CASE attempts = MaxDisposals
  <2>1. Eligible \subseteq owners /\ Eligible \subseteq Declares
    BY <1>2, LayerMove, PrintAssumption DEF Prepared, Running
  <2>2. \A m \in Layers, p \in Eligible : ran[m][p] # "plain" /\ p \in Owners
    BY <1>2, PrintAssumption DEF Prepared
  <2>3. \A m \in Layers, p \in Eligible : ran'[m][p] # "plain"
    <3>1. CASE UNCHANGED ran
      BY <2>2, <3>1
    <3>2. ASSUME NEW how, Ran(l, how), layer[l].k \in Owners,
                 how = "plain" => layer[l].k \notin Declares \cap owners
          PROVE  \A m \in Layers, p \in Eligible : ran'[m][p] # "plain"
      <4>1. \A m \in Layers, p \in Owners :
              ran'[m][p] = IF m = l /\ p = layer[l].k THEN how ELSE ran[m][p]
        BY <3>2 DEF Ran, Output
      <4> QED
        BY <2>1, <2>2, <3>2, <4>1
    <3> QED
      BY <3>1, <3>2, LayerRan
  <2> QED
    BY <1>0, <2>3 DEF Prepared
<1> QED
  BY <1>1, <1>2

LEMMA PreparedStep ==
  ASSUME Cursor, Disposal, Flow, Output, Prepared, [PrintNext]_printVars
  PROVE  Prepared'
<1>1. CASE Disposes
  <2>0. UNCHANGED <<pc, required, ran>>
    BY <1>1, DisposalFrame DEF layerVars
  <2>1. CASE pc = "returned"
    BY <1>1, <2>0, <2>1
    DEF Prepared, Disposes, StartCleanup, CleanupBusy, TakeCommitted,
        TakeOwners, AppLock, AppTail, AppDispose, AppBusy, DropOutlet,
        DisposeStore, Disposal, Loop, InHand, Guarded
  <2>2. CASE pc # "returned"
    <3>1. disposing.run = "idle"
      BY <2>2 DEF Disposal
    <3>2. CASE AppLock
      BY <3>2, PrintAssumption DEF AppLock, Disposal, Prepared
    <3>3. CASE AppTail
      <4>1. attempts' # MaxDisposals
        BY <3>3 DEF AppTail, AppDispose, AppBusy, DisposeStore, TakeCommitted,
                    TakeOwners, Disposal
      <4> QED
        BY <4>1 DEF Prepared
    <3> QED
      BY <1>1, <2>2, <3>1, <3>2, <3>3
      DEF Disposes, StartCleanup, CleanupBusy, TakeCommitted, TakeOwners,
          DropOutlet
  <2> QED
    BY <2>1, <2>2
<1>2. CASE RequestCancel \/ UNCHANGED printVars
  <2>1. UNCHANGED <<attempts, pc, owners, committed, required, ran>>
    BY <1>2, CancelFrame DEF printVars, scopeVars, layerVars
  <2> QED
    BY <2>1 DEF Prepared
<1> QED
  BY <1>1, <1>2, BodyPrepared, LayerPrepared, Steps

-----------------------------------------------------------------------------
(* The whole invariant *)

LEMMA PrintInvInit == PrintInit => PrintInv
BY InitCursor, InitFlow, InitAuthority, InitOutput, InitRecords, InitPrepared
DEF PrintInv

LEMMA PrintInvStep == PrintInv /\ [PrintNext]_printVars => PrintInv'
BY CursorStep, DisposalStep, FlowStep, AuthorityStep, OutputStep, RecordsStep,
   ClosingStep, RetentionStep, PreparedStep
DEF PrintInv

\* The print's inductive invariant holds for every selection of modules,
\* every set of layers and any number of disposals by the application.
THEOREM PrintInvariant == PrintSpec => []PrintInv
BY PrintInvInit, PrintInvStep, PTL DEF PrintSpec

\* A module call that consumes a plan always runs on a ready owner, whoever
\* disposes what in between (run_prepared_stage_with_failure against dispose).
THEOREM PrintConsumesReady == PrintSpec => []ConsumesReady
<1>1. PrintInv => ConsumesReady
  BY DEF PrintInv, Authority, ConsumesReady
<1> QED
  BY <1>1, PrintInvariant, PTL

\* G-code is only returned when every layer ran every selected module, however
\* late the cancellation came (the checkpoint before PostPass).
THEOREM PrintNoPartialGcode == PrintSpec => []NoPartialGcode
<1>1. PrintInv => NoPartialGcode
  BY DEF PrintInv, Output, NoPartialGcode, Allowed
<1> QED
  BY <1>1, PrintInvariant, PTL

\* The records of an owner are a prefix of Start, verdict, Disposed, although
\* the application disposes on another thread: the committed lock keeps
\* mem::take(owners) out of the owner loop.
THEOREM PrintLifecycleRecords == PrintSpec => []LifecycleRecords
<1>1. PrintInv => LifecycleRecords
  BY Zenon DEF PrintInv, Records, LifecycleRecords, Open, Shut, Started, Verdicts
<1> QED
  BY <1>1, PrintInvariant, PTL

\* After the run's disposal no owner, token or committed input is retained,
\* even if the run lost the race with the application's own dispose.
THEOREM PrintNothingRetained == PrintSpec => []NothingRetained
<1>1. PrintInv => NothingRetained
  BY DEF PrintInv, Retention, Authority, NothingRetained
<1> QED
  BY <1>1, PrintInvariant, PTL

\* A module with an eligible owner never runs its plain export unless the
\* application disposed the scope under the print (the all-ready guard).
THEOREM PrintEligibleRunsPrepared == PrintSpec => []EligibleRunsPrepared
<1>1. PrintInv => EligibleRunsPrepared
  BY DEF PrintInv, Prepared, EligibleRunsPrepared
<1> QED
  BY <1>1, PrintInvariant, PTL
=============================================================================
