------------------------------- MODULE PrePass -------------------------------
(***************************************************************************)
(* The PrePass tier: the host's built-in stages, the stages of the plan    *)
(* that have modules, and the blackboard both write.  Stages run one after *)
(* another: mesh analysis, the plan's stages that do not need the region   *)
(* map, the built-ins from region mapping to support geometry, and then    *)
(* the plan's stages that need it.                                         *)
(*                                                                         *)
(* A committed product is abstracted to its lineage, the sequence of       *)
(* writers that made it what it is, with the lineages of everything on the *)
(* blackboard when it was last written.                                    *)
(***************************************************************************)
EXTENDS Naturals, Sequences, FiniteSets, SequencesExt

CONSTANT ModuleOrder   \* the modules, in the order of the plan

Module == ToSet(ModuleOrder)

Slot == {"SurfaceClassification", "LayerPlan", "RegionMap", "SliceIR",
         "SupportAnalysis", "SupportGeometry", "SeamPlan", "SupportPlan"}

\* The prepass part of STAGE_ORDER.
StageOrder == <<"MeshAnalysis", "LayerPlanning", "SeamPlanning",
                "PaintSegmentation", "RegionMapping", "Slice",
                "OverhangAnnotation", "ShellClassification",
                "SupportAnalysis", "SupportGeometry">>

Stage == ToSet(StageOrder)

Aggregation == "support_plan_aggregation"

ASSUME ModuleOrderAssumption == /\ IsInjective(ModuleOrder)
                                /\ Module \cap (Stage \cup {Aggregation}) = {}

VARIABLES
  stageOf,   \* the stage each module is planned for, or "none"
  at,        \* the step of Script to be run next
  open,      \* the plan stage being run, or "none"
  left,      \* its modules still to run
  plans,     \* the support plans collected in it: their producers
  slots,     \* the blackboard: the lineage of each slot, <<>> if empty
  basis,     \* the blackboard each slot's last write was computed from
  audits,    \* the audits recorded: [module, wrote]
  events,    \* the instrumentation callbacks
  outcome    \* "running", "ok", or the error

vars == <<stageOf, at, open, left, plans, slots, basis, audits, events,
          outcome>>

Empty == [s \in Slot |-> <<>>]

Present(s) == slots[s] # <<>>

-----------------------------------------------------------------------------

\* What a stage with modules needs on the blackboard before it may start.
RequiredSlots(stage) ==
  CASE stage = "LayerPlanning" -> {"SurfaceClassification"}
    [] stage = "OverhangAnnotation" -> {"SurfaceClassification", "LayerPlan"}
    [] stage = "SeamPlanning" -> {"LayerPlan", "SliceIR", "RegionMap"}
    [] stage = "SupportGeometry" ->
         {"SurfaceClassification", "LayerPlan", "RegionMap", "SliceIR",
          "SupportGeometry"}
    [] stage = "SupportAnalysis" -> {"SliceIR"}
    [] stage = "RegionMapping" -> {"LayerPlan"}
    [] stage = "Slice" -> {"SurfaceClassification", "LayerPlan", "RegionMap"}
    [] stage = "ShellClassification" ->
         {"SurfaceClassification", "LayerPlan", "RegionMap", "SliceIR"}
    [] OTHER -> {}

RequiresRegionMap(stage) == "RegionMap" \in RequiredSlots(stage)

\* Mutant: support analysis runs where the declared order has it, before the
\* slices are split by paint.
MiddleBuiltinsEarlySupport ==
  <<"RegionMapping", "Slice", "OverhangAnnotation", "ShellClassification",
    "SupportAnalysis", "PaintSegmentation", "SupportGeometry">>

\* Mutant: the slices are made before the region map.
MiddleBuiltinsSliceFirst ==
  <<"Slice", "RegionMapping", "OverhangAnnotation", "ShellClassification",
    "PaintSegmentation", "SupportAnalysis", "SupportGeometry">>

\* The built-ins that follow the early stages of the plan, in the order in
\* which they run.
MiddleBuiltins == <<"RegionMapping", "Slice", "OverhangAnnotation",
                    "ShellClassification", "PaintSegmentation",
                    "SupportAnalysis", "SupportGeometry">>

\* What a built-in commits once, and is skipped for when it is there.
Produces(b) ==
  CASE b = "MeshAnalysis"    -> {"SurfaceClassification"}
    [] b = "RegionMapping"   -> {"RegionMap"}
    [] b = "Slice"           -> {"SliceIR"}
    [] b = "SupportAnalysis" -> {"SupportAnalysis"}
    [] b = "SupportGeometry" -> {"SupportGeometry"}
    [] OTHER                 -> {}

\* What a built-in replaces with a refined copy.
Refines(b) ==
  CASE b = "RegionMapping"       -> {"LayerPlan"}
    [] b = "OverhangAnnotation"  -> {"SurfaceClassification"}
    [] b = "ShellClassification" -> {"SliceIR"}
    [] b = "PaintSegmentation"   -> {"LayerPlan", "SliceIR"}
    [] OTHER                     -> {}

\* What a built-in's guard wants to be there.
Wants(b) ==
  CASE b = "RegionMapping"       -> {"LayerPlan"}
    [] b = "Slice"               -> {"LayerPlan", "RegionMap"}
    [] b = "OverhangAnnotation"  ->
         {"SliceIR", "LayerPlan", "SurfaceClassification"}
    [] b = "ShellClassification" -> {"SliceIR", "RegionMap"}
    [] b = "PaintSegmentation"   -> {"SliceIR", "RegionMap"}
    [] b = "SupportAnalysis"     -> {"SliceIR"}
    [] b = "SupportGeometry"     -> {"LayerPlan", "SliceIR"}
    [] OTHER                     -> {}

ShouldRun(b) == /\ \A s \in Wants(b) : Present(s)
                /\ \A s \in Produces(b) : ~Present(s)

-----------------------------------------------------------------------------

ModulesAt(stage) == {m \in Module : stageOf[m] = stage}

\* The module that runs first of a set: the plan's order is kept.
IsFirst(m, M) ==
  \E i \in DOMAIN ModuleOrder :
    /\ ModuleOrder[i] = m
    /\ \A j \in 1 .. i - 1 : ModuleOrder[j] \notin M

\* The two loops over the plan, each after the built-ins it follows: the ten
\* stages, the seven built-ins of the middle, and the ten stages again.
Script ==
  [i \in 1 .. 28 |->
     CASE i = 1         -> [kind |-> "builtin", id |-> "MeshAnalysis"]
       [] i \in 2 .. 11  -> [kind |-> "early", id |-> StageOrder[i - 1]]
       [] i \in 12 .. 18 -> [kind |-> "builtin", id |-> MiddleBuiltins[i - 11]]
       [] i \in 19 .. 28 -> [kind |-> "late", id |-> StageOrder[i - 18]]]

\* A loop runs a stage when the plan has modules for it and the stage is on
\* the loop's side of the region map.
Takes(step) ==
  /\ step.kind # "builtin"
  /\ ModulesAt(step.id) # {}
  /\ RequiresRegionMap(step.id) <=> step.kind = "late"

Init == /\ stageOf \in [Module -> Stage \cup {"none"}]
        /\ at = 1
        /\ open = "none"
        /\ left = {}
        /\ plans = <<>>
        /\ slots = Empty
        /\ basis = [s \in Slot |-> Empty]
        /\ audits = <<>>
        /\ events = <<>>
        /\ outcome = "running"

-----------------------------------------------------------------------------
(* The callbacks of the instrumentation.                                   *)

Event(kind, stage, module) == [kind |-> kind, stage |-> stage, of |-> module]

StageStart(s)     == <<Event("stage_start", s, "none")>>
StageEnd(s)       == <<Event("stage_end", s, "none")>>
ModuleStart(s, m) == <<Event("module_start", s, m)>>
ModuleEnd(s, m)   == <<Event("module_end", s, m)>>
ModuleError(s, m) == <<Event("module_error", s, m)>>

\* Mutant: the guard has no Drop.
GuardedNoDrop(log, b, ok) ==
  log \o StageStart(b) \o ModuleStart(b, b)
    \o (IF ok THEN ModuleEnd(b, b) \o StageEnd(b) ELSE <<>>)

\* The guard around a built-in emits the same brackets whether the built-in
\* returns or fails: finish on one path, Drop on the other.
Guarded(log, b, ok) == log \o StageStart(b) \o ModuleStart(b, b)
                           \o ModuleEnd(b, b) \o StageEnd(b)

-----------------------------------------------------------------------------
(* Writes of the blackboard.                                               *)

Write(W, w) ==
  /\ slots' = [s \in Slot |-> IF s \in W THEN Append(slots[s], w)
                              ELSE slots[s]]
  /\ basis' = [s \in Slot |-> IF s \in W THEN slots ELSE basis[s]]

NoWrite == UNCHANGED <<slots, basis>>

\* commit_prepass refuses a second value.
Committable(s) == ~Present(s)

Fail(e) == outcome' = e

-----------------------------------------------------------------------------

\* The tier is between two steps, and the next one is step.
AtStep(step) == /\ outcome = "running"
                /\ open = "none"
                /\ at \in DOMAIN Script
                /\ step = Script[at]
                /\ at' = at + 1

\* run_builtin_stage.  The work of the built-in may fail: then nothing is
\* written, since each built-in commits as its last act.
RunBuiltin(step, ok) ==
  LET b == step.id IN
  /\ AtStep(step)
  /\ step.kind = "builtin"
  /\ \/ /\ ~ShouldRun(b)
        /\ ok
        /\ NoWrite
        /\ UNCHANGED <<events, outcome>>
     \/ /\ ShouldRun(b)
        /\ events' = Guarded(events, b, ok)
        /\ \/ ok  /\ Write(Produces(b) \cup Refines(b), b)
                  /\ UNCHANGED outcome
           \/ ~ok /\ NoWrite
                  /\ Fail("builtin")
  /\ UNCHANGED <<stageOf, open, left, plans, audits>>

\* A stage that the loop's filter leaves out.
PassOver(step) ==
  /\ AtStep(step)
  /\ step.kind # "builtin"
  /\ ~Takes(step)
  /\ UNCHANGED <<stageOf, open, left, plans, slots, basis, audits, events,
                 outcome>>

\* ensure_stage_prerequisites, and on_stage_start.
EnterStage(step) ==
  LET s == step.id IN
  /\ AtStep(step)
  /\ Takes(step)
  /\ \/ /\ \A r \in RequiredSlots(s) : Present(r)
        /\ open' = s
        /\ left' = ModulesAt(s)
        /\ events' = events \o StageStart(s)
        /\ UNCHANGED outcome
     \/ /\ \E r \in RequiredSlots(s) : ~Present(r)
        /\ Fail("missing_prerequisite")
        /\ UNCHANGED <<open, left, events>>
  /\ UNCHANGED <<stageOf, plans, slots, basis, audits>>

\* The slot that the output of a stage's module is for; the dispatcher
\* decides it by the stage.  "none" is no output, and "unknown" is a stage
\* the dispatcher has no export for.
OutputOf(s) ==
  CASE s = "LayerPlanning"   -> "LayerPlan"
    [] s = "SeamPlanning"    -> "SeamPlan"
    [] s = "SupportGeometry" -> "SupportPlan"
    [] s = "MeshAnalysis"    -> "none"
    [] OTHER                 -> "unknown"

\* One module of the open stage.  "ok": it returns; "fail": it does not;
\* "bad": it returns a seam plan that names a region twice.
RunModule(m, result, reads) ==
  LET s == open
      out == OutputOf(s)
      collected == out = "SupportPlan"
      committed == out \in Slot /\ ~collected
      refused == committed /\ (~Committable(out) \/ result = "bad") IN
  /\ outcome = "running"
  /\ open # "none"
  /\ m \in left
  /\ IsFirst(m, left)
  /\ result = "bad" => out = "SeamPlan"
  /\ out = "unknown" => result = "fail"
  /\ result # "ok" => ~reads
  /\ IF result = "fail" \/ refused
     THEN /\ events' = events \o ModuleStart(s, m) \o ModuleEnd(s, m)
                         \o ModuleError(s, m) \o StageEnd(s)
          /\ Fail(IF result = "fail" THEN "module" ELSE "commit")
          /\ open' = "none"
          /\ NoWrite
          /\ UNCHANGED <<plans, audits>>
     ELSE /\ events' = events \o ModuleStart(s, m) \o ModuleEnd(s, m)
          /\ plans' = IF collected THEN Append(plans, m) ELSE plans
          /\ IF committed THEN Write({out}, m) ELSE NoWrite
          /\ audits' = IF out \in Slot \/ reads
                       THEN Append(audits, [module |-> m, wrote |-> out])
                       ELSE audits
          /\ UNCHANGED <<open, outcome>>
  /\ left' = left \ {m}
  /\ UNCHANGED <<stageOf, at>>

\* Mutant: the stage ends without committing what it collected.
CloseStageDropping(twice) ==
  /\ outcome = "running"
  /\ open # "none"
  /\ left = {}
  /\ ~twice
  /\ plans' = <<>>
  /\ events' = events \o StageEnd(open)
  /\ open' = "none"
  /\ UNCHANGED <<stageOf, at, left, slots, basis, audits, outcome>>

\* The end of a stage: the support plans collected in it are aggregated and
\* committed once; a plan that names a region twice is refused.
CloseStage(twice) ==
  /\ outcome = "running"
  /\ open # "none"
  /\ left = {}
  /\ twice => plans # <<>>
  /\ IF plans # <<>> /\ ~twice
     THEN Write({"SupportPlan"}, Aggregation)
     ELSE NoWrite
  /\ IF twice THEN Fail("commit") ELSE UNCHANGED outcome
  /\ plans' = <<>>
  /\ events' = events \o StageEnd(open)
  /\ open' = "none"
  /\ UNCHANGED <<stageOf, at, left, audits>>

Finish ==
  /\ outcome = "running"
  /\ open = "none"
  /\ at = Len(Script) + 1
  /\ outcome' = "ok"
  /\ UNCHANGED <<stageOf, at, open, left, plans, slots, basis,
                 audits, events>>

Done == outcome # "running" /\ UNCHANGED vars

Step == ToSet(Script)

Next == \/ \E step \in Step, ok \in BOOLEAN : RunBuiltin(step, ok)
        \/ \E step \in Step : PassOver(step) \/ EnterStage(step)
        \/ \E m \in Module, r \in {"ok", "bad", "fail"}, reads \in BOOLEAN :
             RunModule(m, r, reads)
        \/ \E twice \in BOOLEAN : CloseStage(twice)
        \/ Finish
        \/ Done

Spec == Init /\ [][Next]_vars

-----------------------------------------------------------------------------
(* Properties.                                                             *)

\* The lineage of the slices that reach the layer tier.
FinalSlices == <<"Slice", "ShellClassification", "PaintSegmentation">>

\* What is planned from the slices is planned from the slices that are
\* printed: support analysis, support geometry, seams and support plans are
\* computed after the last stage that replaces the slices or the layer plan,
\* although the built-ins do not run in the declared order of the stages.
PlannedFromFinal ==
  outcome = "ok" =>
    \A p \in {"SupportAnalysis", "SupportGeometry", "SeamPlan",
              "SupportPlan"} :
      Present(p) => /\ basis[p]["SliceIR"] = FinalSlices
                    /\ basis[p]["LayerPlan"] = slots["LayerPlan"]

\* A prepass that succeeds leaves the host's products all there or, when no
\* module planned the layers, all but the surface classification missing:
\* no guard of one built-in quietly skips it after another one ran.
HostChainWhole ==
  outcome = "ok" =>
    LET host == {"RegionMap", "SliceIR", "SupportAnalysis",
                 "SupportGeometry"} IN
    /\ Present("SurfaceClassification")
    /\ \A p \in host : Present(p) <=> Present("LayerPlan")
    /\ Present("LayerPlan") => slots["SliceIR"] = FinalSlices

\* A prepass that succeeds ran every module of the plan, and what the modules
\* produced is on the blackboard: a support planner's plan in the aggregate,
\* any other output in its slot, each with an audit that says so.
NoOutputLost ==
  outcome = "ok" =>
    \A m \in Module :
      LET out == OutputOf(stageOf[m]) IN
      stageOf[m] # "none" =>
        /\ \E i \in DOMAIN events : /\ events[i].kind = "module_end"
                                    /\ events[i].of = m
        /\ out = "SupportPlan" => slots[out] = <<Aggregation>>
        /\ out \in Slot \ {"SupportPlan"} => slots[out][1] = m
        /\ out \in Slot =>
             [module |-> m, wrote |-> out] \in ToSet(audits)

\* A stage's bracket is open after the first n callbacks: of the stage
\* callbacks among them, the last one starts the stage.
OpenAfter(log, n, stage) ==
  \E i \in 1 .. n :
    /\ log[i] = Event("stage_start", stage, "none")
    /\ \A j \in i + 1 .. n : log[j].kind \notin {"stage_start", "stage_end"}

\* A callback is in its place: a stage starts when no stage is open, ends when
\* it is the one that is open, and a module of it starts and ends inside it,
\* with nothing between the two.
InPlace(log, k) ==
  LET e == log[k] IN
  /\ e.kind = "stage_start" => \A s \in Stage : ~OpenAfter(log, k - 1, s)
  /\ e.kind # "stage_start" => OpenAfter(log, k - 1, e.stage)
  /\ e.kind = "module_start" =>
       /\ k + 1 \in DOMAIN log
       /\ log[k + 1] = Event("module_end", e.stage, e.of)
  /\ e.kind = "module_end" =>
       /\ k - 1 \in DOMAIN log
       /\ log[k - 1] = Event("module_start", e.stage, e.of)

\* Every bracket the tier opens is closed, in order, on every path: when it
\* succeeds, when a built-in or a module fails and when a commit is refused.
\* While it runs, the one open bracket is that of the plan stage.
BracketsBalanced ==
  /\ \A k \in DOMAIN events : InPlace(events, k)
  /\ \A s \in Stage : OpenAfter(events, Len(events), s) <=> open = s

=============================================================================
