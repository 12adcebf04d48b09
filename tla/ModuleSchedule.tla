---------------------------- MODULE ModuleSchedule ----------------------------
(***************************************************************************)
(* From the manifests found on disk to the execution plan of one run:      *)
(*                                                                         *)
(*   discovery    load_modules_from_roots_with_integrated (manifest.rs)    *)
(*   dedup        dedup_same_claim_modules_typed (execution_plan.rs)       *)
(*   in-stage     build_intra_stage_dag and topological_sort, one sort per *)
(*   order        non-empty stage of STAGE_ORDER (execution_plan_live.rs)  *)
(*   bindings     one per kept module (execution_plan_live.rs)             *)
(*   validation   validate_startup_dag and what run.rs makes of it         *)
(*   plan         build_execution_plan (execution_plan.rs)                 *)
(*                                                                         *)
(* The program is sequential here; what varies is its input, the sequence  *)
(* `pending` of manifests in search order, and the wall generator the      *)
(* configuration selects.  A module id is the rank of its string.          *)
(***************************************************************************)
EXTENDS TopologicalSort, FiniteSetsExt

CONSTANTS
    Inputs,         \* <<what a search finds, the generator preferred>>
    Builtins        \* the host's producers (runtime_builtins)

\* A search finds finitely many manifests; a known id names a module.
ASSUME InputAssumption ==
    \A input \in Inputs :
        /\ input[1] \in Seq(Range(input[1]))
        /\ \A m \in Range(input[1]) : m.id \in ModuleId

VARIABLES
    phase,          \* where load, validation and planning stand
    pending,        \* manifests not yet ingested, in search order
    modules,        \* report.modules: what discovery accepted
    preferred,      \* the perimeter generator the configuration prefers
    kept,           \* the modules left after claim dedup
    position,       \* stages of STAGE_ORDER already walked
    sortedStages,   \* sorted_stages
    report,         \* the errors of the DagValidationReport
    placed,         \* sorted_stages already placed in a tier
    tiers,          \* prepass_stages, per_layer_stages, postpass_stages
                    \* and layer_finalization_stage
    plan,           \* the stages of the ExecutionPlan, in the order they run
    error           \* why the run ended, "" while it has not

tierVars == <<placed, tiers>>
vars == <<phase, pending, modules, preferred, kept, position, sortedStages,
          report, tierVars, plan, error, sortVars>>

-----------------------------------------------------------------------------
(* Stages and claims                                                        *)

PrePassStages == <<"MeshAnalysis", "LayerPlanning", "SeamPlanning",
    "PaintSegmentation", "RegionMapping", "Slice", "OverhangAnnotation",
    "ShellClassification", "SupportAnalysis", "SupportGeometry">>
LayerStages == <<"PaintRegionAnnotation", "SlicePostProcess", "Perimeters",
    "PerimetersPostProcess", "Infill", "InfillPostProcess", "Support",
    "SupportPostProcess", "AnchoredEvents", "PathOptimization">>
FinalizationStage == "LayerFinalization"
PostPassStages ==
    <<FinalizationStage, "GCodeEmit", "GCodePostProcess", "TextPostProcess">>

STAGE_ORDER == PrePassStages \o LayerStages \o PostPassStages

\* A manifest of an unknown stage is broken: ingestion refuses it.
ASSUME StageAssumption ==
    \A input \in Inputs : \A m \in Range(input[1]) :
        m.broken \/ m.stage \in Range(STAGE_ORDER)

\* stage_order_index.
StageIndex(s) == CHOOSE i \in DOMAIN STAGE_ORDER : STAGE_ORDER[i] = s

FILL_CLAIM_IDS == {"top-fill", "bottom-fill", "bridge-fill", "sparse-fill"}
PERIMETER_GENERATOR_CLAIM == "perimeter-generator"
SUPPORT_GENERATOR_CLAIM == "support-generator"
SUPPORT_PLANNER_CLAIM == "support-planner"
FamilyClaims == {"support-family:traditional", "support-family:tree"}
FAMILY_SCOPED_SUPPORT_CLAIMS ==
    {SUPPORT_GENERATOR_CLAIM, SUPPORT_PLANNER_CLAIM} \cup FamilyClaims

Ids(M) == {m.id : m \in M}
AtStage(M, s) == {m \in M : m.stage = s}

-----------------------------------------------------------------------------
(* Discovery                                                                *)

Fail(why) == phase' = "failed" /\ error' = why

\* A manifest that cannot be ingested (no .wasm beside it, malformed, an
\* unknown stage) ends the load with an error.
IngestBroken ==
    /\ phase = "discover"
    /\ pending # <<>>
    /\ Head(pending).broken
    /\ Fail("load")
    /\ UNCHANGED <<pending, modules, preferred, kept, position, sortedStages,
                   report, tierVars, plan, sortVars>>

\* The first root that provides an id wins; a later one is a diagnostic.
Ingest(m) == IF m.id \in Ids(modules) THEN modules ELSE modules \cup {m}

IngestManifest ==
    /\ phase = "discover"
    /\ pending # <<>>
    /\ ~ Head(pending).broken
    /\ modules' = Ingest(Head(pending))
    /\ pending' = Tail(pending)
    /\ UNCHANGED <<phase, preferred, kept, position, sortedStages, report,
                   tierVars, plan, error, sortVars>>

-----------------------------------------------------------------------------
(* Claim dedup                                                              *)

\* The candidates of a (stage, claim); fill roles and support families have
\* none, they are resolved per region at dispatch.
Candidates(M, s, c) ==
    IF c \in FILL_CLAIM_IDS \cup FamilyClaims
    THEN {}
    ELSE {m.id : m \in {x \in AtStage(M, s) : c \in x.claims}}

FamilyScoped(M) == {m.id : m \in {x \in M : x.claims \cap FamilyClaims # {}}}

\* The ids among which a winner is looked for.
Contested(M, s, c) ==
    IF c = SUPPORT_PLANNER_CLAIM
    THEN Candidates(M, s, c) \ FamilyScoped(M)
    ELSE Candidates(M, s, c)

\* Pass 2: the winner of a contested claim, as a set of at most one id.
Winner(M, s, c) ==
    CASE \/ Cardinality(Contested(M, s, c)) < 2
         \/ c = SUPPORT_GENERATOR_CLAIM -> {}
      [] /\ Cardinality(Contested(M, s, c)) >= 2
         /\ c = PERIMETER_GENERATOR_CLAIM
         /\ preferred \in Contested(M, s, c) -> {preferred}
      [] OTHER -> {Min(Contested(M, s, c))}

\* Pass 3: m loses a claim that another candidate won.
Loses(M, m, c) ==
    /\ c \notin FILL_CLAIM_IDS \cup {SUPPORT_GENERATOR_CLAIM}
    /\ ~ (c = SUPPORT_PLANNER_CLAIM /\ m.id \in FamilyScoped(M))
    /\ Winner(M, m.stage, c) \notin {{}, {m.id}}

\* Mutant: only a module's first claim is looked at.
SurvivorsLoose(M) ==
    {m \in M : m.claims = {} \/ \E c \in m.claims : ~ Loses(M, m, c)}

\* A module is dropped as a whole for one lost claim.
Survivors(M) == {m \in M : \A c \in m.claims : ~ Loses(M, m, c)}

DedupClaims ==
    /\ phase = "discover"
    /\ pending = <<>>
    /\ kept' = Survivors(modules)
    /\ phase' = "sort"
    /\ UNCHANGED <<pending, modules, preferred, position, sortedStages,
                   report, tierVars, plan, error, sortVars>>

-----------------------------------------------------------------------------
(* The in-stage graphs and their order                                      *)

\* build_intra_stage_dag: a writer before its readers, a required module
\* before the one that requires it.
StageEdges(P, s) ==
    LET A == AtStage(P, s)
        reads(a, b) == a.id # b.id /\ a.writes \cap b.reads # {}
        requires(a, b) == a.id \in b.requires
    IN  {<<p[1].id, p[2].id>> : p \in
            {q \in A \X A : reads(q[1], q[2]) \/ requires(q[1], q[2])}}

\* The next stage of STAGE_ORDER that has a module; empty ones are skipped.
NextStages ==
    {i \in (position + 1) .. Len(STAGE_ORDER) :
        AtStage(kept, STAGE_ORDER[i]) # {}}

BeginStage ==
    /\ phase = "sort"
    /\ outcome = "idle"
    /\ NextStages # {}
    /\ position' = Min(NextStages)
    /\ LET s == STAGE_ORDER[Min(NextStages)]
       IN  StartSort(Ids(AtStage(kept, s)), StageEdges(kept, s))
    /\ UNCHANGED <<phase, pending, modules, preferred, kept, sortedStages,
                   report, tierVars, plan, error>>

SortStep ==
    /\ phase = "sort"
    /\ PopReady \/ FinishSort
    /\ UNCHANGED <<phase, pending, modules, preferred, kept, position,
                   sortedStages, report, tierVars, plan, error>>

\* topological_sort returned Ok: the stage joins sorted_stages.
StageSorted ==
    /\ phase = "sort"
    /\ outcome = "ok"
    /\ sortedStages' = Append(sortedStages,
            [stage |-> STAGE_ORDER[position], ids |-> sorted])
    /\ outcome' = "idle"
    /\ UNCHANGED <<phase, pending, modules, preferred, kept, position, report,
                   tierVars, plan, error, nodes, edges, degree, ready, sorted>>

\* It returned Err: LiveModuleLoadError::Cycle.
StageCyclic ==
    /\ phase = "sort"
    /\ outcome = "cycle"
    /\ Fail("cycle")
    /\ UNCHANGED <<pending, modules, preferred, kept, position, sortedStages,
                   report, tierVars, plan, sortVars>>

\* Every module's component is compiled, or its native entry looked up; one
\* that has neither ends the load.
BindModules ==
    /\ phase = "sort"
    /\ outcome = "idle"
    /\ NextStages = {}
    /\ \/ /\ \A m \in kept : m.loads
          /\ phase' = "validate"
          /\ UNCHANGED error
       \/ /\ \E m \in kept : ~ m.loads
          /\ Fail("component")
    /\ UNCHANGED <<pending, modules, preferred, kept, position, sortedStages,
                   report, tierVars, plan, sortVars>>

-----------------------------------------------------------------------------
(* The startup validation                                                   *)

SortedStageSet == {sortedStages[i].stage : i \in DOMAIN sortedStages}

\* The producers of the validator's stage graphs: host built-ins and modules,
\* but only at the stages some module was loaded for.
Producers == {p \in Builtins \cup kept : p.stage \in SortedStageSet}

Writers(f) == {p \in Producers : f \in p.writes}
Reaches(s, a, b) ==
    /\ a \in Ids(AtStage(Producers, s))
    /\ b \in ReachIn(Ids(AtStage(Producers, s)), StageEdges(Producers, s), a)

\* An earlier stage's producer, or one of this stage with a path, upstream.
RunsUpstream(a, b) ==
    \/ StageIndex(a.stage) < StageIndex(b.stage)
    \/ a.stage = b.stage /\ Reaches(a.stage, a.id, b.id)

ClaimErrors ==
    {[pass |-> "claim", of |-> t[1].id, on |-> t[3]] : t \in
        {u \in kept \X kept \X UNION {m.claims : m \in kept} :
            /\ u[1].id < u[2].id
            /\ u[3] \in u[1].claims \cap u[2].claims
            /\ u[3] \notin FILL_CLAIM_IDS \cup FAMILY_SCOPED_SUPPORT_CLAIMS}}
    \cup {[pass |-> "claim", of |-> 0, on |-> c] :
            c \in {f \in FILL_CLAIM_IDS : \A m \in kept : f \notin m.claims}}

IncompatibleErrors ==
    {[pass |-> "incompatible", of |-> m.id, on |-> ""] :
        m \in {x \in kept : x.incompatible \cap Ids(kept) # {}}}

MissingErrors ==
    {[pass |-> "missing", of |-> m.id, on |-> ""] :
        m \in {x \in kept :
            \/ ~ (x.requires \subseteq Ids(kept))
            \/ ~ (x.needs \subseteq UNION {y.claims : y \in kept})}}

VersionErrors ==
    {[pass |-> "version", of |-> m.id, on |-> ""] :
        m \in {x \in kept : ~ x.compatible}}

\* The validator's own Kahn sort keeps a FIFO queue; what it cannot visit is
\* what survives removing the sources of the graph again and again.
Unvisited(N, E) ==
    LET left[k \in Nat] ==
            IF k = 0 THEN N
            ELSE LET S == left[k - 1]
                 IN  {n \in S : \E m \in S : <<m, n>> \in E}
    IN  left[Cardinality(N)]

CycleErrors ==
    {[pass |-> "cycle", of |-> t[1], on |-> t[2]] : t \in
        {p \in Ids(Producers) \X SortedStageSet :
            p[1] \in Unvisited(Ids(AtStage(Producers, p[2])),
                               StageEdges(Producers, p[2]))}}

\* Mutant: any path between two writers orders their writes.
WriteClashUnread(a, b, f) ==
    /\ a.id # b.id /\ a.stage = b.stage
    /\ f \in a.writes \cap b.writes
    /\ ~ Reaches(a.stage, a.id, b.id)
    /\ ~ Reaches(a.stage, b.id, a.id)

\* Two writers of a field in one stage, neither a transform of the other, and
\* not two support planners whose plans the host aggregates.
WriteClash(a, b, f) ==
    /\ a.id # b.id /\ a.stage = b.stage
    /\ f \in a.writes \cap b.writes
    /\ ~ (f \in b.reads /\ Reaches(a.stage, a.id, b.id))
    /\ ~ (f \in a.reads /\ Reaches(a.stage, b.id, a.id))
    /\ ~ /\ f \in {"SupportPlanIR", "SupportIR"}
         /\ \A m \in {a, b} :
                m \in kept /\ m.claims \cap FAMILY_SCOPED_SUPPORT_CLAIMS # {}

WriteErrors ==
    {[pass |-> "write", of |-> t[1].id, on |-> t[3]] : t \in
        {u \in Producers \X Producers \X UNION {p.writes : p \in Producers} :
            WriteClash(u[1], u[2], u[3])}}

\* A read some other producer serves from upstream.
Satisfied(m, f) == \E w \in Writers(f) : w.id # m.id /\ RunsUpstream(w, m)

ReadErrors ==
    {[pass |-> "read", of |-> p[1].id, on |-> p[2]] : p \in
        {q \in kept \X UNION {m.reads : m \in kept} :
            q[2] \in q[1].reads /\ ~ Satisfied(q[1], q[2])}}

\* Mutant: the two stages of the comparison are swapped.
LaterStageSwapped(a, m) == StageIndex(m.stage) > StageIndex(a.stage)

\* a belongs to a later stage than m.
LaterStage(a, m) == StageIndex(a.stage) > StageIndex(m.stage)

CrossStageErrors ==
    {[pass |-> "cross-stage", of |-> m.id, on |-> ""] : m \in
        {x \in kept : \E r \in kept : r.id \in x.requires /\ LaterStage(r, x)}}

RequiresEdges ==
    {<<p[1].id, p[2].id>> : p \in
        {q \in kept \X kept : q[2].id \in q[1].requires}}

TransitiveErrors ==
    {[pass |-> "transitive", of |-> m.id, on |-> ""] : m \in
        {x \in kept : \E r \in kept :
            /\ r.id \in ReachIn(Ids(kept), RequiresEdges, x.id)
            /\ LaterStage(r, x)}}

\* validate_startup_dag.  Stage ids were checked at ingestion, no region
\* scoped holders and no access audits are passed, and the dead writes are
\* warnings.
StartupErrors ==
    ClaimErrors \cup IncompatibleErrors \cup MissingErrors \cup VersionErrors
        \cup CycleErrors \cup WriteErrors \cup ReadErrors
        \cup CrossStageErrors \cup TransitiveErrors

\* Only the version passes stop the run; run.rs prints the others.
Fatal(errors) == {e \in errors : e.pass = "version"}

Validate ==
    /\ phase = "validate"
    /\ report' = StartupErrors
    /\ IF Fatal(report') = {}
       THEN phase' = "plan" /\ UNCHANGED error
       ELSE Fail("validation")
    /\ UNCHANGED <<pending, modules, preferred, kept, position, sortedStages,
                   tierVars, plan, sortVars>>

-----------------------------------------------------------------------------
(* The plan                                                                 *)

TierNames == {"prepass", "layer", "finalization", "postpass"}

\* The tier of a stage.
Tier(s) ==
    CASE s \in Range(PrePassStages) -> "prepass"
      [] s \in Range(LayerStages)   -> "layer"
      [] s = FinalizationStage      -> "finalization"
      [] OTHER                      -> "postpass"

\* One pass of the loop over sorted_stages.  There is one finalization stage;
\* the other tiers are vectors.  Every id has a binding of its stage and no
\* entry is empty, so the loop's errors and its `continue` are never taken.
PlaceStage ==
    /\ phase = "plan"
    /\ placed < Len(sortedStages)
    /\ LET entry == sortedStages[placed + 1]
       IN  tiers' = [tiers EXCEPT ![Tier(entry.stage)] =
                        IF Tier(entry.stage) = "finalization" THEN <<entry>>
                        ELSE Append(@, entry)]
    /\ placed' = placed + 1
    /\ UNCHANGED <<phase, pending, modules, preferred, kept, position,
                   sortedStages, report, plan, error, sortVars>>

\* The stages before which the host's paint annotation is inserted.
PaintFollowers == {"SlicePostProcess", "Perimeters", "PerimetersPostProcess",
    "Infill", "InfillPostProcess", "Support", "SupportPostProcess",
    "PathOptimization"}

\* The per-layer stages; the paint annotation is inserted when no module has
\* its stage, before the first follower, or at the end when there is none.
WithPaint(layers) ==
    LET has == \E i \in DOMAIN layers :
                    layers[i].stage = "PaintRegionAnnotation"
        at == {i \in DOMAIN layers : layers[i].stage \in PaintFollowers}
        cut == IF at = {} THEN Len(layers) ELSE Min(at) - 1
    IN  IF has THEN layers
        ELSE SubSeq(layers, 1, cut)
             \o <<[stage |-> "PaintRegionAnnotation", ids |-> <<>>]>>
             \o SubSeq(layers, cut + 1, Len(layers))

BuildPlan ==
    /\ phase = "plan"
    /\ placed = Len(sortedStages)
    /\ plan' = tiers.prepass \o WithPaint(tiers.layer)
               \o tiers.finalization \o tiers.postpass
    /\ phase' = "built"
    /\ UNCHANGED <<pending, modules, preferred, kept, position, sortedStages,
                   report, tierVars, error, sortVars>>

-----------------------------------------------------------------------------
(* Specification                                                            *)

Init ==
    /\ phase = "discover"
    /\ \E input \in Inputs : pending = input[1] /\ preferred = input[2]
    /\ modules = {} /\ kept = {} /\ position = 0 /\ sortedStages = <<>>
    /\ report = {} /\ plan = <<>> /\ error = ""
    /\ placed = 0
    /\ tiers = [t \in TierNames |-> <<>>]
    /\ nodes = {} /\ edges = {} /\ degree = <<>> /\ ready = {}
    /\ sorted = <<>> /\ outcome = "idle"

Over == phase \in {"built", "failed"} /\ UNCHANGED vars

Next ==
    \/ IngestBroken \/ IngestManifest \/ DedupClaims
    \/ BeginStage \/ SortStep \/ StageSorted \/ StageCyclic \/ BindModules
    \/ Validate \/ PlaceStage \/ BuildPlan \/ Over

Spec == Init /\ [][Next]_vars

-----------------------------------------------------------------------------
(* Properties                                                               *)

\* Module a runs before module b in the built plan: in an earlier stage, or
\* in the same stage at an earlier place.
RunsBefore(a, b) ==
    \E i, j \in DOMAIN plan :
        /\ a \in Range(plan[i].ids) /\ b \in Range(plan[j].ids)
        /\ \/ i < j
           \/ /\ i = j
              /\ \E k, l \in DOMAIN plan[i].ids :
                    k < l /\ plan[i].ids[k] = a /\ plan[i].ids[l] = b

Reported(pass, id) == \E e \in report : e.pass = pass /\ e.of = id

\* A built plan runs a module only after the modules it requires, or the
\* validation told the user of the shortfall: the advisory passes and the
\* order the live loader chose never disagree silently.
RequirementsRunFirst ==
    phase = "built" => \A m \in kept : \A r \in m.requires :
        \/ RunsBefore(r, m.id)
        \/ Reported("missing", m.id)
        \/ Reported("cross-stage", m.id)

\* Two modules of a stage that write one field: the one that runs second
\* reads what the first one wrote, or the pair was reported.
NoSilentOverwrite ==
    phase = "built" => \A a, b \in kept :
        /\ a.stage = b.stage /\ RunsBefore(a.id, b.id)
        /\ ~ \E m \in {a, b} : m.claims \cap FAMILY_SCOPED_SUPPORT_CLAIMS # {}
        => \A f \in a.writes \cap b.writes :
                \/ f \in b.reads
                \/ \E e \in report : e.pass = "write" /\ e.on = f

\* After dedup no contested claim of a stage has two holders left.
OneHolderPerStage ==
    phase # "discover" => \A m, n \in kept :
        /\ m.stage = n.stage /\ m.id # n.id
        => \A c \in m.claims \cap n.claims :
            c \in FILL_CLAIM_IDS \cup FAMILY_SCOPED_SUPPORT_CLAIMS

-----------------------------------------------------------------------------
(* What the repository says and the code does not do                        *)

\* "For each (stage, claim) pair, resolves exactly one winning module_id and
\* drops the rest": of the modules that contest a claim, the one that wins
\* it is kept.
WinnerIsKept ==
    phase # "discover" => \A m \in modules : \A c \in m.claims :
        Winner(modules, m.stage, c) \subseteq Ids(kept)

=============================================================================
