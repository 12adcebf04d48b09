----------------------------- MODULE PrePassProofs -----------------------------
(***************************************************************************)
(* Proofs about the PrePass tier, for every plan: any number of modules in *)
(* any stages, every built-in and module failing or not.                   *)
(*                                                                         *)
(* The properties speak of a tier that succeeded.  The invariant says, for *)
(* every step of the script, what the blackboard holds when the step is    *)
(* about to run: each built-in's product is there exactly when the layers  *)
(* are planned, with the lineage of the steps behind it, and every module  *)
(* of a stage that was reached has been kept or is still to run.           *)
(***************************************************************************)
EXTENDS PrePass, SequenceTheorems, TLAPS

Writer == Module \cup Stage \cup {Aggregation}

Board == [Slot -> Seq(Writer)]

Callback == [kind : {"stage_start", "stage_end", "module_start",
                     "module_end", "module_error"},
             stage : Stage,
             of : Module \cup Stage \cup {"none"}]

TypeOK ==
  /\ stageOf \in [Module -> Stage \cup {"none"}]
  /\ at \in 1 .. Len(Script) + 1
  /\ open \in Stage \cup {"none"}
  /\ left \in SUBSET Module
  /\ plans \in Seq(Module)
  /\ slots \in Board
  /\ basis \in [Slot -> Board]
  /\ audits \in Seq([module : Module, wrote : Slot \cup {"none"}])
  /\ events \in Seq(Callback)
  /\ outcome \in {"running", "ok", "builtin", "missing_prerequisite",
                  "module", "commit"}

\* The tier has not failed.
Sound == outcome \in {"running", "ok"}

\* The open stage is the one of the step before, its modules are those of the
\* plan, and only support geometry collects plans.
OpenStage ==
  Sound =>
    /\ open = "none" => left = {} /\ plans = <<>>
    /\ open # "none" =>
         /\ at > 1
         /\ Takes(Script[at - 1])
         /\ Script[at - 1].id = open
         /\ left \subseteq ModulesAt(open)
         /\ \A r \in RequiredSlots(open) : Present(r)
    /\ plans # <<>> => open = "SupportGeometry"
    /\ outcome = "ok" => open = "none" /\ at = Len(Script) + 1

\* The slices as the steps behind at left them.
SlicesAt ==
  IF at <= 13 \/ ~Present("LayerPlan") THEN <<>>
  ELSE IF at <= 15 THEN <<"Slice">>
  ELSE IF at = 16 THEN <<"Slice", "ShellClassification">>
  ELSE FinalSlices

\* What the blackboard holds at each step of the script.
Chain ==
  Sound =>
    /\ Present("SurfaceClassification") <=> at > 1
    /\ Present("RegionMap") <=> at > 12 /\ Present("LayerPlan")
    /\ slots["SliceIR"] = SlicesAt
    /\ Present("SupportAnalysis") <=> at > 17 /\ Present("LayerPlan")
    /\ Present("SupportGeometry") <=> at > 18 /\ Present("LayerPlan")
    /\ Present("SeamPlan") => at > 19
    /\ Present("SupportPlan") => at = 29 /\ open = "none"

\* What is planned from the slices, at any step.
FromFinal ==
  Sound =>
    \A p \in {"SupportAnalysis", "SupportGeometry", "SeamPlan",
              "SupportPlan"} :
      Present(p) => /\ basis[p]["SliceIR"] = FinalSlices
                    /\ basis[p]["LayerPlan"] = slots["LayerPlan"]

\* The step is the one that runs the modules of a stage.
Covers(step, s) == /\ step.kind # "builtin"
                   /\ step.id = s
                   /\ RequiresRegionMap(s) <=> step.kind = "late"

Reached(m) == \E i \in 1 .. at - 1 : Covers(Script[i], stageOf[m])

Ended(m) == \E i \in DOMAIN events : /\ events[i].kind = "module_end"
                                     /\ events[i].of = m

Audited(m) == OutputOf(stageOf[m]) \in Slot =>
                [module |-> m, wrote |-> OutputOf(stageOf[m])] \in ToSet(audits)

Stored(m) ==
  LET out == OutputOf(stageOf[m]) IN
  /\ out = "SupportPlan" => slots[out] = <<Aggregation>> \/ plans # <<>>
  /\ out \in Slot \ {"SupportPlan"} => Present(out) /\ slots[out][1] = m

\* A module whose stage was reached is still to run, or what it produced is
\* kept.
Kept ==
  Sound => \A m \in Module :
             Reached(m) => m \in left \/ (Ended(m) /\ Audited(m) /\ Stored(m))

PrePassInv == /\ TypeOK
              /\ OpenStage
              /\ Chain
              /\ FromFinal
              /\ Kept
              /\ BracketsBalanced

-----------------------------------------------------------------------------
(* The script, position by position.                                       *)

StepRecord == [kind : {"builtin", "early", "late"}, id : Stage]

LEMMA StageOrderIs ==
  /\ \A i \in 1 .. 10 : /\ StageOrder[i] \in Stage
                        /\ StageOrder[i] = "SupportGeometry" => i = 10
  /\ Stage = {"MeshAnalysis", "LayerPlanning", "SeamPlanning",
              "PaintSegmentation", "RegionMapping", "Slice",
              "OverhangAnnotation", "ShellClassification",
              "SupportAnalysis", "SupportGeometry"}
<1>1. StageOrder \in Seq({StageOrder[i] : i \in 1 .. 10}) /\ Len(StageOrder) = 10
  BY DEF StageOrder
<1>2. DOMAIN StageOrder = 1 .. 10
  BY <1>1
<1>3. Stage = {StageOrder[i] : i \in 1 .. 10}
  BY <1>2 DEF Stage, ToSet
<1>4. 1 .. 10 = {1, 2, 3, 4, 5, 6, 7, 8, 9, 10}
  OBVIOUS
<1>5. \A i \in 1 .. 10 : StageOrder[i] \in Stage
  BY <1>3
<1>6. \A i \in 1 .. 10 : StageOrder[i] = "SupportGeometry" => i = 10
  <2> TAKE i \in 1 .. 10
  <2>1. \/ i = 1 \/ i = 2 \/ i = 3 \/ i = 4 \/ i = 5 \/ i = 6 \/ i = 7
        \/ i = 8 \/ i = 9 \/ i = 10
    BY <1>4
  <2> QED  BY <2>1 DEF StageOrder
<1> QED  BY <1>3, <1>4, <1>5, <1>6 DEF StageOrder

LEMMA MiddleIs == \A i \in 1 .. 7 : MiddleBuiltins[i] \in Stage
<1> TAKE i \in 1 .. 7
<1>1. \/ i = 1 \/ i = 2 \/ i = 3 \/ i = 4 \/ i = 5 \/ i = 6 \/ i = 7
  OBVIOUS
<1> QED  BY <1>1, StageOrderIs DEF MiddleBuiltins

LEMMA ScriptIs ==
  /\ Len(Script) = 28
  /\ DOMAIN Script = 1 .. 28
  /\ Script[1] = [kind |-> "builtin", id |-> "MeshAnalysis"]
  /\ \A i \in 2 .. 11 : Script[i] = [kind |-> "early", id |-> StageOrder[i - 1]]
  /\ \A i \in 12 .. 18 :
       Script[i] = [kind |-> "builtin", id |-> MiddleBuiltins[i - 11]]
  /\ \A i \in 19 .. 28 : Script[i] = [kind |-> "late", id |-> StageOrder[i - 18]]
  /\ \A i \in 1 .. 28 : Script[i] \in StepRecord
<1>1. Len(Script) = 28 /\ DOMAIN Script = 1 .. 28
  BY DEF Script
<1>2. Script[1] = [kind |-> "builtin", id |-> "MeshAnalysis"]
  BY DEF Script
<1>3. \A i \in 2 .. 11 : Script[i] = [kind |-> "early", id |-> StageOrder[i - 1]]
  BY DEF Script
<1>4. \A i \in 12 .. 18 :
        Script[i] = [kind |-> "builtin", id |-> MiddleBuiltins[i - 11]]
  BY DEF Script
<1>5. \A i \in 19 .. 28 : Script[i] = [kind |-> "late", id |-> StageOrder[i - 18]]
  BY DEF Script
<1>6. \A i \in 1 .. 28 : Script[i] \in StepRecord
  <2>1. /\ \A i \in 1 .. 10 : StageOrder[i] \in Stage
        /\ \A i \in 1 .. 7 : MiddleBuiltins[i] \in Stage
        /\ "MeshAnalysis" \in Stage
    BY StageOrderIs, MiddleIs
  <2> TAKE i \in 1 .. 28
  <2>2. i = 1 \/ i \in 2 .. 11 \/ i \in 12 .. 18 \/ i \in 19 .. 28
    OBVIOUS
  <2>3. CASE i = 1
    BY <2>1, <2>3, <1>2 DEF StepRecord
  <2>4. CASE i \in 2 .. 11
    <3>1. i - 1 \in 1 .. 10
      BY <2>4
    <3> QED  BY <3>1, <2>1, <2>4, <1>3 DEF StepRecord
  <2>5. CASE i \in 12 .. 18
    <3>1. i - 11 \in 1 .. 7
      BY <2>5
    <3> QED  BY <3>1, <2>1, <2>5, <1>4 DEF StepRecord
  <2>6. CASE i \in 19 .. 28
    <3>1. i - 18 \in 1 .. 10
      BY <2>6
    <3> QED  BY <3>1, <2>1, <2>6, <1>5 DEF StepRecord
  <2> QED  BY <2>2, <2>3, <2>4, <2>5, <2>6
<1> QED  BY <1>1, <1>2, <1>3, <1>4, <1>5, <1>6

\* Which step runs which built-in.
LEMMA BuiltinSteps ==
  /\ \A i \in 1 .. 28 : Script[i].kind = "builtin" <=> i = 1 \/ i \in 12 .. 18
  /\ Script[1].id = "MeshAnalysis"
  /\ Script[12].id = "RegionMapping"
  /\ Script[13].id = "Slice"
  /\ Script[14].id = "OverhangAnnotation"
  /\ Script[15].id = "ShellClassification"
  /\ Script[16].id = "PaintSegmentation"
  /\ Script[17].id = "SupportAnalysis"
  /\ Script[18].id = "SupportGeometry"
<1>1. \A i \in 1 .. 28 : Script[i].kind = "builtin" <=> i = 1 \/ i \in 12 .. 18
  <2> TAKE i \in 1 .. 28
  <2>1. i = 1 \/ i \in 2 .. 11 \/ i \in 12 .. 18 \/ i \in 19 .. 28
    OBVIOUS
  <2> QED  BY <2>1, ScriptIs
<1>2. \A i \in 12 .. 18 : Script[i].id = MiddleBuiltins[i - 11]
  BY ScriptIs
<1>3. /\ Script[12].id = MiddleBuiltins[1] /\ Script[13].id = MiddleBuiltins[2]
      /\ Script[14].id = MiddleBuiltins[3] /\ Script[15].id = MiddleBuiltins[4]
      /\ Script[16].id = MiddleBuiltins[5] /\ Script[17].id = MiddleBuiltins[6]
      /\ Script[18].id = MiddleBuiltins[7]
  BY <1>2
<1>4. Script[1].id = "MeshAnalysis"
  BY ScriptIs
<1> QED  BY <1>1, <1>3, <1>4 DEF MiddleBuiltins

LateStages == {"SeamPlanning", "Slice", "ShellClassification",
               "SupportGeometry"}

LEMMA Lateness ==
  \A s \in Stage : RequiresRegionMap(s) <=> s \in LateStages
BY StageOrderIs DEF RequiresRegionMap, RequiredSlots, LateStages

\* A stage is run among the steps of its own loop, and support geometry last.
LEMMA TakenSteps ==
  ASSUME NEW i \in 1 .. 28, Takes(Script[i])
  PROVE  /\ Script[i].id \in Stage
         /\ \/ i \in 2 .. 11 /\ Script[i].id \notin LateStages
            \/ i \in 19 .. 28 /\ Script[i].id \in LateStages
         /\ Script[i].id = "SupportGeometry" => i = 28
<1>1. Script[i] \in StepRecord
  BY ScriptIs
<1>2. Script[i].id \in Stage /\ Script[i].kind \in {"builtin", "early", "late"}
  BY <1>1 DEF StepRecord
<1>3. Script[i].kind # "builtin"
  BY DEF Takes
<1>4. Script[i].kind = "late" <=> Script[i].id \in LateStages
  BY <1>2, Lateness DEF Takes
<1>5. i \in 2 .. 11 \/ i \in 19 .. 28
  BY <1>3, BuiltinSteps
<1>6. CASE i \in 2 .. 11
  <2>1. Script[i].kind = "early"
    BY <1>6, ScriptIs
  <2> QED  BY <2>1, <1>2, <1>4, <1>6 DEF LateStages
<1>7. CASE i \in 19 .. 28
  <2>1. Script[i].kind = "late" /\ Script[i].id = StageOrder[i - 18]
    BY <1>7, ScriptIs
  <2>2. PICK k \in 1 .. 10 : k = i - 18
    BY <1>7
  <2>3. \A j \in 1 .. 10 : StageOrder[j] = "SupportGeometry" => j = 10
    BY StageOrderIs
  <2>4. Script[i].id = "SupportGeometry" => i = 28
    <3>1. Script[i].id = StageOrder[k]
      BY <2>1, <2>2
    <3>2. Script[i].id = "SupportGeometry" => k = 10
      BY <3>1, <2>3
    <3> QED  BY <3>2, <2>2
  <2> QED  BY <2>1, <2>4, <1>2, <1>4, <1>7
<1> QED  BY <1>5, <1>6, <1>7

-----------------------------------------------------------------------------
(* The log of callbacks.                                                   *)

Balanced(log) == \A k \in DOMAIN log : InPlace(log, k)

\* The stage whose bracket a log leaves open, or "none".
Leaves(log, s) == \A t \in Stage : OpenAfter(log, Len(log), t) <=> s = t

LEMMA EventFields ==
  \A kind, s, m : /\ Event(kind, s, m).kind = kind
                  /\ Event(kind, s, m).stage = s
                  /\ Event(kind, s, m).of = m
BY DEF Event

LEMMA EventIsCallback ==
  ASSUME NEW kind \in {"stage_start", "stage_end", "module_start",
                       "module_end", "module_error"},
         NEW s \in Stage, NEW m \in Module \cup Stage \cup {"none"}
  PROVE  Event(kind, s, m) \in Callback
BY DEF Event, Callback

\* One callback more.
LEMMA LogAppend ==
  ASSUME NEW log \in Seq(Callback), NEW e \in Callback
  PROVE  /\ log \o <<e>> \in Seq(Callback)
         /\ Len(log) \in Nat
         /\ DOMAIN log = 1 .. Len(log)
         /\ Len(log \o <<e>>) = Len(log) + 1
         /\ DOMAIN (log \o <<e>>) = 1 .. Len(log) + 1
         /\ \A i \in 1 .. Len(log) : (log \o <<e>>)[i] = log[i]
         /\ (log \o <<e>>)[Len(log) + 1] = e
OBVIOUS

LEMMA OpenBefore ==
  ASSUME NEW log \in Seq(Callback), NEW e \in Callback,
         NEW k \in 0 .. Len(log), NEW s
  PROVE  OpenAfter(log \o <<e>>, k, s) <=> OpenAfter(log, k, s)
<1> DEFINE g == log \o <<e>>
<1>1. Len(log) \in Nat /\ \A i \in 1 .. Len(log) : g[i] = log[i]
  BY LogAppend
<1>2. \A i \in 1 .. k : g[i] = log[i]
  BY <1>1
<1>3. ASSUME NEW i \in 1 .. k, NEW j \in i + 1 .. k
      PROVE  j \in 1 .. k
  BY <1>1
<1> HIDE DEF g
<1>4. OpenAfter(g, k, s) <=> OpenAfter(log, k, s)
  BY <1>2, <1>3, Zenon DEF OpenAfter
<1> QED  BY <1>4 DEF g

LEMMA OpenNow ==
  ASSUME NEW log \in Seq(Callback), NEW e \in Callback, NEW s
  PROVE  OpenAfter(log \o <<e>>, Len(log) + 1, s) <=>
           \/ e = Event("stage_start", s, "none")
           \/ /\ e.kind \notin {"stage_start", "stage_end"}
              /\ OpenAfter(log, Len(log), s)
<1> DEFINE g == log \o <<e>>
           Quiet(x) == x.kind \notin {"stage_start", "stage_end"}
<1>0. PICK n \in Nat : n = Len(log)
  BY LogAppend
<1>1. /\ g[n + 1] = e
      /\ \A i \in 1 .. n : g[i] = log[i]
  BY <1>0, LogAppend
<1> HIDE DEF g
<1>4. ASSUME OpenAfter(g, n + 1, s)
      PROVE  \/ e = Event("stage_start", s, "none")
             \/ Quiet(e) /\ OpenAfter(log, n, s)
  <2>1. PICK i \in 1 .. n + 1 :
          /\ g[i] = Event("stage_start", s, "none")
          /\ \A j \in i + 1 .. n + 1 : Quiet(g[j])
    BY <1>4 DEF OpenAfter
  <2>2. CASE i = n + 1
    BY <2>1, <2>2, <1>1
  <2>3. CASE i # n + 1
    <3>1. i \in 1 .. n /\ n + 1 \in i + 1 .. n + 1
      BY <2>3
    <3>2. Quiet(e) /\ log[i] = Event("stage_start", s, "none")
      BY <3>1, <2>1, <1>1
    <3>3. \A j \in i + 1 .. n : j \in 1 .. n /\ j \in i + 1 .. n + 1
      BY <3>1
    <3>4. \A j \in i + 1 .. n : Quiet(log[j])
      BY <3>3, <2>1, <1>1
    <3> QED  BY <3>1, <3>2, <3>4 DEF OpenAfter
  <2> QED  BY <2>2, <2>3
<1>5. ASSUME e = Event("stage_start", s, "none")
      PROVE  OpenAfter(g, n + 1, s)
  <2>1. n + 1 \in 1 .. n + 1 /\ \A j \in n + 1 + 1 .. n + 1 : FALSE
    OBVIOUS
  <2> QED  BY <2>1, <1>1, <1>5 DEF OpenAfter
<1>6. ASSUME Quiet(e), OpenAfter(log, n, s)
      PROVE  OpenAfter(g, n + 1, s)
  <2>1. PICK i \in 1 .. n :
          /\ log[i] = Event("stage_start", s, "none")
          /\ \A j \in i + 1 .. n : Quiet(log[j])
    BY <1>6 DEF OpenAfter
  <2>2. i \in 1 .. n + 1 /\ g[i] = log[i]
    BY <1>1
  <2>3. ASSUME NEW j \in i + 1 .. n + 1
        PROVE  Quiet(g[j])
    <3>1. j = n + 1 \/ (j \in i + 1 .. n /\ j \in 1 .. n)
      OBVIOUS
    <3> QED  BY <3>1, <2>1, <1>1, <1>6
  <2> QED  BY <2>1, <2>2, <2>3 DEF OpenAfter
<1> HIDE DEF Quiet
<1>7. OpenAfter(g, n + 1, s) =>
        \/ e = Event("stage_start", s, "none")
        \/ Quiet(e) /\ OpenAfter(log, n, s)
  BY <1>4, Zenon
<1>8. e = Event("stage_start", s, "none") => OpenAfter(g, n + 1, s)
  BY <1>5
<1>9. Quiet(e) /\ OpenAfter(log, n, s) => OpenAfter(g, n + 1, s)
  BY <1>6
<1> QED  BY <1>0, <1>7, <1>8, <1>9 DEF g, Quiet

LEMMA StillInPlace ==
  ASSUME NEW log \in Seq(Callback), NEW e \in Callback,
         NEW k \in 1 .. Len(log), InPlace(log, k)
  PROVE  InPlace(log \o <<e>>, k)
<1> DEFINE g == log \o <<e>>
<1>1. /\ Len(log) \in Nat
      /\ DOMAIN log = 1 .. Len(log)
      /\ DOMAIN g = 1 .. Len(log) + 1
      /\ \A i \in 1 .. Len(log) : g[i] = log[i]
  BY LogAppend
<1>2. k - 1 \in 0 .. Len(log)
  BY <1>1
<1>3. \A s : OpenAfter(g, k - 1, s) <=> OpenAfter(log, k - 1, s)
  BY <1>2, OpenBefore
<1> HIDE DEF g
<1>4. g[k] = log[k]
  BY <1>1
<1>5. log[k].kind = "module_start" =>
        /\ k + 1 \in DOMAIN g
        /\ g[k + 1] = Event("module_end", g[k].stage, g[k].of)
  BY <1>1, <1>4 DEF InPlace
<1>6. log[k].kind = "module_end" =>
        /\ k - 1 \in DOMAIN g
        /\ g[k - 1] = Event("module_start", g[k].stage, g[k].of)
  BY <1>1, <1>4 DEF InPlace
<1>7. /\ log[k].kind = "stage_start" => \A s \in Stage : ~OpenAfter(g, k - 1, s)
      /\ log[k].kind # "stage_start" => OpenAfter(g, k - 1, g[k].stage)
  BY <1>3, <1>4 DEF InPlace
<1>8. InPlace(g, k)
  BY <1>4, <1>5, <1>6, <1>7 DEF InPlace
<1> QED  BY <1>8 DEF g

\* A log that one more callback continues is balanced when that callback is.
LEMMA BalancedNext ==
  ASSUME NEW log \in Seq(Callback), NEW e \in Callback, Balanced(log),
         InPlace(log \o <<e>>, Len(log) + 1)
  PROVE  Balanced(log \o <<e>>)
<1>1. /\ Len(log) \in Nat
      /\ DOMAIN log = 1 .. Len(log)
      /\ DOMAIN (log \o <<e>>) = 1 .. Len(log) + 1
  BY LogAppend
<1>2. ASSUME NEW k \in 1 .. Len(log)
      PROVE  InPlace(log \o <<e>>, k)
  <2>1. InPlace(log, k)
    BY <1>1 DEF Balanced
  <2> QED  BY <2>1, StillInPlace
<1>3. \A k \in 1 .. Len(log) + 1 : k \in 1 .. Len(log) \/ k = Len(log) + 1
  BY <1>1
<1> QED  BY <1>1, <1>2, <1>3, Zenon DEF Balanced

LEMMA NoneIsNoStage == "none" \notin Stage
BY StageOrderIs

LEMMA StageOpens ==
  ASSUME NEW log \in Seq(Callback), NEW s \in Stage,
         Balanced(log), Leaves(log, "none")
  PROVE  /\ log \o StageStart(s) \in Seq(Callback)
         /\ Balanced(log \o StageStart(s))
         /\ Leaves(log \o StageStart(s), s)
<1>1. PICK e \in Callback : e = Event("stage_start", s, "none")
  BY EventIsCallback
<1>2. StageStart(s) = <<e>>
  BY <1>1 DEF StageStart
<1> DEFINE g == log \o <<e>>
<1>3. /\ g \in Seq(Callback) /\ Len(g) = Len(log) + 1 /\ g[Len(log) + 1] = e
      /\ Len(log) \in Nat /\ Len(log) + 1 - 1 = Len(log)
      /\ Len(log) \in 0 .. Len(log)
  BY LogAppend
<1>4. \A t \in Stage : ~OpenAfter(g, Len(log), t)
  BY <1>3, OpenBefore, NoneIsNoStage DEF Leaves
<1>5. e.kind = "stage_start" /\ e.stage = s /\ e.of = "none"
  BY <1>1, EventFields
<1>6. InPlace(g, Len(log) + 1)
  <2> HIDE DEF g
  <2> QED  BY <1>3, <1>4, <1>5 DEF InPlace
<1>7. Balanced(g)
  BY <1>6, BalancedNext
<1>8. Leaves(g, s)
  <2>1. ASSUME NEW t \in Stage
        PROVE  OpenAfter(g, Len(log) + 1, t) <=> s = t
    <3>1. OpenAfter(g, Len(log) + 1, t) <=> e = Event("stage_start", t, "none")
      BY <1>5, OpenNow
    <3>2. e = Event("stage_start", t, "none") <=> s = t
      BY <1>1, EventFields
    <3> QED  BY <3>1, <3>2
  <2> HIDE DEF g
  <2> QED  BY <2>1, <1>3 DEF Leaves
<1> QED  BY <1>2, <1>3, <1>7, <1>8

LEMMA StageCloses ==
  ASSUME NEW log \in Seq(Callback), NEW s \in Stage,
         Balanced(log), Leaves(log, s)
  PROVE  /\ log \o StageEnd(s) \in Seq(Callback)
         /\ Balanced(log \o StageEnd(s))
         /\ Leaves(log \o StageEnd(s), "none")
<1>1. PICK e \in Callback : e = Event("stage_end", s, "none")
  BY EventIsCallback
<1>2. StageEnd(s) = <<e>>
  BY <1>1 DEF StageEnd
<1> DEFINE g == log \o <<e>>
<1>3. /\ g \in Seq(Callback) /\ Len(g) = Len(log) + 1 /\ g[Len(log) + 1] = e
      /\ Len(log) \in Nat /\ Len(log) + 1 - 1 = Len(log)
      /\ Len(log) \in 0 .. Len(log)
  BY LogAppend
<1>4. OpenAfter(g, Len(log), s)
  BY <1>3, OpenBefore DEF Leaves
<1>5. e.kind = "stage_end" /\ e.stage = s /\ e.of = "none"
  BY <1>1, EventFields
<1>6. InPlace(g, Len(log) + 1)
  <2> HIDE DEF g
  <2> QED  BY <1>3, <1>4, <1>5 DEF InPlace
<1>7. Balanced(g)
  BY <1>6, BalancedNext
<1>8. Leaves(g, "none")
  <2>1. ASSUME NEW t \in Stage
        PROVE  ~OpenAfter(g, Len(log) + 1, t)
    <3>1. OpenAfter(g, Len(log) + 1, t) => e = Event("stage_start", t, "none")
      BY <1>5, OpenNow
    <3>2. e # Event("stage_start", t, "none")
      BY <1>5, EventFields
    <3> QED  BY <3>1, <3>2
  <2> HIDE DEF g
  <2> QED  BY <2>1, <1>3, NoneIsNoStage DEF Leaves
<1> QED  BY <1>2, <1>3, <1>7, <1>8

LEMMA ErrorReported ==
  ASSUME NEW log \in Seq(Callback), NEW s \in Stage,
         NEW m \in Module \cup Stage, Balanced(log), Leaves(log, s)
  PROVE  /\ log \o ModuleError(s, m) \in Seq(Callback)
         /\ Balanced(log \o ModuleError(s, m))
         /\ Leaves(log \o ModuleError(s, m), s)
<1>1. PICK e \in Callback : e = Event("module_error", s, m)
  BY EventIsCallback
<1>2. ModuleError(s, m) = <<e>>
  BY <1>1 DEF ModuleError
<1> DEFINE g == log \o <<e>>
<1>3. /\ g \in Seq(Callback) /\ Len(g) = Len(log) + 1 /\ g[Len(log) + 1] = e
      /\ Len(log) \in Nat /\ Len(log) + 1 - 1 = Len(log)
      /\ Len(log) \in 0 .. Len(log)
  BY LogAppend
<1>4. OpenAfter(g, Len(log), s)
  BY <1>3, OpenBefore DEF Leaves
<1>5. e.kind = "module_error" /\ e.stage = s
  BY <1>1, EventFields
<1>6. InPlace(g, Len(log) + 1)
  <2> HIDE DEF g
  <2> QED  BY <1>3, <1>4, <1>5 DEF InPlace
<1>7. Balanced(g)
  BY <1>6, BalancedNext
<1>8. Leaves(g, s)
  <2>1. ASSUME NEW t \in Stage
        PROVE  OpenAfter(g, Len(log) + 1, t) <=> s = t
    <3>1. OpenAfter(g, Len(log) + 1, t) <=>
            \/ e = Event("stage_start", t, "none")
            \/ e.kind \notin {"stage_start", "stage_end"} /\ OpenAfter(log, Len(log), t)
      BY OpenNow
    <3>2. e # Event("stage_start", t, "none")
      BY <1>5, EventFields
    <3>3. OpenAfter(log, Len(log), t) <=> s = t
      BY DEF Leaves
    <3> QED  BY <3>1, <3>2, <3>3, <1>5
  <2> HIDE DEF g
  <2> QED  BY <2>1, <1>3 DEF Leaves
<1> QED  BY <1>2, <1>3, <1>7, <1>8

LEMMA ModuleRuns ==
  ASSUME NEW log \in Seq(Callback), NEW s \in Stage,
         NEW m \in Module \cup Stage, Balanced(log), Leaves(log, s)
  PROVE  /\ log \o ModuleStart(s, m) \in Seq(Callback)
         /\ log \o ModuleStart(s, m) \o ModuleEnd(s, m) \in Seq(Callback)
         /\ Balanced(log \o ModuleStart(s, m) \o ModuleEnd(s, m))
         /\ Leaves(log \o ModuleStart(s, m) \o ModuleEnd(s, m), s)
         /\ \E i \in DOMAIN (log \o ModuleStart(s, m) \o ModuleEnd(s, m)) :
              (log \o ModuleStart(s, m) \o ModuleEnd(s, m))[i]
                = Event("module_end", s, m)
<1>1. PICK e \in Callback : e = Event("module_start", s, m)
  BY EventIsCallback
<1>2. PICK f \in Callback : f = Event("module_end", s, m)
  BY EventIsCallback
<1>3. ModuleStart(s, m) = <<e>> /\ ModuleEnd(s, m) = <<f>>
  BY <1>1, <1>2 DEF ModuleStart, ModuleEnd
<1>4. PICK h \in Seq(Callback) : h = log \o <<e>>
  BY LogAppend
<1>5. PICK g \in Seq(Callback) : g = h \o <<f>>
  BY LogAppend
<1>6. PICK n \in Nat : n = Len(log)
  BY LogAppend
<1>7. /\ DOMAIN log = 1 .. n
      /\ Len(h) = n + 1 /\ h[n + 1] = e
      /\ \A i \in 1 .. n : h[i] = log[i]
  BY <1>4, <1>6, LogAppend
<1>8. /\ Len(g) = n + 1 + 1 /\ g[n + 1 + 1] = f
      /\ DOMAIN g = 1 .. n + 1 + 1
      /\ \A i \in 1 .. n + 1 : g[i] = h[i]
  BY <1>5, <1>7, LogAppend
<1>9. g[n + 1] = e
  BY <1>7, <1>8
<1>10. /\ e.kind = "module_start" /\ e.stage = s /\ e.of = m
       /\ f.kind = "module_end" /\ f.stage = s /\ f.of = m
  BY <1>1, <1>2, EventFields
<1>11. ASSUME NEW k \in 0 .. n, NEW t
       PROVE  OpenAfter(g, k, t) <=> OpenAfter(log, k, t)
  <2>1. k \in 0 .. Len(h) /\ k \in 0 .. Len(log)
    BY <1>6, <1>7
  <2>2. OpenAfter(g, k, t) <=> OpenAfter(h, k, t)
    BY <2>1, <1>5, OpenBefore
  <2>3. OpenAfter(h, k, t) <=> OpenAfter(log, k, t)
    BY <2>1, <1>4, OpenBefore
  <2> QED  BY <2>2, <2>3
<1>12. ASSUME NEW t
       PROVE  /\ OpenAfter(h, n + 1, t) <=> OpenAfter(log, n, t)
              /\ OpenAfter(g, n + 1, t) <=> OpenAfter(log, n, t)
              /\ OpenAfter(g, n + 1 + 1, t) <=> OpenAfter(log, n, t)
  <2>1. e # Event("stage_start", t, "none") /\ f # Event("stage_start", t, "none")
    BY <1>10, EventFields
  <2>2. OpenAfter(h, n + 1, t) <=>
          \/ e = Event("stage_start", t, "none")
          \/ e.kind \notin {"stage_start", "stage_end"} /\ OpenAfter(log, n, t)
    BY <1>4, <1>6, OpenNow
  <2>3. OpenAfter(g, n + 1 + 1, t) <=>
          \/ f = Event("stage_start", t, "none")
          \/ f.kind \notin {"stage_start", "stage_end"} /\ OpenAfter(h, n + 1, t)
    BY <1>5, <1>7, OpenNow
  <2>4. n + 1 \in 0 .. Len(h)
    BY <1>7
  <2>5. OpenAfter(g, n + 1, t) <=> OpenAfter(h, n + 1, t)
    BY <2>4, <1>5, OpenBefore
  <2> QED  BY <2>1, <2>2, <2>3, <2>5, <1>10
<1>13. OpenAfter(log, n, s)
  BY <1>6 DEF Leaves
<1>14. InPlace(g, n + 1)
  <2>1. n + 1 - 1 = n /\ n \in 0 .. n /\ n + 1 + 1 \in DOMAIN g
    BY <1>8
  <2>2. OpenAfter(g, n, s)
    BY <2>1, <1>11, <1>13
  <2> QED  BY <2>1, <2>2, <1>2, <1>8, <1>9, <1>10 DEF InPlace
<1>15. InPlace(g, n + 1 + 1)
  <2>1. n + 1 + 1 - 1 = n + 1 /\ n + 1 \in DOMAIN g
    BY <1>8
  <2>2. OpenAfter(g, n + 1, s)
    BY <1>12, <1>13
  <2> QED  BY <2>1, <2>2, <1>1, <1>8, <1>9, <1>10 DEF InPlace
<1>16. ASSUME NEW k \in 1 .. n
       PROVE  InPlace(g, k)
  <2>1. InPlace(log, k) /\ k \in 1 .. Len(log) /\ k \in 1 .. Len(h)
    BY <1>6, <1>7 DEF Balanced
  <2>2. InPlace(h, k)
    BY <2>1, <1>4, StillInPlace
  <2> QED  BY <2>1, <2>2, <1>5, StillInPlace
<1>17. Balanced(g)
  <2>1. \A k \in 1 .. n + 1 + 1 : k \in 1 .. n \/ k = n + 1 \/ k = n + 1 + 1
    OBVIOUS
  <2> QED  BY <2>1, <1>8, <1>14, <1>15, <1>16, Zenon DEF Balanced
<1>18. Leaves(g, s)
  BY <1>6, <1>8, <1>12 DEF Leaves
<1>19. n + 1 + 1 \in DOMAIN g /\ g[n + 1 + 1] = Event("module_end", s, m)
  BY <1>2, <1>8
<1> QED  BY <1>3, <1>4, <1>5, <1>17, <1>18, <1>19

LEMMA CallbackPieces ==
  ASSUME NEW s \in Stage, NEW m \in Module \cup Stage
  PROVE  /\ StageStart(s) \in Seq(Callback) /\ StageEnd(s) \in Seq(Callback)
         /\ ModuleStart(s, m) \in Seq(Callback)
         /\ ModuleEnd(s, m) \in Seq(Callback)
         /\ ModuleError(s, m) \in Seq(Callback)
<1>1. /\ Event("stage_start", s, "none") \in Callback
      /\ Event("stage_end", s, "none") \in Callback
      /\ Event("module_start", s, m) \in Callback
      /\ Event("module_end", s, m) \in Callback
      /\ Event("module_error", s, m) \in Callback
  BY EventIsCallback
<1>2. \A e \in Callback : <<e>> \in Seq(Callback)
  OBVIOUS
<1> QED
  BY <1>1, <1>2
  DEF StageStart, StageEnd, ModuleStart, ModuleEnd, ModuleError

\* What a log holds stays in it.
Extends(log, g) == /\ g \in Seq(Callback)
                   /\ \A i \in DOMAIN log : i \in DOMAIN g /\ g[i] = log[i]

LEMMA JoinExtends ==
  ASSUME NEW log \in Seq(Callback), NEW t \in Seq(Callback)
  PROVE  Extends(log, log \o t)
<1>1. /\ log \o t \in Seq(Callback)
      /\ DOMAIN log = 1 .. Len(log) /\ Len(log) \in Nat /\ Len(t) \in Nat
      /\ DOMAIN (log \o t) = 1 .. (Len(log) + Len(t))
      /\ \A i \in 1 .. Len(log) : (log \o t)[i] = log[i]
  OBVIOUS
<1> QED  BY <1>1 DEF Extends

LEMMA ExtendsTwice ==
  ASSUME NEW log, NEW g, NEW h, Extends(log, g), Extends(g, h)
  PROVE  Extends(log, h)
BY DEF Extends

\* The guard of a built-in opens and closes its brackets.
LEMMA GuardRuns ==
  ASSUME NEW log \in Seq(Callback), NEW b \in Stage, NEW ok,
         Balanced(log), Leaves(log, "none")
  PROVE  /\ Extends(log, Guarded(log, b, ok))
         /\ Balanced(Guarded(log, b, ok))
         /\ Leaves(Guarded(log, b, ok), "none")
<1> DEFINE A == StageStart(b)
           B == ModuleStart(b, b)
           C == ModuleEnd(b, b)
           D == StageEnd(b)
<1>1. /\ A \in Seq(Callback) /\ B \in Seq(Callback)
      /\ C \in Seq(Callback) /\ D \in Seq(Callback)
  BY CallbackPieces
<1>2. PICK g \in Seq(Callback) :
        g = log \o A /\ Balanced(g) /\ Leaves(g, b) /\ Extends(log, g)
  BY <1>1, StageOpens, JoinExtends
<1>3. PICK f \in Seq(Callback) : f = g \o B /\ Extends(g, f)
  BY <1>1, JoinExtends DEF Extends
<1>4. PICK h \in Seq(Callback) :
        h = f \o C /\ Balanced(h) /\ Leaves(h, b) /\ Extends(f, h)
  BY <1>1, <1>2, <1>3, ModuleRuns, JoinExtends
<1>5. Balanced(h \o D) /\ Leaves(h \o D, "none") /\ Extends(h, h \o D)
  BY <1>1, <1>4, StageCloses, JoinExtends
<1>6. Guarded(log, b, ok) = h \o D
  BY <1>2, <1>3, <1>4 DEF Guarded
<1>7. Extends(log, h \o D)
  BY <1>2, <1>3, <1>4, <1>5, ExtendsTwice
<1> QED  BY <1>5, <1>6, <1>7

LEMMA BracketsMean ==
  BracketsBalanced <=> Balanced(events) /\ Leaves(events, open)
BY DEF BracketsBalanced, Balanced, Leaves

\* What every step does to the log.
Logged == /\ Extends(events, events')
          /\ BracketsBalanced'

LEMMA LogOfBuiltin ==
  ASSUME TypeOK, BracketsBalanced, NEW step, NEW ok, RunBuiltin(step, ok)
  PROVE  Logged
<1>1. /\ events \in Seq(Callback) /\ Balanced(events) /\ Leaves(events, "none")
      /\ open = "none" /\ open' = "none"
  BY BracketsMean DEF TypeOK, RunBuiltin, AtStep
<1>2. step.id \in Stage
  BY ScriptIs DEF RunBuiltin, AtStep, StepRecord
<1>3. CASE events' = events
  <2>1. Balanced(events') /\ Leaves(events', open')
    BY <1>1, <1>3
  <2> QED  BY <2>1, <1>1, <1>3 DEF Logged, Extends, BracketsBalanced, Balanced, Leaves
<1>4. CASE events' = Guarded(events, step.id, ok)
  <2>1. Extends(events, events') /\ Balanced(events') /\ Leaves(events', open')
    BY <1>1, <1>2, <1>4, GuardRuns
  <2> QED  BY <2>1 DEF Logged, BracketsBalanced, Balanced, Leaves
<1> QED  BY <1>3, <1>4 DEF RunBuiltin

LEMMA LogSame ==
  ASSUME TypeOK, BracketsBalanced, events' = events, open' = open
  PROVE  Logged
BY DEF TypeOK, Logged, Extends, BracketsBalanced

LEMMA LogOfEnter ==
  ASSUME TypeOK, BracketsBalanced, NEW step, EnterStage(step)
  PROVE  Logged
<1>1. /\ events \in Seq(Callback) /\ Balanced(events) /\ Leaves(events, "none")
      /\ open = "none"
  BY BracketsMean DEF TypeOK, EnterStage, AtStep
<1>2. step.id \in Stage
  BY ScriptIs DEF EnterStage, AtStep, StepRecord
<1>3. CASE events' = events /\ open' = open
  BY <1>3, LogSame
<1>4. CASE open' = step.id /\ events' = events \o StageStart(step.id)
  <2>1. Balanced(events') /\ Leaves(events', open')
    BY <1>1, <1>2, <1>4, StageOpens
  <2>2. Extends(events, events')
    BY <1>1, <1>2, <1>4, CallbackPieces, JoinExtends
  <2> QED  BY <2>1, <2>2 DEF Logged, BracketsBalanced, Balanced, Leaves
<1> QED  BY <1>3, <1>4 DEF EnterStage

LEMMA LogOfClose ==
  ASSUME TypeOK, BracketsBalanced, NEW twice, CloseStage(twice)
  PROVE  Logged
<1>1. /\ events \in Seq(Callback) /\ Balanced(events) /\ Leaves(events, open)
      /\ open \in Stage /\ open' = "none"
      /\ events' = events \o StageEnd(open)
  BY BracketsMean DEF TypeOK, CloseStage
<1>2. Balanced(events') /\ Leaves(events', open')
  BY <1>1, StageCloses
<1>3. Extends(events, events')
  BY <1>1, CallbackPieces, JoinExtends
<1> QED  BY <1>2, <1>3 DEF Logged, BracketsBalanced, Balanced, Leaves

\* A module that was run has ended, whether or not it failed.
LEMMA LogOfModule ==
  ASSUME TypeOK, BracketsBalanced, NEW m \in Module, NEW r, NEW reads,
         RunModule(m, r, reads)
  PROVE  Logged /\ Ended(m)'
<1> DEFINE A == ModuleStart(open, m)
           B == ModuleEnd(open, m)
           C == ModuleError(open, m)
           D == StageEnd(open)
<1>1. /\ events \in Seq(Callback) /\ Balanced(events) /\ Leaves(events, open)
      /\ open \in Stage /\ m \in Module \cup Stage
  BY BracketsMean DEF TypeOK, RunModule
<1>2. /\ A \in Seq(Callback) /\ B \in Seq(Callback)
      /\ C \in Seq(Callback) /\ D \in Seq(Callback)
  BY <1>1, CallbackPieces
<1>3. PICK g \in Seq(Callback) :
        /\ g = events \o A \o B
        /\ Balanced(g) /\ Leaves(g, open)
        /\ \E i \in DOMAIN g : g[i] = Event("module_end", open, m)
  BY <1>1, ModuleRuns
<1>4. Extends(events, g)
  <2>1. Extends(events, events \o A) /\ events \o A \in Seq(Callback)
    BY <1>1, <1>2, JoinExtends DEF Extends
  <2>2. Extends(events \o A, events \o A \o B)
    BY <2>1, <1>2, JoinExtends
  <2> QED  BY <2>1, <2>2, <1>3, ExtendsTwice
<1>5. PICK h \in Seq(Callback) :
        /\ h = g \o C /\ Balanced(h) /\ Leaves(h, open) /\ Extends(g, h)
  BY <1>1, <1>2, <1>3, ErrorReported, JoinExtends
<1>6. /\ h \o D \in Seq(Callback) /\ Balanced(h \o D) /\ Leaves(h \o D, "none")
      /\ Extends(h, h \o D)
  BY <1>1, <1>2, <1>5, StageCloses, JoinExtends
<1>7. Extends(g, h \o D)
  BY <1>5, <1>6, ExtendsTwice
<1>8. \/ events' = g /\ open' = open
      \/ events' = h \o D /\ open' = "none"
  BY <1>3, <1>5 DEF RunModule
<1>9. Extends(g, events') /\ Balanced(events') /\ Leaves(events', open')
  <2>1. Extends(g, g)
    BY DEF Extends
  <2> QED  BY <2>1, <1>3, <1>6, <1>7, <1>8
<1>10. Extends(events, events')
  BY <1>4, <1>9, ExtendsTwice
<1>11. \E i \in DOMAIN events' : events'[i] = Event("module_end", open, m)
  BY <1>3, <1>9 DEF Extends
<1>12. Ended(m)'
  BY <1>11, EventFields DEF Ended
<1> QED
  BY <1>9, <1>10, <1>12 DEF Logged, BracketsBalanced, Balanced, Leaves

-----------------------------------------------------------------------------
(* The blackboard and the types.                                           *)

LEMMA Lineages ==
  ASSUME NEW l \in Seq(Writer), NEW w \in Writer
  PROVE  /\ Append(l, w) \in Seq(Writer)
         /\ Append(l, w) # <<>>
         /\ l # <<>> => Append(l, w)[1] = l[1]
         /\ l = <<>> => Append(l, w)[1] = w
<1>1. /\ Append(l, w) \in Seq(Writer) /\ Append(l, w) # <<>>
      /\ Len(l) \in Nat
      /\ \A i \in 1 .. Len(l) : Append(l, w)[i] = l[i]
      /\ Append(l, w)[Len(l) + 1] = w
  BY AppendProperties
<1>2. l # <<>> => 1 \in 1 .. Len(l)
  BY <1>1
<1>3. l = <<>> => Len(l) + 1 = 1
  OBVIOUS
<1> QED  BY <1>1, <1>2, <1>3

BoardTypes == slots \in Board /\ basis \in [Slot -> Board]

\* What a write does to the slots it names, and to the others.
LEMMA Written ==
  ASSUME BoardTypes, NEW W, NEW w \in Writer, Write(W, w)
  PROVE  /\ BoardTypes'
         /\ \A s \in Slot : s \in W =>
              /\ slots'[s] = Append(slots[s], w) /\ slots'[s] # <<>>
              /\ slots[s] # <<>> => slots'[s][1] = slots[s][1]
              /\ slots[s] = <<>> => slots'[s][1] = w
              /\ basis'[s] = slots
         /\ \A s \in Slot : s \notin W =>
              slots'[s] = slots[s] /\ basis'[s] = basis[s]
<1>1. /\ slots' = [s \in Slot |-> IF s \in W THEN Append(slots[s], w) ELSE slots[s]]
      /\ basis' = [s \in Slot |-> IF s \in W THEN slots ELSE basis[s]]
  BY DEF Write
<1>2. \A s \in Slot : slots[s] \in Seq(Writer)
  BY DEF BoardTypes, Board
<1>3. \A s \in Slot : Append(slots[s], w) \in Seq(Writer)
  BY <1>2, Lineages
<1>4. slots' \in Board
  BY <1>1, <1>2, <1>3 DEF Board
<1>5. basis' \in [Slot -> Board]
  BY <1>1 DEF BoardTypes
<1>6. ASSUME NEW s \in Slot, s \in W
      PROVE  /\ slots'[s] = Append(slots[s], w) /\ slots'[s] # <<>>
             /\ slots[s] # <<>> => slots'[s][1] = slots[s][1]
             /\ slots[s] = <<>> => slots'[s][1] = w
             /\ basis'[s] = slots
  <2>1. slots'[s] = Append(slots[s], w) /\ basis'[s] = slots
    BY <1>1, <1>6
  <2> QED  BY <2>1, <1>2, Lineages
<1>7. \A s \in Slot : s \notin W => slots'[s] = slots[s] /\ basis'[s] = basis[s]
  BY <1>1
<1> QED  BY <1>4, <1>5, <1>6, <1>7 DEF BoardTypes

\* The step a tier between two steps takes.
LEMMA AtSteps ==
  ASSUME TypeOK, NEW step, AtStep(step)
  PROVE  /\ at \in 1 .. 28 /\ at' = at + 1 /\ at' \in 1 .. Len(Script) + 1
         /\ step = Script[at] /\ step \in StepRecord /\ step.id \in Stage
         /\ outcome = "running" /\ open = "none"
BY ScriptIs DEF AtStep, StepRecord

LEMMA TypesOfBuiltin ==
  ASSUME TypeOK, BracketsBalanced, NEW step, NEW ok, RunBuiltin(step, ok)
  PROVE  TypeOK'
<1>1. AtStep(step)
  BY DEF RunBuiltin
<1>2. BoardTypes /\ step.id \in Writer
  BY <1>1, AtSteps DEF TypeOK, BoardTypes, Writer
<1>3. BoardTypes'
  <2>1. CASE NoWrite
    BY <2>1, <1>2 DEF NoWrite, BoardTypes
  <2>2. CASE Write(Produces(step.id) \cup Refines(step.id), step.id)
    BY <2>2, <1>2, Written
  <2> QED  BY <2>1, <2>2 DEF RunBuiltin
<1>4. events' \in Seq(Callback)
  BY LogOfBuiltin DEF Logged, Extends
<1>5. at' \in 1 .. Len(Script) + 1
  BY <1>1, AtSteps
<1>6. outcome' \in {"running", "ok", "builtin"}
  BY <1>1, AtSteps DEF RunBuiltin, Fail
<1>7. UNCHANGED <<stageOf, open, left, plans, audits>>
  BY DEF RunBuiltin
<1> QED  BY <1>3, <1>4, <1>5, <1>6, <1>7 DEF TypeOK, BoardTypes

LEMMA TypesOfPass ==
  ASSUME TypeOK, NEW step, PassOver(step)
  PROVE  TypeOK'
<1>1. AtStep(step)
  BY DEF PassOver
<1>2. at' \in 1 .. Len(Script) + 1
  BY <1>1, AtSteps
<1> QED  BY <1>2 DEF TypeOK, PassOver

LEMMA TypesOfEnter ==
  ASSUME TypeOK, BracketsBalanced, NEW step, EnterStage(step)
  PROVE  TypeOK'
<1>1. AtStep(step)
  BY DEF EnterStage
<1>2. at' \in 1 .. Len(Script) + 1 /\ step.id \in Stage
      /\ outcome = "running" /\ open = "none"
  BY <1>1, AtSteps
<1>3. events' \in Seq(Callback)
  BY LogOfEnter DEF Logged, Extends
<1>4. UNCHANGED <<stageOf, plans, slots, basis, audits>>
  BY DEF EnterStage
<1>5. \/ open' = step.id /\ left' = ModulesAt(step.id) /\ outcome' = outcome
      \/ open' = open /\ left' = left /\ outcome' = "missing_prerequisite"
  BY DEF EnterStage, Fail
<1>6. /\ open' \in Stage \cup {"none"} /\ left' \in SUBSET Module
      /\ outcome' \in {"running", "missing_prerequisite"}
  BY <1>2, <1>5 DEF TypeOK, ModulesAt
<1> QED  BY <1>2, <1>3, <1>4, <1>6 DEF TypeOK

LEMMA OutputsAre ==
  \A s : OutputOf(s) \in {"LayerPlan", "SeamPlan", "SupportPlan", "none", "unknown"}
BY DEF OutputOf

LEMMA TypesOfModule ==
  ASSUME TypeOK, BracketsBalanced, NEW m \in Module, NEW r, NEW reads,
         RunModule(m, r, reads)
  PROVE  TypeOK'
<1> DEFINE out == OutputOf(open)
<1>1. BoardTypes /\ m \in Writer
  BY DEF TypeOK, BoardTypes, Writer
<1>2. BoardTypes'
  <2>1. CASE NoWrite
    BY <2>1, <1>1 DEF NoWrite, BoardTypes
  <2>2. CASE Write({out}, m)
    BY <2>2, <1>1, Written
  <2> QED  BY <2>1, <2>2 DEF RunModule
<1>3. events' \in Seq(Callback)
  BY LogOfModule DEF Logged, Extends
<1>4. plans' \in Seq(Module)
  <2>1. plans' = plans \/ plans' = Append(plans, m)
    BY DEF RunModule
  <2> QED  BY <2>1 DEF TypeOK
<1>5. audits' \in Seq([module : Module, wrote : Slot \cup {"none"}])
  <2>1. \/ audits' = audits
        \/ out # "unknown" /\ audits' = Append(audits, [module |-> m, wrote |-> out])
    BY DEF RunModule
  <2>2. out # "unknown" => out \in Slot \cup {"none"}
    BY OutputsAre DEF Slot
  <2>3. CASE audits' = audits
    BY <2>3 DEF TypeOK
  <2>4. CASE out # "unknown" /\ audits' = Append(audits, [module |-> m, wrote |-> out])
    <3>1. [module |-> m, wrote |-> out] \in [module : Module, wrote : Slot \cup {"none"}]
      BY <2>2, <2>4
    <3> QED  BY <3>1, <2>4, AppendProperties DEF TypeOK
  <2> QED  BY <2>1, <2>3, <2>4
<1>6. /\ outcome' \in {"running", "module", "commit"}
      /\ open' \in {open, "none"} /\ left' \in SUBSET Module
      /\ UNCHANGED <<stageOf, at>>
  BY DEF RunModule, Fail, TypeOK
<1> QED  BY <1>2, <1>3, <1>4, <1>5, <1>6 DEF TypeOK, BoardTypes

LEMMA TypesOfClose ==
  ASSUME TypeOK, BracketsBalanced, NEW twice, CloseStage(twice)
  PROVE  TypeOK'
<1>1. BoardTypes /\ Aggregation \in Writer
  BY DEF TypeOK, BoardTypes, Writer
<1>2. BoardTypes'
  <2>1. CASE NoWrite
    BY <2>1, <1>1 DEF NoWrite, BoardTypes
  <2>2. CASE Write({"SupportPlan"}, Aggregation)
    BY <2>2, <1>1, Written
  <2> QED  BY <2>1, <2>2 DEF CloseStage
<1>3. events' \in Seq(Callback)
  BY LogOfClose DEF Logged, Extends
<1>4. outcome' \in {"running", "commit"} /\ plans' = <<>> /\ open' = "none"
      /\ UNCHANGED <<stageOf, at, left, audits>>
  BY DEF CloseStage, Fail
<1> QED  BY <1>2, <1>3, <1>4 DEF TypeOK, BoardTypes

-----------------------------------------------------------------------------
(* What the built-ins leave on the blackboard.                             *)

\* The slots that the built-in of a step writes.
Affects(i) ==
  CASE i = 1  -> {"SurfaceClassification"}
    [] i = 12 -> {"RegionMap", "LayerPlan"}
    [] i = 13 -> {"SliceIR"}
    [] i = 14 -> {"SurfaceClassification"}
    [] i = 15 -> {"SliceIR"}
    [] i = 16 -> {"LayerPlan", "SliceIR"}
    [] i = 17 -> {"SupportAnalysis"}
    [] i = 18 -> {"SupportGeometry"}
    [] OTHER  -> {}

LEMMA AffectedSlots ==
  ASSUME NEW i \in 1 .. 28, Script[i].kind = "builtin"
  PROVE  Produces(Script[i].id) \cup Refines(Script[i].id) = Affects(i)
<1>1. i = 1 \/ i = 12 \/ i = 13 \/ i = 14 \/ i = 15 \/ i = 16 \/ i = 17 \/ i = 18
  BY BuiltinSteps
<1>2. CASE i = 1
  <2>1. Script[i].id = "MeshAnalysis"
    BY <1>2, BuiltinSteps
  <2> QED  BY <2>1, <1>2 DEF Produces, Refines, Affects
<1>3. CASE i = 12
  <2>1. Script[i].id = "RegionMapping"
    BY <1>3, BuiltinSteps
  <2> QED  BY <2>1, <1>3 DEF Produces, Refines, Affects
<1>4. CASE i = 13
  <2>1. Script[i].id = "Slice"
    BY <1>4, BuiltinSteps
  <2> QED  BY <2>1, <1>4 DEF Produces, Refines, Affects
<1>5. CASE i = 14
  <2>1. Script[i].id = "OverhangAnnotation"
    BY <1>5, BuiltinSteps
  <2> QED  BY <2>1, <1>5 DEF Produces, Refines, Affects
<1>6. CASE i = 15
  <2>1. Script[i].id = "ShellClassification"
    BY <1>6, BuiltinSteps
  <2> QED  BY <2>1, <1>6 DEF Produces, Refines, Affects
<1>7. CASE i = 16
  <2>1. Script[i].id = "PaintSegmentation"
    BY <1>7, BuiltinSteps
  <2> QED  BY <2>1, <1>7 DEF Produces, Refines, Affects
<1>8. CASE i = 17
  <2>1. Script[i].id = "SupportAnalysis"
    BY <1>8, BuiltinSteps
  <2> QED  BY <2>1, <1>8 DEF Produces, Refines, Affects
<1>9. CASE i = 18
  <2>1. Script[i].id = "SupportGeometry"
    BY <1>9, BuiltinSteps
  <2> QED  BY <2>1, <1>9 DEF Produces, Refines, Affects
<1> QED  BY <1>1, <1>2, <1>3, <1>4, <1>5, <1>6, <1>7, <1>8, <1>9

\* A middle built-in runs when the layers are planned, and the first always.
LEMMA BuiltinGuards ==
  ASSUME Chain, Sound, at \in 1 .. 28, Script[at].kind = "builtin"
  PROVE  ShouldRun(Script[at].id) <=> at = 1 \/ Present("LayerPlan")
<1>1. \/ at = 1 \/ at = 12 \/ at = 13 \/ at = 14 \/ at = 15 \/ at = 16
      \/ at = 17 \/ at = 18
  BY BuiltinSteps
<1>2. /\ Present("SurfaceClassification") <=> at > 1
      /\ Present("RegionMap") <=> at > 12 /\ Present("LayerPlan")
      /\ Present("SliceIR") <=> at > 13 /\ Present("LayerPlan")
      /\ Present("SupportAnalysis") <=> at > 17 /\ Present("LayerPlan")
      /\ Present("SupportGeometry") <=> at > 18 /\ Present("LayerPlan")
  <2>1. SlicesAt # <<>> <=> at > 13 /\ Present("LayerPlan")
    BY <1>1 DEF SlicesAt, FinalSlices
  <2>2. Present("SliceIR") <=> SlicesAt # <<>>
    BY DEF Chain, Present
  <2> QED  BY <2>1, <2>2 DEF Chain
<1>3. CASE at = 1
  <2>1. Script[at].id = "MeshAnalysis"
    BY <1>3, BuiltinSteps
  <2> QED  BY <2>1, <1>2, <1>3 DEF ShouldRun, Wants, Produces
<1>4. CASE at = 12
  <2>1. Script[at].id = "RegionMapping"
    BY <1>4, BuiltinSteps
  <2> QED  BY <2>1, <1>2, <1>4 DEF ShouldRun, Wants, Produces
<1>5. CASE at = 13
  <2>1. Script[at].id = "Slice"
    BY <1>5, BuiltinSteps
  <2> QED  BY <2>1, <1>2, <1>5 DEF ShouldRun, Wants, Produces
<1>6. CASE at = 14
  <2>1. Script[at].id = "OverhangAnnotation"
    BY <1>6, BuiltinSteps
  <2> QED  BY <2>1, <1>2, <1>6 DEF ShouldRun, Wants, Produces
<1>7. CASE at = 15
  <2>1. Script[at].id = "ShellClassification"
    BY <1>7, BuiltinSteps
  <2> QED  BY <2>1, <1>2, <1>7 DEF ShouldRun, Wants, Produces
<1>8. CASE at = 16
  <2>1. Script[at].id = "PaintSegmentation"
    BY <1>8, BuiltinSteps
  <2> QED  BY <2>1, <1>2, <1>8 DEF ShouldRun, Wants, Produces
<1>9. CASE at = 17
  <2>1. Script[at].id = "SupportAnalysis"
    BY <1>9, BuiltinSteps
  <2> QED  BY <2>1, <1>2, <1>9 DEF ShouldRun, Wants, Produces
<1>10. CASE at = 18
  <2>1. Script[at].id = "SupportGeometry"
    BY <1>10, BuiltinSteps
  <2> QED  BY <2>1, <1>2, <1>10 DEF ShouldRun, Wants, Produces
<1> QED  BY <1>1, <1>3, <1>4, <1>5, <1>6, <1>7, <1>8, <1>9, <1>10

\* A built-in that did not fail wrote what it is for, or was not wanted.
LEMMA BuiltinWrites ==
  ASSUME TypeOK, Chain, NEW step, NEW ok, RunBuiltin(step, ok), Sound'
  PROVE  /\ Sound /\ at' = at + 1 /\ at \in 1 .. 28
         /\ at = 1 \/ at \in 12 .. 18
         /\ \/ NoWrite /\ at # 1 /\ ~Present("LayerPlan")
            \/ /\ Write(Affects(at), Script[at].id)
               /\ at = 1 \/ Present("LayerPlan")
<1>1. AtStep(step) /\ step.kind = "builtin"
  BY DEF RunBuiltin
<1>2. /\ at \in 1 .. 28 /\ at' = at + 1 /\ step = Script[at]
      /\ outcome = "running" /\ Sound
  BY <1>1, AtSteps DEF Sound
<1>3. at = 1 \/ at \in 12 .. 18
  BY <1>1, <1>2, BuiltinSteps
<1>4. ShouldRun(Script[at].id) <=> at = 1 \/ Present("LayerPlan")
  BY <1>1, <1>2, BuiltinGuards
<1>5. Produces(Script[at].id) \cup Refines(Script[at].id) = Affects(at)
  BY <1>1, <1>2, AffectedSlots
<1>6. \/ ~ShouldRun(step.id) /\ NoWrite
      \/ /\ ShouldRun(step.id)
         /\ Write(Produces(step.id) \cup Refines(step.id), step.id)
  BY DEF RunBuiltin, Fail, Sound
<1> QED  BY <1>2, <1>3, <1>4, <1>5, <1>6

LEMMA SlotNames ==
  /\ "SurfaceClassification" \in Slot /\ "LayerPlan" \in Slot
  /\ "RegionMap" \in Slot /\ "SliceIR" \in Slot
  /\ "SupportAnalysis" \in Slot /\ "SupportGeometry" \in Slot
  /\ "SeamPlan" \in Slot /\ "SupportPlan" \in Slot
BY DEF Slot

LEMMA Appended ==
  ASSUME NEW S, NEW t \in Seq(S), NEW c \in S
  PROVE  \E u \in Seq(S) : u = Append(t, c)
<1>1. Append(t, c) \in Seq(S)
  BY AppendProperties
<1> QED  BY <1>1, Zenon

LEMMA AppendedTo ==
  ASSUME NEW S, NEW a \in S, NEW b \in S, NEW c \in S
  PROVE  /\ Append(<<a>>, b) = <<a, b>>
         /\ Append(<<a, b>>, c) = <<a, b, c>>
<1>1. <<a>> \in Seq(S) /\ <<a, b>> \in Seq(S)
  OBVIOUS
<1>2. <<a, b, c>> \in Seq(S) /\ Len(<<a, b, c>>) = 3
  OBVIOUS
<1>3. PICK u \in Seq(S) : u = Append(<<a>>, b)
  BY <1>1, Appended, Zenon
<1>4. Len(u) = 2 /\ u[1] = a /\ u[2] = b
  BY <1>1, <1>3
<1>5. \A i \in 1 .. 2 : u[i] = <<a, b>>[i]
  BY <1>4
<1>6. u = <<a, b>>
  BY <1>1, <1>4, <1>5, SeqEqual
<1>7. PICK t \in Seq(S) : t = Append(<<a, b>>, c)
  BY <1>1, Appended, Zenon
<1>8. Len(t) = 3 /\ t[1] = a /\ t[2] = b /\ t[3] = c
  BY <1>1, <1>7
<1>9. \A i \in 1 .. 3 : t[i] = <<a, b, c>>[i]
  BY <1>8
<1>10. t = <<a, b, c>>
  BY <1>2, <1>8, <1>9, SeqEqual
<1> QED  BY <1>3, <1>6, <1>7, <1>10

LEMMA SliceLineages ==
  /\ Append(<<"Slice">>, "ShellClassification")
       = <<"Slice", "ShellClassification">>
  /\ Append(<<"Slice", "ShellClassification">>, "PaintSegmentation")
       = <<"Slice", "ShellClassification", "PaintSegmentation">>
<1>1. /\ "Slice" \in Stage /\ "ShellClassification" \in Stage
      /\ "PaintSegmentation" \in Stage
  BY StageOrderIs
<1> QED  BY <1>1, AppendedTo

LEMMA ChainOfBuiltin ==
  ASSUME TypeOK, Chain, FromFinal, NEW step, NEW ok, RunBuiltin(step, ok)
  PROVE  Chain' /\ FromFinal'
<1> SUFFICES ASSUME Sound' PROVE Chain' /\ FromFinal'
  BY DEF Chain, FromFinal
<1>1. /\ Sound /\ at' = at + 1 /\ at \in 1 .. 28 /\ open' = open
      /\ at = 1 \/ at \in 12 .. 18
  BY BuiltinWrites DEF RunBuiltin
<1>2. CASE NoWrite /\ at # 1 /\ ~Present("LayerPlan")
  <2>1. slots' = slots /\ basis' = basis /\ at \in 12 .. 18
    BY <1>1, <1>2 DEF NoWrite
  <2>2. Chain'
    BY <2>1, <1>1, <1>2 DEF Chain, SlicesAt, Present
  <2>3. FromFinal'
    BY <2>1, <1>1, <1>2 DEF FromFinal, Present
  <2> QED  BY <2>2, <2>3
<1>3. CASE Write(Affects(at), Script[at].id) /\ (at = 1 \/ Present("LayerPlan"))
  <2> DEFINE b == Script[at].id
  <2>1. b \in Writer /\ BoardTypes
    BY <1>1, ScriptIs DEF StepRecord, Writer, TypeOK, BoardTypes
  <2>2. /\ \A s \in Affects(at) \cap Slot :
             slots'[s] = Append(slots[s], b) /\ slots'[s] # <<>> /\ basis'[s] = slots
        /\ \A s \in Slot \ Affects(at) :
             slots'[s] = slots[s] /\ basis'[s] = basis[s]
    BY <2>1, <1>3, Written
  <2>3. /\ Present("SurfaceClassification") <=> at > 1
        /\ Present("RegionMap") <=> at > 12 /\ Present("LayerPlan")
        /\ slots["SliceIR"] = SlicesAt
        /\ Present("SupportAnalysis") <=> at > 17 /\ Present("LayerPlan")
        /\ Present("SupportGeometry") <=> at > 18 /\ Present("LayerPlan")
        /\ ~Present("SeamPlan") /\ ~Present("SupportPlan")
    BY <1>1 DEF Chain
  <2>4. CASE at = 1
    <3>1. b = "MeshAnalysis" /\ Affects(at) = {"SurfaceClassification"}
      BY <2>4, BuiltinSteps DEF Affects
    <3>2. /\ slots'["SurfaceClassification"] =
               Append(slots["SurfaceClassification"], "MeshAnalysis")
          /\ slots'["SurfaceClassification"] # <<>>
      BY <3>1, <2>2, SlotNames
    <3>3. /\ slots'["LayerPlan"] = slots["LayerPlan"]
          /\ slots'["RegionMap"] = slots["RegionMap"]
          /\ slots'["SliceIR"] = slots["SliceIR"]
          /\ slots'["SupportAnalysis"] = slots["SupportAnalysis"]
          /\ basis'["SupportAnalysis"] = basis["SupportAnalysis"]
          /\ slots'["SupportGeometry"] = slots["SupportGeometry"]
          /\ basis'["SupportGeometry"] = basis["SupportGeometry"]
          /\ slots'["SeamPlan"] = slots["SeamPlan"]
          /\ basis'["SeamPlan"] = basis["SeamPlan"]
          /\ slots'["SupportPlan"] = slots["SupportPlan"]
          /\ basis'["SupportPlan"] = basis["SupportPlan"]
      BY <3>1, <2>2, SlotNames
    <3>4. Chain'
      BY <3>2, <3>3, <2>3, <2>4, <1>1, <1>3
      DEF Chain, SlicesAt, FinalSlices, Present
    <3>5. FromFinal'
      BY <3>2, <3>3, <2>3, <2>4, <1>1, <1>3
      DEF FromFinal, SlicesAt, Present
    <3> QED  BY <3>4, <3>5
  <2>5. CASE at = 12
    <3>1. b = "RegionMapping" /\ Affects(at) = {"RegionMap", "LayerPlan"}
      BY <2>5, BuiltinSteps DEF Affects
    <3>2. /\ slots'["RegionMap"] = Append(slots["RegionMap"], "RegionMapping")
          /\ slots'["RegionMap"] # <<>>
          /\ slots'["LayerPlan"] = Append(slots["LayerPlan"], "RegionMapping")
          /\ slots'["LayerPlan"] # <<>>
      BY <3>1, <2>2, SlotNames
    <3>3. /\ slots'["SurfaceClassification"] = slots["SurfaceClassification"]
          /\ slots'["SliceIR"] = slots["SliceIR"]
          /\ slots'["SupportAnalysis"] = slots["SupportAnalysis"]
          /\ basis'["SupportAnalysis"] = basis["SupportAnalysis"]
          /\ slots'["SupportGeometry"] = slots["SupportGeometry"]
          /\ basis'["SupportGeometry"] = basis["SupportGeometry"]
          /\ slots'["SeamPlan"] = slots["SeamPlan"]
          /\ basis'["SeamPlan"] = basis["SeamPlan"]
          /\ slots'["SupportPlan"] = slots["SupportPlan"]
          /\ basis'["SupportPlan"] = basis["SupportPlan"]
      BY <3>1, <2>2, SlotNames
    <3>4. Chain'
      BY <3>2, <3>3, <2>3, <2>5, <1>1, <1>3
      DEF Chain, SlicesAt, FinalSlices, Present
    <3>5. FromFinal'
      BY <3>2, <3>3, <2>3, <2>5, <1>1, <1>3
      DEF FromFinal, SlicesAt, Present
    <3> QED  BY <3>4, <3>5
  <2>6. CASE at = 13
    <3>1. b = "Slice" /\ Affects(at) = {"SliceIR"}
      BY <2>6, BuiltinSteps DEF Affects
    <3>2. /\ slots'["SliceIR"] = Append(slots["SliceIR"], "Slice")
          /\ slots'["SliceIR"] # <<>>
      BY <3>1, <2>2, SlotNames
    <3>3. /\ slots'["SurfaceClassification"] = slots["SurfaceClassification"]
          /\ slots'["LayerPlan"] = slots["LayerPlan"]
          /\ slots'["RegionMap"] = slots["RegionMap"]
          /\ slots'["SupportAnalysis"] = slots["SupportAnalysis"]
          /\ basis'["SupportAnalysis"] = basis["SupportAnalysis"]
          /\ slots'["SupportGeometry"] = slots["SupportGeometry"]
          /\ basis'["SupportGeometry"] = basis["SupportGeometry"]
          /\ slots'["SeamPlan"] = slots["SeamPlan"]
          /\ basis'["SeamPlan"] = basis["SeamPlan"]
          /\ slots'["SupportPlan"] = slots["SupportPlan"]
          /\ basis'["SupportPlan"] = basis["SupportPlan"]
      BY <3>1, <2>2, SlotNames
    <3>4. Chain'
      BY <3>2, <3>3, <2>3, <2>6, <1>1, <1>3
      DEF Chain, SlicesAt, FinalSlices, Present
    <3>5. FromFinal'
      BY <3>2, <3>3, <2>3, <2>6, <1>1, <1>3
      DEF FromFinal, SlicesAt, Present
    <3> QED  BY <3>4, <3>5
  <2>7. CASE at = 14
    <3>1. b = "OverhangAnnotation" /\ Affects(at) = {"SurfaceClassification"}
      BY <2>7, BuiltinSteps DEF Affects
    <3>2. /\ slots'["SurfaceClassification"] =
               Append(slots["SurfaceClassification"], "OverhangAnnotation")
          /\ slots'["SurfaceClassification"] # <<>>
      BY <3>1, <2>2, SlotNames
    <3>3. /\ slots'["LayerPlan"] = slots["LayerPlan"]
          /\ slots'["RegionMap"] = slots["RegionMap"]
          /\ slots'["SliceIR"] = slots["SliceIR"]
          /\ slots'["SupportAnalysis"] = slots["SupportAnalysis"]
          /\ basis'["SupportAnalysis"] = basis["SupportAnalysis"]
          /\ slots'["SupportGeometry"] = slots["SupportGeometry"]
          /\ basis'["SupportGeometry"] = basis["SupportGeometry"]
          /\ slots'["SeamPlan"] = slots["SeamPlan"]
          /\ basis'["SeamPlan"] = basis["SeamPlan"]
          /\ slots'["SupportPlan"] = slots["SupportPlan"]
          /\ basis'["SupportPlan"] = basis["SupportPlan"]
      BY <3>1, <2>2, SlotNames
    <3>4. Chain'
      BY <3>2, <3>3, <2>3, <2>7, <1>1, <1>3
      DEF Chain, SlicesAt, FinalSlices, Present
    <3>5. FromFinal'
      BY <3>2, <3>3, <2>3, <2>7, <1>1, <1>3
      DEF FromFinal, SlicesAt, Present
    <3> QED  BY <3>4, <3>5
  <2>8. CASE at = 15
    <3>1. b = "ShellClassification" /\ Affects(at) = {"SliceIR"}
      BY <2>8, BuiltinSteps DEF Affects
    <3>2. /\ slots'["SliceIR"] = Append(slots["SliceIR"], "ShellClassification")
          /\ slots'["SliceIR"] # <<>>
      BY <3>1, <2>2, SlotNames
    <3>3. /\ slots'["SurfaceClassification"] = slots["SurfaceClassification"]
          /\ slots'["LayerPlan"] = slots["LayerPlan"]
          /\ slots'["RegionMap"] = slots["RegionMap"]
          /\ slots'["SupportAnalysis"] = slots["SupportAnalysis"]
          /\ basis'["SupportAnalysis"] = basis["SupportAnalysis"]
          /\ slots'["SupportGeometry"] = slots["SupportGeometry"]
          /\ basis'["SupportGeometry"] = basis["SupportGeometry"]
          /\ slots'["SeamPlan"] = slots["SeamPlan"]
          /\ basis'["SeamPlan"] = basis["SeamPlan"]
          /\ slots'["SupportPlan"] = slots["SupportPlan"]
          /\ basis'["SupportPlan"] = basis["SupportPlan"]
      BY <3>1, <2>2, SlotNames
    <3>4. Chain'
      <4>1. slots["SliceIR"] = <<"Slice">>
        BY <2>3, <2>8, <1>3 DEF SlicesAt
      <4>2. slots'["SliceIR"] = <<"Slice", "ShellClassification">>
        BY <4>1, <3>2, SliceLineages DEF FinalSlices
      <4>3. at' = 16
        BY <2>8, <1>1
      <4>4. SlicesAt' = <<"Slice", "ShellClassification">>
        BY <4>3, <3>3, <2>8, <1>3 DEF SlicesAt, Present
      <4> QED
        BY <4>2, <4>3, <4>4, <3>2, <3>3, <2>3, <2>8, <1>1, <1>3
        DEF Chain, Present
    <3>5. FromFinal'
      BY <3>2, <3>3, <2>3, <2>8, <1>1, <1>3
      DEF FromFinal, SlicesAt, Present
    <3> QED  BY <3>4, <3>5
  <2>9. CASE at = 16
    <3>1. b = "PaintSegmentation" /\ Affects(at) = {"LayerPlan", "SliceIR"}
      BY <2>9, BuiltinSteps DEF Affects
    <3>2. /\ slots'["LayerPlan"] =
               Append(slots["LayerPlan"], "PaintSegmentation")
          /\ slots'["LayerPlan"] # <<>>
          /\ slots'["SliceIR"] = Append(slots["SliceIR"], "PaintSegmentation")
          /\ slots'["SliceIR"] # <<>>
      BY <3>1, <2>2, SlotNames
    <3>3. /\ slots'["SurfaceClassification"] = slots["SurfaceClassification"]
          /\ slots'["RegionMap"] = slots["RegionMap"]
          /\ slots'["SupportAnalysis"] = slots["SupportAnalysis"]
          /\ basis'["SupportAnalysis"] = basis["SupportAnalysis"]
          /\ slots'["SupportGeometry"] = slots["SupportGeometry"]
          /\ basis'["SupportGeometry"] = basis["SupportGeometry"]
          /\ slots'["SeamPlan"] = slots["SeamPlan"]
          /\ basis'["SeamPlan"] = basis["SeamPlan"]
          /\ slots'["SupportPlan"] = slots["SupportPlan"]
          /\ basis'["SupportPlan"] = basis["SupportPlan"]
      BY <3>1, <2>2, SlotNames
    <3>4. Chain'
      <4>1. slots["SliceIR"] = <<"Slice", "ShellClassification">>
        BY <2>3, <2>9, <1>3 DEF SlicesAt
      <4>2. slots'["SliceIR"] = FinalSlices
        BY <4>1, <3>2, SliceLineages DEF FinalSlices
      <4>3. at' = 17
        BY <2>9, <1>1
      <4>4. SlicesAt' = FinalSlices
        BY <4>3, <3>2 DEF SlicesAt, Present
      <4> QED
        BY <4>2, <4>3, <4>4, <3>2, <3>3, <2>3, <2>9, <1>1, <1>3
        DEF Chain, Present
    <3>5. FromFinal'
      BY <3>2, <3>3, <2>3, <2>9, <1>1, <1>3
      DEF FromFinal, SlicesAt, Present
    <3> QED  BY <3>4, <3>5
  <2>10. CASE at = 17
    <3>1. b = "SupportAnalysis" /\ Affects(at) = {"SupportAnalysis"}
      BY <2>10, BuiltinSteps DEF Affects
    <3>2. /\ slots'["SupportAnalysis"] =
               Append(slots["SupportAnalysis"], "SupportAnalysis")
          /\ slots'["SupportAnalysis"] # <<>>
          /\ basis'["SupportAnalysis"] = slots
      BY <3>1, <2>2, SlotNames
    <3>3. /\ slots'["SurfaceClassification"] = slots["SurfaceClassification"]
          /\ slots'["LayerPlan"] = slots["LayerPlan"]
          /\ slots'["RegionMap"] = slots["RegionMap"]
          /\ slots'["SliceIR"] = slots["SliceIR"]
          /\ slots'["SupportGeometry"] = slots["SupportGeometry"]
          /\ basis'["SupportGeometry"] = basis["SupportGeometry"]
          /\ slots'["SeamPlan"] = slots["SeamPlan"]
          /\ basis'["SeamPlan"] = basis["SeamPlan"]
          /\ slots'["SupportPlan"] = slots["SupportPlan"]
          /\ basis'["SupportPlan"] = basis["SupportPlan"]
      BY <3>1, <2>2, SlotNames
    <3>4. Chain'
      BY <3>2, <3>3, <2>3, <2>10, <1>1, <1>3
      DEF Chain, SlicesAt, FinalSlices, Present
    <3>5. FromFinal'
      BY <3>2, <3>3, <2>3, <2>10, <1>1, <1>3
      DEF FromFinal, SlicesAt, Present
    <3> QED  BY <3>4, <3>5
  <2>11. CASE at = 18
    <3>1. b = "SupportGeometry" /\ Affects(at) = {"SupportGeometry"}
      BY <2>11, BuiltinSteps DEF Affects
    <3>2. /\ slots'["SupportGeometry"] =
               Append(slots["SupportGeometry"], "SupportGeometry")
          /\ slots'["SupportGeometry"] # <<>>
          /\ basis'["SupportGeometry"] = slots
      BY <3>1, <2>2, SlotNames
    <3>3. /\ slots'["SurfaceClassification"] = slots["SurfaceClassification"]
          /\ slots'["LayerPlan"] = slots["LayerPlan"]
          /\ slots'["RegionMap"] = slots["RegionMap"]
          /\ slots'["SliceIR"] = slots["SliceIR"]
          /\ slots'["SupportAnalysis"] = slots["SupportAnalysis"]
          /\ basis'["SupportAnalysis"] = basis["SupportAnalysis"]
          /\ slots'["SeamPlan"] = slots["SeamPlan"]
          /\ basis'["SeamPlan"] = basis["SeamPlan"]
          /\ slots'["SupportPlan"] = slots["SupportPlan"]
          /\ basis'["SupportPlan"] = basis["SupportPlan"]
      BY <3>1, <2>2, SlotNames
    <3>4. Chain'
      BY <3>2, <3>3, <2>3, <2>11, <1>1, <1>3
      DEF Chain, SlicesAt, FinalSlices, Present
    <3>5. FromFinal'
      BY <3>2, <3>3, <2>3, <2>11, <1>1, <1>3
      DEF FromFinal, SlicesAt, Present
    <3> QED  BY <3>4, <3>5
  <2>12. \/ at = 1 \/ at = 12 \/ at = 13 \/ at = 14 \/ at = 15 \/ at = 16
         \/ at = 17 \/ at = 18
    BY <1>1
  <2> QED
    BY <2>4, <2>5, <2>6, <2>7, <2>8, <2>9, <2>10, <2>11, <2>12
<1> QED  BY <1>2, <1>3, BuiltinWrites

-----------------------------------------------------------------------------
(* The open stage.                                                         *)

LEMMA OpenOfBuiltin ==
  ASSUME TypeOK, OpenStage, NEW step, NEW ok, RunBuiltin(step, ok)
  PROVE  OpenStage'
<1>1. outcome = "running" /\ open = "none"
  BY DEF RunBuiltin, AtStep
<1>2. left = {} /\ plans = <<>>
  BY <1>1 DEF OpenStage, Sound
<1>3. /\ open' = "none" /\ left' = {} /\ plans' = <<>>
      /\ outcome' \in {"running", "builtin"}
  BY <1>1, <1>2 DEF RunBuiltin, Fail
<1> QED  BY <1>3 DEF OpenStage, Sound

LEMMA OpenOfPass ==
  ASSUME TypeOK, OpenStage, NEW step, PassOver(step)
  PROVE  OpenStage'
<1>1. outcome = "running" /\ open = "none"
  BY DEF PassOver, AtStep
<1>2. left = {} /\ plans = <<>>
  BY <1>1 DEF OpenStage, Sound
<1>3. open' = "none" /\ left' = {} /\ plans' = <<>> /\ outcome' = "running"
  BY <1>1, <1>2 DEF PassOver
<1> QED  BY <1>3 DEF OpenStage, Sound

LEMMA OpenOfEnter ==
  ASSUME TypeOK, OpenStage, NEW step, EnterStage(step)
  PROVE  OpenStage'
<1> SUFFICES ASSUME Sound' PROVE OpenStage'
  BY DEF OpenStage
<1>1. /\ outcome = "running" /\ open = "none" /\ at \in 1 .. 28 /\ at' = at + 1
      /\ step = Script[at] /\ step.id \in Stage
  BY AtSteps DEF EnterStage
<1>2. plans = <<>>
  BY <1>1 DEF OpenStage, Sound
<1>3. /\ open' = step.id /\ left' = ModulesAt(step.id) /\ outcome' = "running"
      /\ \A r \in RequiredSlots(step.id) : Present(r)
      /\ plans' = <<>> /\ slots' = slots /\ stageOf' = stageOf
  BY <1>1, <1>2 DEF EnterStage, Fail, Sound
<1>4. at' > 1 /\ at' - 1 = at
  BY <1>1
<1>5. open' # "none"
  BY <1>1, <1>3, NoneIsNoStage
<1>6. Takes(Script[at - 1])'
  BY <1>1, <1>3, <1>4 DEF EnterStage, Takes, ModulesAt
<1>7. Script[at' - 1].id = open' /\ left' \subseteq ModulesAt(open)'
  BY <1>1, <1>3, <1>4 DEF ModulesAt
<1>8. \A r \in RequiredSlots(open') : Present(r)'
  BY <1>3 DEF Present
<1> QED
  BY <1>3, <1>4, <1>5, <1>6, <1>7, <1>8 DEF OpenStage

\* What is written stays, with its first writer.
Grows == \A s \in Slot :
           slots[s] # <<>> => slots'[s] # <<>> /\ slots'[s][1] = slots[s][1]

\* What a module that was accepted did: it ran in the stage it is planned
\* for, and its output, if any, is collected or committed as the first of its
\* slot.
LEMMA AcceptedModule ==
  ASSUME TypeOK, OpenStage, NEW m \in Module, NEW r, NEW reads,
         RunModule(m, r, reads), Sound'
  PROVE  /\ outcome = "running" /\ outcome' = "running"
         /\ open \in Stage /\ open' = open /\ at' = at /\ stageOf' = stageOf
         /\ at > 1 /\ at - 1 \in 1 .. 28 /\ Takes(Script[at - 1])
         /\ Script[at - 1].id = open
         /\ stageOf[m] = open /\ left' = left \ {m}
         /\ \A x \in RequiredSlots(open) : Present(x)
         /\ \/ /\ OutputOf(open) \notin Slot
               /\ NoWrite /\ plans' = plans
            \/ /\ OutputOf(open) = "SupportPlan"
               /\ NoWrite /\ plans' = Append(plans, m)
            \/ /\ OutputOf(open) \in {"LayerPlan", "SeamPlan"}
               /\ ~Present(OutputOf(open))
               /\ Write({OutputOf(open)}, m) /\ plans' = plans
         /\ \/ audits' = audits /\ OutputOf(open) \notin Slot
            \/ audits' = Append(audits, [module |-> m, wrote |-> OutputOf(open)])
<1> DEFINE out == OutputOf(open)
           collected == out = "SupportPlan"
           committed == out \in Slot /\ ~collected
<1>1. /\ outcome = "running" /\ open # "none" /\ m \in left
      /\ left' = left \ {m} /\ stageOf' = stageOf /\ at' = at
  BY DEF RunModule
<1>2. Sound
  BY <1>1 DEF Sound
<1>3. /\ at > 1 /\ Takes(Script[at - 1]) /\ Script[at - 1].id = open
      /\ left \subseteq ModulesAt(open)
      /\ \A x \in RequiredSlots(open) : Present(x)
  BY <1>1, <1>2 DEF OpenStage
<1>4. open \in Stage /\ at - 1 \in 1 .. 28
  BY <1>1, <1>3, ScriptIs DEF TypeOK
<1>5. stageOf[m] = open
  BY <1>1, <1>3 DEF ModulesAt
<1>6. /\ committed => Committable(out)
      /\ plans' = IF collected THEN Append(plans, m) ELSE plans
      /\ IF committed THEN Write({out}, m) ELSE NoWrite
      /\ audits' = IF out \in Slot \/ reads
                   THEN Append(audits, [module |-> m, wrote |-> out])
                   ELSE audits
      /\ open' = open /\ outcome' = outcome
  BY DEF RunModule, Fail, Sound
<1>7. out \in {"LayerPlan", "SeamPlan", "SupportPlan", "none", "unknown"}
  BY OutputsAre
<1>8. out \in Slot <=> out \in {"LayerPlan", "SeamPlan", "SupportPlan"}
  BY <1>7 DEF Slot
<1> HIDE DEF out
<1>9. \/ out \notin Slot /\ NoWrite /\ plans' = plans
      \/ out = "SupportPlan" /\ NoWrite /\ plans' = Append(plans, m)
      \/ /\ out \in {"LayerPlan", "SeamPlan"} /\ ~Present(out)
         /\ Write({out}, m) /\ plans' = plans
  BY <1>6, <1>7, <1>8 DEF Committable
<1>10. \/ audits' = audits /\ out \notin Slot
       \/ audits' = Append(audits, [module |-> m, wrote |-> out])
  BY <1>6
<1> QED
  BY <1>1, <1>3, <1>4, <1>5, <1>6, <1>9, <1>10 DEF out

LEMMA WriteGrows ==
  ASSUME BoardTypes, NEW W, NEW w \in Writer, Write(W, w)
  PROVE  Grows
<1>1. \A s \in Slot :
        \/ s \in W /\ slots'[s] # <<>> /\ (slots[s] # <<>> => slots'[s][1] = slots[s][1])
        \/ slots'[s] = slots[s]
  BY Written
<1> QED  BY <1>1 DEF Grows

LEMMA NoWriteGrows ==
  ASSUME NoWrite
  PROVE  Grows
BY DEF NoWrite, Grows

LEMMA ModuleGrows ==
  ASSUME TypeOK, OpenStage, NEW m \in Module, NEW r, NEW reads,
         RunModule(m, r, reads)
  PROVE  Grows
<1>1. BoardTypes /\ m \in Writer
  BY DEF TypeOK, BoardTypes, Writer
<1>2. NoWrite \/ Write({OutputOf(open)}, m)
  BY DEF RunModule
<1> QED  BY <1>1, <1>2, WriteGrows, NoWriteGrows

LEMMA RequiredAreSlots == \A s : RequiredSlots(s) \subseteq Slot
BY DEF RequiredSlots, Slot

LEMMA OpenOfModule ==
  ASSUME TypeOK, OpenStage, NEW m \in Module, NEW r, NEW reads,
         RunModule(m, r, reads)
  PROVE  OpenStage'
<1> SUFFICES ASSUME Sound' PROVE OpenStage'
  BY DEF OpenStage
<1>1. /\ outcome = "running" /\ outcome' = "running"
      /\ open \in Stage /\ open' = open /\ at' = at /\ stageOf' = stageOf
      /\ at > 1 /\ Takes(Script[at - 1]) /\ Script[at - 1].id = open
      /\ left' = left \ {m}
      /\ \A x \in RequiredSlots(open) : Present(x)
      /\ plans' = plans \/ OutputOf(open) = "SupportPlan"
  BY AcceptedModule
<1>2. open # "none"
  BY <1>1, NoneIsNoStage
<1>3. left' \subseteq ModulesAt(open)' /\ (plans # <<>> => open = "SupportGeometry")
  BY <1>1, <1>2 DEF OpenStage, Sound, ModulesAt
<1>4. OutputOf(open) = "SupportPlan" => open = "SupportGeometry"
  BY DEF OutputOf
<1>5. Takes(Script[at - 1])'
  BY <1>1 DEF Takes, ModulesAt
<1>6. \A x \in RequiredSlots(open') : Present(x)'
  <2>1. Grows
    BY ModuleGrows
  <2> QED  BY <2>1, <1>1, RequiredAreSlots DEF Grows, Present
<1>7. plans' # <<>> => open' = "SupportGeometry"
  BY <1>1, <1>3, <1>4
<1> QED
  BY <1>1, <1>2, <1>3, <1>5, <1>6, <1>7 DEF OpenStage

LEMMA OpenOfClose ==
  ASSUME TypeOK, OpenStage, NEW twice, CloseStage(twice)
  PROVE  OpenStage'
<1>1. /\ open' = "none" /\ left' = {} /\ plans' = <<>>
      /\ outcome' \in {"running", "commit"}
  BY DEF CloseStage, Fail
<1> QED  BY <1>1 DEF OpenStage, Sound

LEMMA OpenOfFinish ==
  ASSUME TypeOK, OpenStage, Finish
  PROVE  OpenStage'
<1>1. left = {} /\ plans = <<>>
  BY DEF Finish, OpenStage, Sound
<1> QED  BY <1>1 DEF Finish, OpenStage, Sound

-----------------------------------------------------------------------------
(* What the modules leave on the blackboard.                               *)

\* A plan stage is passed over or entered: nothing is written.
LEMMA ChainOfStep ==
  ASSUME TypeOK, Chain, FromFinal, NEW step, AtStep(step),
         step.kind # "builtin", slots' = slots, basis' = basis
  PROVE  Chain' /\ FromFinal'
<1> SUFFICES ASSUME Sound' PROVE Chain' /\ FromFinal'
  BY DEF Chain, FromFinal
<1>1. /\ at \in 1 .. 28 /\ at' = at + 1 /\ step = Script[at]
      /\ outcome = "running"
  BY AtSteps
<1>2. at \in 2 .. 11 \/ at \in 19 .. 28
  BY <1>1, BuiltinSteps
<1>3. Sound
  BY <1>1 DEF Sound
<1>4. \A s : Present(s)' <=> Present(s)
  BY DEF Present
<1>5. SlicesAt' = SlicesAt
  BY <1>1, <1>2, <1>4 DEF SlicesAt
<1>6. Chain'
  BY <1>1, <1>2, <1>3, <1>4, <1>5 DEF Chain
<1>7. FromFinal'
  BY <1>3, <1>4 DEF FromFinal
<1> QED  BY <1>6, <1>7

\* After the built-ins, slices that are there are the final ones.
LEMMA FinalByThen ==
  ASSUME TypeOK, Chain, Sound, at >= 19, Present("LayerPlan")
  PROVE  slots["SliceIR"] = FinalSlices
BY DEF Chain, SlicesAt, TypeOK

LEMMA ChainOfModule ==
  ASSUME TypeOK, OpenStage, Chain, FromFinal, NEW m \in Module, NEW r,
         NEW reads, RunModule(m, r, reads)
  PROVE  Chain' /\ FromFinal'
<1> SUFFICES ASSUME Sound' PROVE Chain' /\ FromFinal'
  BY DEF Chain, FromFinal
<1> DEFINE out == OutputOf(open)
<1>1. /\ outcome = "running" /\ open \in Stage /\ open' = open /\ at' = at
      /\ at > 1 /\ at - 1 \in 1 .. 28 /\ Takes(Script[at - 1])
      /\ Script[at - 1].id = open
      /\ \A x \in RequiredSlots(open) : Present(x)
      /\ \/ NoWrite
         \/ out \in {"LayerPlan", "SeamPlan"} /\ ~Present(out) /\ Write({out}, m)
  BY AcceptedModule
<1>2. Sound /\ open # "none"
  BY <1>1, NoneIsNoStage DEF Sound
<1>3. CASE NoWrite
  <2>1. /\ slots' = slots /\ basis' = basis /\ at' = at /\ open' = open
    BY <1>3, <1>1 DEF NoWrite
  <2>2. Chain'
    BY <2>1, <1>2 DEF Chain, SlicesAt, Present
  <2>3. FromFinal'
    BY <2>1, <1>2 DEF FromFinal, Present
  <2> QED  BY <2>2, <2>3
<1>4. CASE out = "LayerPlan" /\ ~Present(out) /\ Write({out}, m)
  <2>1. open = "LayerPlanning"
    BY <1>4 DEF OutputOf
  <2>2. at - 1 \in 2 .. 11
    BY <2>1, <1>1, TakenSteps DEF LateStages
  <2>3. at <= 12 /\ at > 1 /\ at \in Nat
    BY <2>2 DEF TypeOK
  <2>4. BoardTypes /\ m \in Writer
    BY DEF TypeOK, BoardTypes, Writer
  <2>5. /\ \A s \in Slot \ {"LayerPlan"} : slots'[s] = slots[s] /\ basis'[s] = basis[s]
        /\ Write({"LayerPlan"}, m)
    BY <2>4, <1>4, Written
  <2>6. /\ slots'["SurfaceClassification"] = slots["SurfaceClassification"]
        /\ slots'["RegionMap"] = slots["RegionMap"]
        /\ slots'["SliceIR"] = slots["SliceIR"]
        /\ slots'["SupportAnalysis"] = slots["SupportAnalysis"]
        /\ slots'["SupportGeometry"] = slots["SupportGeometry"]
        /\ slots'["SeamPlan"] = slots["SeamPlan"]
        /\ slots'["SupportPlan"] = slots["SupportPlan"]
    BY <2>5, SlotNames
  <2>7. /\ ~Present("RegionMap") /\ slots["SliceIR"] = <<>>
        /\ ~Present("SupportAnalysis") /\ ~Present("SupportGeometry")
        /\ ~Present("SeamPlan") /\ ~Present("SupportPlan")
        /\ Present("SurfaceClassification")
    BY <2>3, <1>2 DEF Chain, SlicesAt
  <2>8. SlicesAt' = <<>>
    BY <2>3, <1>1 DEF SlicesAt
  <2>9. Chain'
    BY <2>3, <2>6, <2>7, <2>8, <1>1 DEF Chain, Present
  <2>10. FromFinal'
    BY <2>6, <2>7 DEF FromFinal, Present
  <2> QED  BY <2>9, <2>10
<1>5. CASE out = "SeamPlan" /\ ~Present(out) /\ Write({out}, m)
  <2>1. open = "SeamPlanning"
    BY <1>5 DEF OutputOf
  <2>2. at - 1 \in 19 .. 28
    BY <2>1, <1>1, TakenSteps DEF LateStages
  <2>3. at >= 20 /\ at > 19 /\ at \in Nat
    BY <2>2 DEF TypeOK
  <2>4. Present("LayerPlan")
    BY <2>1, <1>1 DEF RequiredSlots
  <2>5. slots["SliceIR"] = FinalSlices
    BY <2>3, <2>4, <1>2, FinalByThen
  <2>6. BoardTypes /\ m \in Writer
    BY DEF TypeOK, BoardTypes, Writer
  <2>7. /\ \A s \in Slot \ {"SeamPlan"} : slots'[s] = slots[s] /\ basis'[s] = basis[s]
        /\ basis'["SeamPlan"] = slots
    BY <2>6, <1>5, Written, SlotNames
  <2>8. /\ slots'["SurfaceClassification"] = slots["SurfaceClassification"]
        /\ slots'["RegionMap"] = slots["RegionMap"]
        /\ slots'["SliceIR"] = slots["SliceIR"]
        /\ slots'["LayerPlan"] = slots["LayerPlan"]
        /\ slots'["SupportAnalysis"] = slots["SupportAnalysis"]
        /\ slots'["SupportGeometry"] = slots["SupportGeometry"]
        /\ slots'["SupportPlan"] = slots["SupportPlan"]
        /\ basis'["SupportAnalysis"] = basis["SupportAnalysis"]
        /\ basis'["SupportGeometry"] = basis["SupportGeometry"]
        /\ basis'["SupportPlan"] = basis["SupportPlan"]
    BY <2>7, SlotNames
  <2>9. Chain'
    BY <2>3, <2>8, <1>1, <1>2 DEF Chain, SlicesAt, Present
  <2>10. FromFinal'
    BY <2>5, <2>7, <2>8, <1>2 DEF FromFinal, Present
  <2> QED  BY <2>9, <2>10
<1> QED  BY <1>1, <1>3, <1>4, <1>5

\* What the end of a stage did.
LEMMA ClosedStage ==
  ASSUME TypeOK, OpenStage, Chain, NEW twice, CloseStage(twice), Sound'
  PROVE  /\ Sound /\ open \in Stage /\ open' = "none" /\ at' = at
         /\ left = {} /\ left' = {} /\ plans' = <<>>
         /\ slots["SupportPlan"] = <<>>
         /\ \/ NoWrite /\ plans = <<>>
            \/ /\ Write({"SupportPlan"}, Aggregation)
               /\ at = 29 /\ Present("LayerPlan")
<1>1. /\ outcome = "running" /\ open # "none" /\ left = {} /\ left' = left
      /\ open' = "none" /\ at' = at /\ plans' = <<>>
      /\ \/ NoWrite /\ plans = <<>>
         \/ Write({"SupportPlan"}, Aggregation) /\ plans # <<>>
  BY DEF CloseStage, Fail, Sound
<1>2. Sound /\ open \in Stage
  BY <1>1 DEF Sound, TypeOK
<1>3. slots["SupportPlan"] = <<>>
  BY <1>1, <1>2 DEF Chain, Present
<1>4. ASSUME plans # <<>>
      PROVE  at = 29 /\ Present("LayerPlan")
  <2>1. /\ open = "SupportGeometry" /\ at > 1 /\ Takes(Script[at - 1])
        /\ Script[at - 1].id = open
        /\ \A r \in RequiredSlots(open) : Present(r)
    BY <1>1, <1>2, <1>4 DEF OpenStage
  <2>2. at \in Nat /\ at - 1 \in 1 .. 28
    BY <2>1, ScriptIs DEF TypeOK
  <2>3. at - 1 = 28
    BY <2>1, <2>2, TakenSteps
  <2> QED  BY <2>1, <2>2, <2>3 DEF RequiredSlots
<1> QED  BY <1>1, <1>2, <1>3, <1>4

LEMMA ChainOfClose ==
  ASSUME TypeOK, OpenStage, Chain, FromFinal, NEW twice, CloseStage(twice)
  PROVE  Chain' /\ FromFinal'
<1> SUFFICES ASSUME Sound' PROVE Chain' /\ FromFinal'
  BY DEF Chain, FromFinal
<1>1. /\ Sound /\ open' = "none" /\ at' = at
      /\ \/ NoWrite
         \/ /\ Write({"SupportPlan"}, Aggregation)
            /\ at = 29 /\ Present("LayerPlan")
  BY ClosedStage
<1>2. CASE NoWrite
  <2>1. slots' = slots /\ basis' = basis
    BY <1>2 DEF NoWrite
  <2>2. Chain'
    BY <2>1, <1>1 DEF Chain, SlicesAt, Present
  <2>3. FromFinal'
    BY <2>1, <1>1 DEF FromFinal, Present
  <2> QED  BY <2>2, <2>3
<1>3. CASE /\ Write({"SupportPlan"}, Aggregation)
           /\ at = 29 /\ Present("LayerPlan")
  <2>1. slots["SliceIR"] = FinalSlices
    BY <1>1, <1>3, FinalByThen
  <2>2. BoardTypes /\ Aggregation \in Writer
    BY DEF TypeOK, BoardTypes, Writer
  <2>3. /\ \A s \in Slot \ {"SupportPlan"} : slots'[s] = slots[s] /\ basis'[s] = basis[s]
        /\ basis'["SupportPlan"] = slots
    BY <2>2, <1>3, Written, SlotNames
  <2>4. /\ slots'["SurfaceClassification"] = slots["SurfaceClassification"]
        /\ slots'["RegionMap"] = slots["RegionMap"]
        /\ slots'["SliceIR"] = slots["SliceIR"]
        /\ slots'["LayerPlan"] = slots["LayerPlan"]
        /\ slots'["SupportAnalysis"] = slots["SupportAnalysis"]
        /\ slots'["SupportGeometry"] = slots["SupportGeometry"]
        /\ slots'["SeamPlan"] = slots["SeamPlan"]
        /\ basis'["SupportAnalysis"] = basis["SupportAnalysis"]
        /\ basis'["SupportGeometry"] = basis["SupportGeometry"]
        /\ basis'["SeamPlan"] = basis["SeamPlan"]
    BY <2>3, SlotNames
  <2>5. Chain'
    BY <2>4, <1>1, <1>3 DEF Chain, SlicesAt, Present
  <2>6. FromFinal'
    BY <2>1, <2>3, <2>4, <1>1 DEF FromFinal, Present
  <2> QED  BY <2>5, <2>6
<1> QED  BY <1>1, <1>2, <1>3

LEMMA ChainOfFinish ==
  ASSUME TypeOK, Chain, FromFinal, Finish
  PROVE  Chain' /\ FromFinal'
<1>1. /\ Sound /\ slots' = slots /\ basis' = basis /\ at' = at /\ open' = open
  BY DEF Finish, Sound
<1>2. Chain'
  BY <1>1 DEF Chain, SlicesAt, Present
<1>3. FromFinal'
  BY <1>1 DEF FromFinal, Present
<1> QED  BY <1>2, <1>3

-----------------------------------------------------------------------------
(* What the modules produced is kept.                                      *)

Settled(m) == Ended(m) /\ Audited(m) /\ Stored(m)

AuditsOnly == ToSet(audits) \subseteq ToSet(audits')

\* A step that loses no callback, audit, slot or collected plan keeps what is
\* settled.
LEMMA StaysSettled ==
  ASSUME NEW m \in Module, Settled(m), Logged, Grows, AuditsOnly,
         stageOf' = stageOf,
         OutputOf(stageOf[m]) = "SupportPlan" =>
           slots'["SupportPlan"] = <<Aggregation>> \/ plans' # <<>>
  PROVE  Settled(m)'
<1>1. Ended(m)'
  <2>1. PICK i \in DOMAIN events : events[i].kind = "module_end" /\ events[i].of = m
    BY DEF Settled, Ended
  <2>2. i \in DOMAIN events' /\ events'[i] = events[i]
    BY DEF Logged, Extends
  <2> QED  BY <2>1, <2>2 DEF Ended
<1>2. Audited(m)'
  BY DEF Settled, Audited, AuditsOnly
<1>3. Stored(m)'
  BY DEF Settled, Stored, Grows, Present
<1> QED  BY <1>1, <1>2, <1>3 DEF Settled

\* A step that goes on reaches the modules of its own stage only.
LEMMA NewlyReached ==
  ASSUME TypeOK, NEW step, AtStep(step), stageOf' = stageOf,
         NEW m \in Module, Reached(m)'
  PROVE  Reached(m) \/ Covers(step, stageOf[m])
<1>1. at \in 1 .. 28 /\ at' = at + 1 /\ step = Script[at]
  BY AtSteps
<1>2. PICK i \in 1 .. at' - 1 : Covers(Script[i], stageOf[m])
  BY DEF Reached
<1>3. i \in 1 .. at - 1 \/ i = at
  BY <1>1, <1>2
<1> QED  BY <1>1, <1>2, <1>3 DEF Reached

LEMMA KeptMeans ==
  Kept <=> (Sound => \A m \in Module : Reached(m) => m \in left \/ Settled(m))
BY DEF Kept, Settled

LEMMA SupportPlanStays ==
  ASSUME NEW m, Settled(m), slots'["SupportPlan"] = slots["SupportPlan"],
         plans' = plans
  PROVE  OutputOf(stageOf[m]) = "SupportPlan" =>
           slots'["SupportPlan"] = <<Aggregation>> \/ plans' # <<>>
BY DEF Settled, Stored

LEMMA KeptOfBuiltin ==
  ASSUME TypeOK, BracketsBalanced, Chain, Kept, NEW step, NEW ok,
         RunBuiltin(step, ok)
  PROVE  Kept'
<1> SUFFICES ASSUME Sound' PROVE Kept'
  BY DEF Kept
<1>1. /\ AtStep(step) /\ step.kind = "builtin" /\ stageOf' = stageOf
      /\ plans' = plans /\ left' = left /\ audits' = audits
  BY DEF RunBuiltin
<1>2. /\ Sound /\ at \in 1 .. 28
      /\ NoWrite \/ Write(Affects(at), Script[at].id)
  BY BuiltinWrites
<1>3. BoardTypes /\ Script[at].id \in Writer
  BY <1>2, ScriptIs DEF TypeOK, BoardTypes, StepRecord, Writer
<1>4. Grows /\ slots'["SupportPlan"] = slots["SupportPlan"]
  <2>1. CASE NoWrite
    BY <2>1, NoWriteGrows DEF NoWrite
  <2>2. CASE Write(Affects(at), Script[at].id)
    <3>1. "SupportPlan" \notin Affects(at)
      BY DEF Affects
    <3> QED  BY <3>1, <2>2, <1>3, Written, WriteGrows, SlotNames
  <2> QED  BY <2>1, <2>2, <1>2
<1>5. Logged /\ AuditsOnly
  BY <1>1, LogOfBuiltin DEF AuditsOnly
<1>6. ASSUME NEW m \in Module, Reached(m)'
      PROVE  m \in left' \/ Settled(m)'
  <2>1. Reached(m)
    BY <1>1, <1>6, NewlyReached DEF Covers
  <2>2. m \in left \/ Settled(m)
    BY <2>1, <1>2, KeptMeans
  <2>3. CASE Settled(m)
    BY <2>3, <1>1, <1>4, <1>5, SupportPlanStays, StaysSettled
  <2> QED  BY <2>2, <2>3, <1>1
<1> QED  BY <1>6 DEF Kept, Settled

LEMMA KeptOfPass ==
  ASSUME TypeOK, BracketsBalanced, Kept, NEW step, PassOver(step)
  PROVE  Kept'
<1>1. /\ AtStep(step) /\ step.kind # "builtin" /\ ~Takes(step)
      /\ stageOf' = stageOf /\ plans' = plans /\ left' = left
      /\ audits' = audits /\ slots' = slots /\ basis' = basis
      /\ events' = events /\ open' = open
  BY DEF PassOver
<1>2. Sound
  BY <1>1, AtSteps DEF Sound
<1>3. Logged /\ AuditsOnly /\ Grows
  BY <1>1, LogSame, NoWriteGrows DEF AuditsOnly, NoWrite
<1>4. ASSUME NEW m \in Module, Reached(m)'
      PROVE  m \in left' \/ Settled(m)'
  <2>1. ~Covers(step, stageOf[m])
    <3>1. SUFFICES ASSUME Covers(step, stageOf[m]) PROVE Takes(step)
      BY <1>1
    <3>2. m \in ModulesAt(step.id)
      BY <3>1 DEF Covers, ModulesAt
    <3> QED  BY <3>1, <3>2 DEF Covers, Takes
  <2>2. Reached(m)
    BY <2>1, <1>1, <1>4, NewlyReached
  <2>3. m \in left \/ Settled(m)
    BY <2>2, <1>2, KeptMeans
  <2>4. CASE Settled(m)
    BY <2>4, <1>1, <1>3, SupportPlanStays, StaysSettled
  <2> QED  BY <2>3, <2>4, <1>1
<1> QED  BY <1>4 DEF Kept, Settled

LEMMA KeptOfEnter ==
  ASSUME TypeOK, BracketsBalanced, OpenStage, Kept, NEW step, EnterStage(step)
  PROVE  Kept'
<1> SUFFICES ASSUME Sound' PROVE Kept'
  BY DEF Kept
<1>1. /\ AtStep(step) /\ stageOf' = stageOf /\ plans' = plans
      /\ audits' = audits /\ slots' = slots /\ basis' = basis
      /\ left' = ModulesAt(step.id)
  BY DEF EnterStage, Fail, Sound
<1>2. Sound /\ left = {}
  BY <1>1, AtSteps DEF Sound, OpenStage
<1>3. Logged /\ AuditsOnly /\ Grows
  BY <1>1, LogOfEnter, NoWriteGrows DEF AuditsOnly, NoWrite
<1>4. ASSUME NEW m \in Module, Reached(m)'
      PROVE  m \in left' \/ Settled(m)'
  <2>1. CASE Covers(step, stageOf[m])
    BY <2>1, <1>1 DEF Covers, ModulesAt
  <2>2. CASE Reached(m)
    <3>1. Settled(m)
      BY <2>2, <1>2, KeptMeans
    <3> QED  BY <3>1, <1>1, <1>3, SupportPlanStays, StaysSettled
  <2> QED  BY <2>1, <2>2, <1>1, <1>4, NewlyReached
<1> QED  BY <1>4 DEF Kept, Settled

LEMMA AuditAppended ==
  ASSUME TypeOK, NEW a, audits' = Append(audits, a),
         a \in [module : Module, wrote : Slot \cup {"none"}]
  PROVE  AuditsOnly /\ a \in ToSet(audits')
<1>1. /\ audits \in Seq([module : Module, wrote : Slot \cup {"none"}])
  BY DEF TypeOK
<1>2. /\ Len(audits) \in Nat /\ DOMAIN audits = 1 .. Len(audits)
      /\ DOMAIN audits' = 1 .. Len(audits) + 1
      /\ \A i \in 1 .. Len(audits) : audits'[i] = audits[i]
      /\ audits'[Len(audits) + 1] = a
  BY <1>1, AppendProperties
<1>3. AuditsOnly
  BY <1>2 DEF AuditsOnly, ToSet
<1>4. Len(audits) + 1 \in DOMAIN audits'
  BY <1>2
<1> QED  BY <1>2, <1>3, <1>4 DEF ToSet

LEMMA KeptOfModule ==
  ASSUME TypeOK, BracketsBalanced, OpenStage, Kept, NEW m \in Module, NEW r,
         NEW reads, RunModule(m, r, reads)
  PROVE  Kept'
<1> SUFFICES ASSUME Sound' PROVE Kept'
  BY DEF Kept
<1> DEFINE out == OutputOf(open)
           audit == [module |-> m, wrote |-> out]
<1>1. /\ outcome = "running" /\ at' = at /\ stageOf' = stageOf
      /\ stageOf[m] = open /\ left' = left \ {m}
      /\ \/ out \notin Slot /\ NoWrite /\ plans' = plans
         \/ out = "SupportPlan" /\ NoWrite /\ plans' = Append(plans, m)
         \/ /\ out \in {"LayerPlan", "SeamPlan"} /\ ~Present(out)
            /\ Write({out}, m) /\ plans' = plans
      /\ \/ audits' = audits /\ out \notin Slot
         \/ audits' = Append(audits, audit)
  BY AcceptedModule
<1>2. Logged /\ Ended(m)' /\ Grows
  BY LogOfModule, ModuleGrows
<1>3. BoardTypes /\ m \in Writer
  BY DEF TypeOK, BoardTypes, Writer
<1>4. plans # <<>> => plans' # <<>>
  <2>1. Append(plans, m) # <<>>
    BY AppendProperties DEF TypeOK
  <2> QED  BY <2>1, <1>1
<1>5. AuditsOnly /\ (out \in Slot => audit \in ToSet(audits'))
  <2>1. CASE audits' = audits /\ out \notin Slot
    BY <2>1 DEF AuditsOnly
  <2>2. CASE audits' = Append(audits, audit)
    <3>1. CASE out = "unknown"
      <4>1. FALSE
        BY <3>1, <1>1 DEF RunModule, Fail, Sound
      <4> QED  BY <4>1
    <3>2. CASE out # "unknown"
      <4>1. out \in Slot \cup {"none"}
        BY <3>2, OutputsAre DEF Slot
      <4> QED  BY <4>1, <2>2, AuditAppended
    <3> QED  BY <3>1, <3>2
  <2> QED  BY <2>1, <2>2, <1>1
<1>6. slots'["SupportPlan"] = slots["SupportPlan"]
  <2>1. CASE NoWrite
    BY <2>1 DEF NoWrite
  <2>2. CASE out \in {"LayerPlan", "SeamPlan"} /\ Write({out}, m)
    BY <2>2, <1>3, Written, SlotNames
  <2> QED  BY <2>1, <2>2, <1>1
<1>7. Settled(m)'
  <2>1. Audited(m)'
    BY <1>1, <1>5 DEF Audited
  <2>2. out = "SupportPlan" => plans' # <<>>
    <3>1. out = "SupportPlan" => plans' = Append(plans, m)
      BY <1>1 DEF Slot
    <3>2. Append(plans, m) # <<>>
      BY AppendProperties DEF TypeOK
    <3> QED  BY <3>1, <3>2
  <2>3. out \in Slot \ {"SupportPlan"} => slots'[out] # <<>> /\ slots'[out][1] = m
    <3>1. SUFFICES ASSUME out \in Slot \ {"SupportPlan"}
                   PROVE  slots'[out] # <<>> /\ slots'[out][1] = m
      OBVIOUS
    <3>2. Write({out}, m) /\ slots[out] = <<>>
      BY <3>1, <1>1 DEF Present
    <3> QED  BY <3>1, <3>2, <1>3, Written
  <2>4. Stored(m)'
    BY <2>2, <2>3, <1>1 DEF Stored, Present
  <2> QED  BY <2>1, <2>4, <1>2 DEF Settled
<1>8. ASSUME NEW x \in Module, Reached(x)', x # m
      PROVE  x \in left' \/ Settled(x)'
  <2>1. Reached(x)
    BY <1>1, <1>8 DEF Reached
  <2>2. x \in left \/ Settled(x)
    BY <2>1, <1>1, KeptMeans DEF Sound
  <2>3. CASE Settled(x)
    <3>1. OutputOf(stageOf[x]) = "SupportPlan" =>
            slots'["SupportPlan"] = <<Aggregation>> \/ plans' # <<>>
      BY <2>3, <1>4, <1>6 DEF Settled, Stored
    <3> QED  BY <3>1, <2>3, <1>1, <1>2, <1>5, StaysSettled
  <2> QED  BY <2>2, <2>3, <1>1, <1>8
<1> QED  BY <1>7, <1>8 DEF Kept, Settled

LEMMA KeptOfClose ==
  ASSUME TypeOK, BracketsBalanced, OpenStage, Chain, Kept, NEW twice,
         CloseStage(twice)
  PROVE  Kept'
<1> SUFFICES ASSUME Sound' PROVE Kept'
  BY DEF Kept
<1>1. /\ Sound /\ at' = at /\ left = {} /\ left' = {}
      /\ slots["SupportPlan"] = <<>>
      /\ \/ NoWrite /\ plans = <<>>
         \/ Write({"SupportPlan"}, Aggregation)
  BY ClosedStage
<1>2. stageOf' = stageOf /\ audits' = audits
  BY DEF CloseStage
<1>3. BoardTypes /\ Aggregation \in Writer
  BY DEF TypeOK, BoardTypes, Writer
<1>4. Logged /\ AuditsOnly /\ Grows
  BY <1>1, <1>2, <1>3, LogOfClose, NoWriteGrows, WriteGrows DEF AuditsOnly
<1>5. ASSUME NEW m \in Module, Reached(m)'
      PROVE  Settled(m)'
  <2>1. Reached(m)
    BY <1>1, <1>2, <1>5 DEF Reached
  <2>2. Settled(m)
    BY <2>1, <1>1, KeptMeans
  <2>3. OutputOf(stageOf[m]) = "SupportPlan" => slots'["SupportPlan"] = <<Aggregation>>
    <3>1. CASE NoWrite /\ plans = <<>>
      BY <3>1, <2>2 DEF Settled, Stored, NoWrite
    <3>2. CASE Write({"SupportPlan"}, Aggregation)
      <4>1. slots'["SupportPlan"] = Append(<<>>, Aggregation)
        BY <3>2, <1>1, <1>3, Written, SlotNames
      <4> QED  BY <4>1
    <3> QED  BY <3>1, <3>2, <1>1
  <2> QED  BY <2>2, <2>3, <1>2, <1>4, StaysSettled
<1> QED  BY <1>5 DEF Kept, Settled

LEMMA KeptOfFinish ==
  ASSUME TypeOK, Kept, Finish
  PROVE  Kept'
BY DEF Finish, Kept, Sound, Reached, Ended, Audited, Stored, Present

-----------------------------------------------------------------------------
(* The invariant of the tier.                                              *)

LEMMA PrePassStarts == Init => PrePassInv
<1> SUFFICES ASSUME Init PROVE PrePassInv
  OBVIOUS
<1>1. /\ stageOf \in [Module -> Stage \cup {"none"}]
      /\ at = 1 /\ open = "none" /\ left = {} /\ plans = <<>>
      /\ slots = Empty /\ basis = [s \in Slot |-> Empty]
      /\ audits = <<>> /\ events = <<>> /\ outcome = "running"
  BY DEF Init
<1>2. Empty \in Board
  BY DEF Empty, Board
<1>3. TypeOK
  BY <1>1, <1>2, ScriptIs DEF TypeOK
<1>4. \A s \in Slot : ~Present(s)
  BY <1>1 DEF Present, Empty
<1>5. OpenStage
  BY <1>1 DEF OpenStage
<1>6. slots["SliceIR"] = <<>>
  BY <1>4, SlotNames DEF Present
<1>7. Chain
  BY <1>1, <1>4, <1>6, SlotNames DEF Chain, SlicesAt
<1>8. FromFinal
  BY <1>4, SlotNames DEF FromFinal
<1>9. Kept
  BY <1>1 DEF Kept, Reached
<1>10. BracketsBalanced
  <2>1. DOMAIN events = {} /\ Len(events) = 0
    BY <1>1
  <2>2. \A s \in Stage : ~OpenAfter(events, Len(events), s)
    BY <2>1 DEF OpenAfter
  <2> QED  BY <2>1, <2>2, <1>1, NoneIsNoStage DEF BracketsBalanced
<1> QED  BY <1>3, <1>5, <1>7, <1>8, <1>9, <1>10 DEF PrePassInv

LEMMA PrePassStutters ==
  ASSUME PrePassInv, UNCHANGED vars
  PROVE  PrePassInv'
<1>1. /\ stageOf' = stageOf /\ at' = at /\ open' = open /\ left' = left
      /\ plans' = plans /\ slots' = slots /\ basis' = basis
      /\ audits' = audits /\ events' = events /\ outcome' = outcome
  BY DEF vars
<1>2. TypeOK'
  BY <1>1 DEF PrePassInv, TypeOK
<1>3. OpenStage'
  BY <1>1 DEF PrePassInv, OpenStage, Sound, Takes, ModulesAt, Present
<1>4. Chain'
  BY <1>1 DEF PrePassInv, Chain, Sound, SlicesAt, Present
<1>5. FromFinal'
  BY <1>1 DEF PrePassInv, FromFinal, Sound, Present
<1>6. Kept'
  BY <1>1
  DEF PrePassInv, Kept, Sound, Reached, Ended, Audited, Stored, Present
<1>7. BracketsBalanced'
  BY <1>1 DEF PrePassInv, BracketsBalanced
<1> QED  BY <1>2, <1>3, <1>4, <1>5, <1>6, <1>7 DEF PrePassInv

LEMMA PrePassSteps ==
  ASSUME PrePassInv, [Next]_vars
  PROVE  PrePassInv'
<1>0. TypeOK /\ OpenStage /\ Chain /\ FromFinal /\ Kept /\ BracketsBalanced
  BY DEF PrePassInv
<1>1. ASSUME NEW step, NEW ok, RunBuiltin(step, ok)
      PROVE  PrePassInv'
  <2>1. TypeOK' /\ BracketsBalanced'
    BY <1>0, <1>1, TypesOfBuiltin, LogOfBuiltin DEF Logged
  <2>2. OpenStage' /\ Chain' /\ FromFinal' /\ Kept'
    BY <1>0, <1>1, OpenOfBuiltin, ChainOfBuiltin, KeptOfBuiltin
  <2> QED  BY <2>1, <2>2 DEF PrePassInv
<1>2. ASSUME NEW step, PassOver(step)
      PROVE  PrePassInv'
  <2>1. /\ AtStep(step) /\ step.kind # "builtin" /\ slots' = slots
        /\ basis' = basis /\ events' = events /\ open' = open
    BY <1>2 DEF PassOver
  <2>2. TypeOK' /\ BracketsBalanced'
    BY <1>0, <1>2, <2>1, TypesOfPass, LogSame DEF Logged
  <2>3. OpenStage' /\ Chain' /\ FromFinal' /\ Kept'
    BY <1>0, <1>2, <2>1, OpenOfPass, ChainOfStep, KeptOfPass
  <2> QED  BY <2>2, <2>3 DEF PrePassInv
<1>3. ASSUME NEW step, EnterStage(step)
      PROVE  PrePassInv'
  <2>1. /\ AtStep(step) /\ step.kind # "builtin" /\ slots' = slots
        /\ basis' = basis
    BY <1>3 DEF EnterStage, Takes
  <2>2. TypeOK' /\ BracketsBalanced'
    BY <1>0, <1>3, TypesOfEnter, LogOfEnter DEF Logged
  <2>3. OpenStage' /\ Chain' /\ FromFinal' /\ Kept'
    BY <1>0, <1>3, <2>1, OpenOfEnter, ChainOfStep, KeptOfEnter
  <2> QED  BY <2>2, <2>3 DEF PrePassInv
<1>4. ASSUME NEW m \in Module, NEW r, NEW reads, RunModule(m, r, reads)
      PROVE  PrePassInv'
  <2>1. TypeOK' /\ BracketsBalanced'
    BY <1>0, <1>4, TypesOfModule, LogOfModule DEF Logged
  <2>2. OpenStage' /\ Chain' /\ FromFinal' /\ Kept'
    BY <1>0, <1>4, OpenOfModule, ChainOfModule, KeptOfModule
  <2> QED  BY <2>1, <2>2 DEF PrePassInv
<1>5. ASSUME NEW twice, CloseStage(twice)
      PROVE  PrePassInv'
  <2>1. TypeOK' /\ BracketsBalanced'
    BY <1>0, <1>5, TypesOfClose, LogOfClose DEF Logged
  <2>2. OpenStage' /\ Chain' /\ FromFinal' /\ Kept'
    BY <1>0, <1>5, OpenOfClose, ChainOfClose, KeptOfClose
  <2> QED  BY <2>1, <2>2 DEF PrePassInv
<1>6. CASE Finish
  <2>1. TypeOK'
    BY <1>0, <1>6 DEF TypeOK, Finish
  <2>2. BracketsBalanced'
    BY <1>0, <1>6, LogSame DEF Logged, Finish
  <2>3. OpenStage' /\ Chain' /\ FromFinal' /\ Kept'
    BY <1>0, <1>6, OpenOfFinish, ChainOfFinish, KeptOfFinish
  <2> QED  BY <2>1, <2>2, <2>3 DEF PrePassInv
<1>7. CASE UNCHANGED vars
  BY <1>7, PrePassStutters
<1> QED
  BY <1>1, <1>2, <1>3, <1>4, <1>5, <1>6, <1>7 DEF Next, Done

\* Whatever modules the plan has and whatever of it fails, the tier stays
\* within its types, and the blackboard, the open stage, the collected plans
\* and the log agree with the step of the script the tier has come to.
THEOREM PrePassInvariant == Spec => []PrePassInv
<1>1. Init => PrePassInv
  BY PrePassStarts
<1>2. PrePassInv /\ [Next]_vars => PrePassInv'
  BY PrePassSteps
<1> QED  BY <1>1, <1>2, PTL DEF Spec

\* execute_prepass computes supports, seams and support plans from the slices
\* and the layer plan that the layer tier prints: no built-in or module
\* replaces either one after something was planned from it.
THEOREM PlansFollowTheFinalSlices == Spec => []PlannedFromFinal
<1>1. PrePassInv => PlannedFromFinal
  BY DEF PrePassInv, FromFinal, Sound, PlannedFromFinal
<1> QED  BY <1>1, PrePassInvariant, PTL

\* No guard of run_builtin_stage skips one built-in of the chain after it let
\* another run: with a layer plan every product of the host is there, and the
\* slices were made, classified and painted in this order; without one only
\* the surface classification is.
THEOREM HostProductsComplete == Spec => []HostChainWhole
<1>1. PrePassInv => HostChainWhole
  <2> SUFFICES ASSUME PrePassInv, outcome = "ok"
               PROVE  /\ Present("SurfaceClassification")
                      /\ \A p \in {"RegionMap", "SliceIR", "SupportAnalysis",
                                   "SupportGeometry"} :
                           Present(p) <=> Present("LayerPlan")
                      /\ Present("LayerPlan") => slots["SliceIR"] = FinalSlices
    BY DEF HostChainWhole
  <2>1. Sound /\ at = 29
    BY ScriptIs DEF PrePassInv, OpenStage, Sound
  <2>2. /\ Present("SurfaceClassification")
        /\ Present("RegionMap") <=> Present("LayerPlan")
        /\ Present("SupportAnalysis") <=> Present("LayerPlan")
        /\ Present("SupportGeometry") <=> Present("LayerPlan")
        /\ slots["SliceIR"] = IF Present("LayerPlan") THEN FinalSlices ELSE <<>>
    BY <2>1 DEF PrePassInv, Chain, SlicesAt
  <2>3. FinalSlices # <<>>
    BY DEF FinalSlices
  <2>4. Present("SliceIR") <=> Present("LayerPlan")
    BY <2>2, <2>3 DEF Present
  <2> QED  BY <2>2, <2>4
<1> QED  BY <1>1, PrePassInvariant, PTL

\* Every stage has its step in one of the two loops over the plan.
LEMMA EveryStageCovered ==
  ASSUME NEW s \in Stage
  PROVE  \E i \in 1 .. 28 : Covers(Script[i], s)
<1>1. PICK k \in 1 .. 10 : StageOrder[k] = s
  <2>1. DOMAIN StageOrder = 1 .. 10
    BY DEF StageOrder
  <2> QED  BY <2>1 DEF Stage, ToSet
<1>2. CASE RequiresRegionMap(s)
  <2>1. PICK i \in 19 .. 28 : i - 18 = k
    <3>1. k + 18 \in 19 .. 28 /\ k + 18 - 18 = k
      OBVIOUS
    <3> QED  BY <3>1
  <2>2. Script[i] = [kind |-> "late", id |-> s]
    BY <1>1, <2>1, ScriptIs
  <2>3. i \in 1 .. 28
    OBVIOUS
  <2> QED  BY <1>2, <2>2, <2>3 DEF Covers
<1>3. CASE ~RequiresRegionMap(s)
  <2>1. PICK i \in 2 .. 11 : i - 1 = k
    <3>1. k + 1 \in 2 .. 11 /\ k + 1 - 1 = k
      OBVIOUS
    <3> QED  BY <3>1
  <2>2. Script[i] = [kind |-> "early", id |-> s]
    BY <1>1, <2>1, ScriptIs
  <2>3. i \in 1 .. 28
    OBVIOUS
  <2> QED  BY <1>3, <2>2, <2>3 DEF Covers
<1> QED  BY <1>2, <1>3

\* execute_prepass returns Ok only when every planned module ran and what it
\* produced was committed or aggregated and audited: neither loop's filter
\* leaves a stage of the plan out, and no collected support plan is dropped.
THEOREM OutputsReachTheBlackboard == Spec => []NoOutputLost
<1>1. PrePassInv => NoOutputLost
  <2> SUFFICES ASSUME PrePassInv, outcome = "ok",
                      NEW m \in Module, stageOf[m] # "none"
               PROVE  /\ \E i \in DOMAIN events :
                           events[i].kind = "module_end" /\ events[i].of = m
                      /\ OutputOf(stageOf[m]) = "SupportPlan" =>
                           slots[OutputOf(stageOf[m])] = <<Aggregation>>
                      /\ OutputOf(stageOf[m]) \in Slot \ {"SupportPlan"} =>
                           slots[OutputOf(stageOf[m])][1] = m
                      /\ OutputOf(stageOf[m]) \in Slot =>
                           [module |-> m, wrote |-> OutputOf(stageOf[m])]
                             \in ToSet(audits)
    BY DEF NoOutputLost
  <2>1. Sound /\ at = 29 /\ left = {} /\ plans = <<>>
    BY ScriptIs DEF PrePassInv, OpenStage, Sound
  <2>2. stageOf[m] \in Stage
    BY DEF PrePassInv, TypeOK
  <2>3. Reached(m)
    BY <2>1, <2>2, EveryStageCovered DEF Reached
  <2>4. Ended(m) /\ Audited(m) /\ Stored(m)
    BY <2>1, <2>3 DEF PrePassInv, Kept
  <2> QED  BY <2>1, <2>4 DEF Ended, Audited, Stored
<1> QED  BY <1>1, PrePassInvariant, PTL

\* The callbacks of StageInstrumentationGuard and of the stage loops nest on
\* every path, error returns and the Drop of a guard included.
THEOREM CallbacksNest == Spec => []BracketsBalanced
<1>1. PrePassInv => BracketsBalanced
  BY DEF PrePassInv
<1> QED  BY <1>1, PrePassInvariant, PTL

=============================================================================
