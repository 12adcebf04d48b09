--------------------------- MODULE MCModuleSchedule ---------------------------
(* Instances of ModuleSchedule: the inputs that each question needs.         *)
EXTENDS ModuleSchedule

\* A manifest with nothing declared.
Plain(id, stage) ==
    [id |-> id, stage |-> stage, reads |-> {}, writes |-> {}, claims |-> {},
     needs |-> {}, requires |-> {}, incompatible |-> {}, compatible |-> TRUE,
     broken |-> FALSE, loads |-> TRUE]

MCModuleId == 1 .. 4

\* The host slices before the layers and plans supports in its own stage.
MCBuiltins ==
    {[Plain(10, "Slice") EXCEPT !.writes = {"SliceIR"}],
     [Plain(11, "Infill") EXCEPT !.writes = {"SliceIR"}, !.reads = {"IR"}]}

AtMostOne(S) == {T \in SUBSET S : Cardinality(T) <= 1}

\* Modules 1..3 over two stages, with every read and write, and a
\* requirement of one module, itself and one that is not there (4) included.
Wired(id, stages, required) ==
    {[Plain(id, s) EXCEPT !.reads = r, !.writes = w, !.requires = q] :
        s \in stages, r \in SUBSET {"IR"},
        w \in SUBSET {"IR"}, q \in AtMostOne(required)}

WiredInputs ==
    {<<<<a, b, c>>, 2>> : a \in Wired(2, {"Perimeters", "Infill"}, 1 .. 4),
                          b \in Wired(1, {"Perimeters", "Infill"}, 1 .. 4),
                          c \in Wired(3, {"Infill"}, 1 .. 2)}

\* Every graph on three modules of one stage, self edges included.
Bound(id) ==
    {[Plain(id, "Support") EXCEPT !.requires = q] : q \in SUBSET (1 .. 3)}

GraphInputs ==
    {<<<<a, b, c>>, 2>> : a \in Bound(3), b \in Bound(1), c \in Bound(2)}

\* Modules of one stage contesting claims; 1 is Arachne, 2 is classic.
Claiming(id, claims) == {[Plain(id, "Perimeters") EXCEPT !.claims = c] :
                            c \in SUBSET claims}

Contests == {"perimeter-generator", "support-planner", "raft-fill",
             "support-family:tree"}

ClaimInputs ==
    {<<<<c, b, a>>, wall>> :
        a \in Claiming(1, Contests), b \in Claiming(2, Contests),
        c \in Claiming(3, Contests), wall \in {1, 2}}

\* Two search roots that provide the same ids with different manifests, and
\* manifests that are broken, incompatible, incompatible with a module, or
\* without a component.
Variants(id) ==
    LET p == Plain(id, "Slice") IN
    {p, [p EXCEPT !.stage = "PathOptimization"],
     [p EXCEPT !.stage = "LayerFinalization", !.needs = {"raft-fill"}],
     [p EXCEPT !.broken = TRUE], [p EXCEPT !.loads = FALSE],
     [p EXCEPT !.compatible = FALSE], [p EXCEPT !.incompatible = {1}],
     [p EXCEPT !.stage = "PaintRegionAnnotation", !.reads = {"SliceIR"}]}

ShadowInputs ==
    {<<<<a, b, c>>, 2>> : a \in Variants(1) \cup Variants(2),
                          b \in Variants(1) \cup Variants(2),
                          c \in Variants(1)}

MCInputs == WiredInputs \cup GraphInputs \cup ClaimInputs \cup ShadowInputs
=============================================================================
