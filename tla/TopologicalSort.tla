--------------------------- MODULE TopologicalSort ---------------------------
(***************************************************************************)
(* The in-stage ordering of slicer-scheduler/src/topology.rs: Kahn's       *)
(* algorithm over the graph of one stage.  One PopReady step is one pass   *)
(* of the `while let Some(module_id) = ready.pop_first()` loop, the walk   *)
(* over the popped module's downstream ids included.                       *)
(*                                                                         *)
(* A module id is the rank of its string, so `ready.pop_first()` of a      *)
(* BTreeSet<ModuleId> is the minimum of a set of naturals.  The graph is   *)
(* state, not a constant: ModuleSchedule starts one sort per stage.        *)
(***************************************************************************)
EXTENDS Naturals, Sequences, FiniteSets, Functions

CONSTANT ModuleId

ASSUME ModuleIdAssumption == ModuleId \subseteq Nat /\ IsFiniteSet(ModuleId)

VARIABLES
    nodes,      \* the module ids of the stage's ModuleNodes
    edges,      \* <<from, to>>: `to` is in edges_to of the node `from`
    degree,     \* in_degree
    ready,      \* modules of in-degree zero that are not emitted
    sorted,     \* the order emitted so far
    outcome     \* "idle" | "sorting" | "ok" | "cycle"

sortVars == <<nodes, edges, degree, ready, sorted, outcome>>

-----------------------------------------------------------------------------
(* The algorithm                                                            *)

\* The modules with an edge into n.
Upstream(N, E, n) == {m \in N : <<m, n>> \in E}

\* compute_reachability of validation.rs, for one node: everything at the end
\* of a non-empty chain of edges from n.
ReachIn(N, E, n) ==
    LET from[k \in Nat] ==
            IF k = 0
            THEN {b \in N : <<n, b>> \in E}
            ELSE LET S == from[k - 1]
                 IN  S \cup {b \in N : \E a \in S : <<a, b>> \in E}
    IN  from[Cardinality(N)]

\* The in_degree map, counted over every node's set of downstream ids.
InDegree(N, E) == [n \in N |-> Cardinality(Upstream(N, E, n))]

\* A sort begins: the in-degrees are counted and the sources are ready.
StartSort(N, E) ==
    /\ nodes' = N
    /\ edges' = E
    /\ degree' = InDegree(N, E)
    /\ ready' = {n \in N : InDegree(N, E)[n] = 0}
    /\ sorted' = <<>>
    /\ outcome' = "sorting"

\* Mutant: the ready set is a stack of no particular order.
IsFirstAny(m, S) == m \in S

\* The first id of the BTreeSet.
IsFirst(m, S) == m \in S /\ \A n \in S : m <= n

\* Downstream of m, the module is decremented.
Lowered(m) ==
    [n \in nodes |-> IF <<m, n>> \in edges THEN degree[n] - 1 ELSE degree[n]]

\* The modules whose in-degree the pop of m brings to zero.
NewlyReady(m) == {n \in nodes : <<m, n>> \in edges /\ degree[n] = 1}

\* One pass of the loop.
PopReady ==
    /\ outcome = "sorting"
    /\ \E m \in ready :
        /\ IsFirst(m, ready)
        /\ sorted' = Append(sorted, m)
        /\ degree' = Lowered(m)
        /\ ready' = (ready \ {m}) \cup NewlyReady(m)
    /\ UNCHANGED <<nodes, edges, outcome>>

\* Mutant: the result is an order as soon as one module was emitted.
CompleteLoose == sorted # <<>> \/ nodes = {}

\* `sorted.len() == nodes.len()`.
Complete == Len(sorted) = Cardinality(nodes)

\* The loop has ended: Ok(sorted), or Err with the ids of positive degree.
FinishSort ==
    /\ outcome = "sorting"
    /\ ready = {}
    /\ outcome' = IF Complete THEN "ok" ELSE "cycle"
    /\ UNCHANGED <<nodes, edges, degree, ready, sorted>>

\* The ids an Err carries.
Unsorted == {n \in nodes : degree[n] > 0}

-----------------------------------------------------------------------------
(* Properties                                                               *)

Emitted == Range(sorted)

\* S holds what is downstream of n and of its own members.
Downstream(S, n) == \A a \in S \cup {n}, b \in nodes : <<a, b>> \in edges => b \in S

\* What can be reached from n along the edges, n itself only over a cycle;
\* the reference definition: the least set that is downstream of n.
Reach(n) == {b \in nodes : \A S \in SUBSET nodes : Downstream(S, n) => b \in S}

OnCycle == {n \in nodes : n \in Reach(n)}

\* An Ok is returned exactly for the acyclic graphs, and an Err names exactly
\* the modules on a cycle and those downstream of one (the comment: "the
\* remaining unsorted module IDs when a cycle prevents full ordering").
CycleExact ==
    /\ outcome = "ok" => OnCycle = {} /\ Emitted = nodes
    /\ outcome = "cycle" =>
        /\ OnCycle # {}
        /\ Unsorted = OnCycle \cup UNION {Reach(n) : n \in OnCycle}

\* The orders of all nodes that respect the edges.
TopologicalOrders ==
    {s \in [1 .. Cardinality(nodes) -> nodes] :
        /\ Range(s) = nodes
        /\ \A i, j \in DOMAIN s : <<s[i], s[j]>> \in edges => i < j}

\* s comes before t in the lexicographic order of their module ids.
LexBefore(s, t) ==
    \E k \in DOMAIN s : s[k] < t[k] /\ \A i \in 1 .. (k - 1) : s[i] = t[i]

\* A returned order respects the edges and is the lexicographically least that
\* does, so the plan is the same however the manifests were discovered.
LeastOrder ==
    outcome = "ok" =>
        /\ sorted \in TopologicalOrders
        /\ \A s \in TopologicalOrders : ~ LexBefore(s, sorted)
=============================================================================
