------------------------- MODULE ModuleScheduleProofs -------------------------
(***************************************************************************)
(* Proofs about claim dedup, the in-stage order and the plan, for any      *)
(* manifests and any graph of a stage.                                     *)
(***************************************************************************)
EXTENDS ModuleSchedule, FiniteSetTheorems, SequenceTheorems, TLAPS

-----------------------------------------------------------------------------
(* Kahn's algorithm *)

\* The first k modules emitted.
First(k) == {sorted[j] : j \in 1 .. k}

Up(n) == Upstream(nodes, edges, n)

\* The graph of a stage, and an emitted prefix of an order of it: no module
\* comes twice and none before what is upstream of it.
Graph ==
  /\ outcome \in {"idle", "sorting", "ok", "cycle"}
  /\ nodes \subseteq ModuleId
  /\ edges \subseteq nodes \X nodes

Prefix ==
  /\ sorted \in Seq(nodes)
  /\ \A i, j \in 1 .. Len(sorted) : sorted[i] = sorted[j] => i = j
  /\ \A i \in 1 .. Len(sorted) : Up(sorted[i]) \subseteq First(i - 1)

\* Each emitted module was the least of those that could be emitted.
Greedy ==
  \A i \in 1 .. Len(sorted), n \in nodes :
    n \notin First(i - 1) /\ Up(n) \subseteq First(i - 1) => sorted[i] <= n

\* in_degree counts what is upstream and not emitted; the ready set holds the
\* modules that wait for nothing.
Counts ==
  /\ degree = [n \in nodes |-> Cardinality(Up(n) \ Emitted)]
  /\ ready = {n \in nodes \ Emitted : Up(n) \subseteq Emitted}

Verdict ==
  /\ outcome = "ok" => Complete
  /\ outcome = "cycle" => ~Complete /\ ready = {}

SortInv ==
  Graph /\ (outcome # "idle" => Prefix /\ Greedy /\ Counts /\ Verdict)

LEMMA NodesFinite ==
  ASSUME Graph
  PROVE  /\ IsFiniteSet(nodes) /\ nodes \subseteq Nat
         /\ Cardinality(nodes) \in Nat
         /\ \A n, S : IsFiniteSet(Up(n) \ S) /\ Cardinality(Up(n) \ S) \in Nat
<1>1. IsFiniteSet(nodes) /\ nodes \subseteq Nat
  BY ModuleIdAssumption, FS_Subset DEF Graph
<1>2. \A n, S : Up(n) \ S \in SUBSET nodes
  BY DEF Up, Upstream
<1> QED
  BY <1>1, <1>2, FS_Subset, FS_CardinalityType

LEMMA EmittedIsFirst ==
  ASSUME Prefix
  PROVE  /\ Emitted = First(Len(sorted)) /\ Emitted \subseteq nodes
         /\ Len(sorted) \in Nat
BY DEF Prefix, Emitted, Range, First

\* A prefix is an injection, so it is complete exactly when it has them all.
LEMMA CompleteIsAll ==
  ASSUME Graph, Prefix
  PROVE  Complete <=> Emitted = nodes
<1>0. sorted \in [1 .. Len(sorted) -> nodes] /\ Len(sorted) \in Nat
  BY DEF Prefix
<1>1. sorted \in Injection(1 .. Len(sorted), nodes) /\ Len(sorted) \in Nat
  BY <1>0 DEF Prefix, Injection, IsInjective
<1>2. Cardinality(1 .. Len(sorted)) = Len(sorted)
  <2>1. PICK n \in Nat : n = Len(sorted)
    BY <1>0
  <2>2. Cardinality(1 .. n) = IF 1 > n THEN 0 ELSE n - 1 + 1
    BY FS_Interval
  <2> QED
    BY <2>1, <2>2
<1>3. Len(sorted) = Cardinality(nodes)
        <=> sorted \in Surjection(1 .. Len(sorted), nodes)
  <2>1. IsFiniteSet(nodes)
    BY NodesFinite
  <2> QED
    BY <1>1, <1>2, <2>1, FS_Injection
<1>4. sorted \in Surjection(1 .. Len(sorted), nodes) <=> Emitted = nodes
  <2>1. Emitted = {sorted[j] : j \in 1 .. Len(sorted)} /\ Emitted \subseteq nodes
    BY EmittedIsFirst DEF First
  <2> QED
    BY <1>0, <2>1 DEF Surjection
<1> QED
  BY <1>3, <1>4 DEF Complete

LEMMA StartSortInv ==
  ASSUME NEW N \in SUBSET ModuleId, NEW E \in SUBSET (N \X N), StartSort(N, E)
  PROVE  SortInv'
<1>1. nodes' = N /\ edges' = E /\ sorted' = <<>> /\ outcome' = "sorting"
  BY DEF StartSort
<1>2. Graph'
  BY <1>1 DEF Graph
<1>3. Prefix' /\ Greedy'
  BY <1>1 DEF Prefix, Greedy
<1>4. Emitted' = {}
  BY <1>1 DEF Emitted, Range
<1>5. \A n \in N : Up(n)' = Upstream(N, E, n) /\ Up(n)' \ Emitted' = Upstream(N, E, n)
  BY <1>1, <1>4 DEF Up, Upstream
<1>6. \A n \in N : IsFiniteSet(Upstream(N, E, n))
  <2>1. \A n \in N : Upstream(N, E, n) \in SUBSET N
    BY DEF Upstream
  <2>2. IsFiniteSet(N)
    BY FS_Subset, ModuleIdAssumption
  <2> QED
    BY <2>1, <2>2, FS_Subset
<1>7. \A n \in N : InDegree(N, E)[n] = 0 <=> Upstream(N, E, n) = {}
  BY <1>6, FS_EmptySet DEF InDegree
<1>8. degree' = [n \in N |-> Cardinality(Up(n)' \ Emitted')]
  BY <1>5 DEF StartSort, InDegree
<1>9. ready' = {n \in N \ Emitted' : Up(n)' \subseteq Emitted'}
  BY <1>4, <1>5, <1>7 DEF StartSort
<1>10. Counts'
  BY <1>1, <1>8, <1>9 DEF Counts
<1> QED
  BY <1>1, <1>2, <1>3, <1>10 DEF SortInv, Verdict

\* One more module is emitted.
LEMMA AppendFirst ==
  ASSUME sorted \in Seq(nodes), NEW m \in nodes, sorted' = Append(sorted, m),
         NEW n \in Nat, n = Len(sorted)
  PROVE  /\ sorted' \in Seq(nodes) /\ Len(sorted') = n + 1
         /\ sorted'[n + 1] = m
         /\ \A i \in 1 .. n : sorted'[i] = sorted[i]
         /\ \A k \in 0 .. n : First(k)' = First(k)
         /\ First(n + 1)' = First(n) \cup {m}
         /\ Emitted' = First(n + 1)'
<1>1. /\ sorted' \in Seq(nodes) /\ Len(sorted') = n + 1
      /\ sorted'[n + 1] = m
      /\ \A i \in 1 .. n : sorted'[i] = sorted[i]
  OBVIOUS
<1>2. \A k \in 0 .. n : \A j \in 1 .. k : j \in 1 .. n
  OBVIOUS
<1>3. \A k \in 0 .. n : First(k)' = First(k)
  BY <1>1, <1>2 DEF First
<1>4. \A j : j \in 1 .. n + 1 <=> j \in 1 .. n \/ j = n + 1
  OBVIOUS
<1>5. {sorted'[j] : j \in 1 .. n + 1} = {sorted[j] : j \in 1 .. n} \cup {m}
  BY <1>1, <1>4
<1>6. DOMAIN sorted' = 1 .. n + 1
  BY <1>1
<1> QED
  BY <1>1, <1>3, <1>5, <1>6 DEF First, Emitted, Range

LEMMA PopSortInv ==
  ASSUME Graph, Prefix, Greedy, Counts, PopReady
  PROVE  Graph' /\ Prefix' /\ Greedy' /\ Counts'
<1>1. PICK m \in ready :
        /\ IsFirst(m, ready)
        /\ sorted' = Append(sorted, m)
        /\ degree' = Lowered(m)
        /\ ready' = (ready \ {m}) \cup NewlyReady(m)
  BY DEF PopReady
<1>2. UNCHANGED <<nodes, edges, outcome>> /\ m \in nodes /\ m \notin Emitted
      /\ Up(m) \subseteq Emitted
  BY DEF PopReady, Counts
<1>3. Graph'
  BY <1>2 DEF Graph
<1>4. PICK len \in Nat : len = Len(sorted)
  BY DEF Prefix
<1>5. /\ sorted' \in Seq(nodes) /\ Len(sorted') = len + 1 /\ sorted'[len + 1] = m
      /\ \A i \in 1 .. len : sorted'[i] = sorted[i]
      /\ \A k \in 0 .. len : First(k)' = First(k)
      /\ First(len + 1)' = First(len) \cup {m}
  BY <1>1, <1>2, <1>4, AppendFirst DEF Prefix
<1>6. \A n : Up(n)' = Up(n)
  BY <1>2 DEF Up, Upstream
<1>7. Emitted = First(len) /\ Emitted \subseteq nodes
  BY <1>4, EmittedIsFirst
<1>8. \A i : i \in 1 .. (len + 1) <=> i \in 1 .. len \/ i = len + 1
  BY <1>4
<1>9. Prefix'
  <2>1. \A i, j \in 1 .. (len + 1) : sorted'[i] = sorted'[j] => i = j
    <3>1. \A i \in 1 .. len : sorted[i] \in Emitted
      BY <1>7 DEF First
    <3> QED
      BY <1>2, <1>4, <1>5, <1>8, <3>1 DEF Prefix
  <2>2. \A i \in 1 .. (len + 1) : Up(sorted'[i]) \subseteq First(i - 1)'
    <3>1. \A i \in 1 .. len : i - 1 \in 0 .. len
      BY <1>4
    <3>2. (len + 1) - 1 = len /\ len \in 0 .. len
      BY <1>4
    <3>3. \A i \in 1 .. len : Up(sorted'[i]) \subseteq First(i - 1)'
      BY <1>4, <1>5, <3>1 DEF Prefix
    <3>4. Up(sorted'[len + 1]) \subseteq First((len + 1) - 1)'
      BY <1>2, <1>5, <1>7, <3>2
    <3> QED
      BY <1>8, <3>3, <3>4
  <2> QED
    BY <1>2, <1>5, <1>6, <2>1, <2>2 DEF Prefix
<1>10. Greedy'
  <2>1. \A i \in 1 .. len : i - 1 \in 0 .. len
    BY <1>4
  <2>2. ASSUME NEW i \in 1 .. len, NEW n \in nodes,
               n \notin First(i - 1)', Up(n) \subseteq First(i - 1)'
        PROVE  sorted'[i] <= n
    BY <1>4, <1>5, <2>1, <2>2 DEF Greedy
  <2>3. ASSUME NEW n \in nodes,
               n \notin First((len + 1) - 1)', Up(n) \subseteq First((len + 1) - 1)'
        PROVE  sorted'[len + 1] <= n
    <3>1. (len + 1) - 1 = len /\ len \in 0 .. len
      BY <1>4
    <3>2. n \in ready
      BY <1>5, <1>7, <2>3, <3>1 DEF Counts
    <3> QED
      BY <1>1, <1>5, <3>2 DEF IsFirst
  <2> QED
    BY <1>2, <1>5, <1>6, <1>8, <2>2, <2>3 DEF Greedy
<1>11. Emitted' = Emitted \cup {m}
  <2>1. Emitted' = First(len + 1)'
    BY <1>1, <1>2, <1>4, AppendFirst DEF Prefix
  <2> QED
    BY <1>5, <1>7, <2>1
<1>12. \A n : IsFiniteSet(Up(n) \ Emitted) /\ Cardinality(Up(n) \ Emitted) \in Nat
  BY NodesFinite
<1>13. \A n \in nodes : m \in Up(n) <=> <<m, n>> \in edges
  BY <1>2 DEF Up, Upstream
<1>14. degree' = [n \in nodes |-> Cardinality(Up(n) \ Emitted')]
  <2>1. ASSUME NEW n \in nodes
        PROVE  Lowered(m)[n] = Cardinality(Up(n) \ Emitted')
    <3>1. CASE <<m, n>> \in edges
      <4>1. Up(n) \ Emitted' = (Up(n) \ Emitted) \ {m} /\ m \in Up(n) \ Emitted
        BY <1>2, <1>11, <1>13, <3>1
      <4>2. Cardinality((Up(n) \ Emitted) \ {m}) = Cardinality(Up(n) \ Emitted) - 1
        BY <1>12, <4>1, FS_RemoveElement
      <4> QED
        BY <3>1, <4>1, <4>2 DEF Lowered, Counts
    <3>2. CASE <<m, n>> \notin edges
      <4>1. Up(n) \ Emitted' = Up(n) \ Emitted
        BY <1>11, <1>13, <3>2
      <4> QED
        BY <3>2, <4>1 DEF Lowered, Counts
    <3> QED
      BY <3>1, <3>2
  <2> QED
    BY <1>1, <2>1 DEF Lowered
<1>15. \A n \in nodes : degree[n] = 1 /\ <<m, n>> \in edges
                          <=> Up(n) \ Emitted = {m}
  <2> SUFFICES ASSUME NEW n \in nodes
               PROVE  degree[n] = 1 /\ <<m, n>> \in edges
                        <=> Up(n) \ Emitted = {m}
    OBVIOUS
  <2>1. degree[n] = Cardinality(Up(n) \ Emitted)
    BY DEF Counts
  <2>2. ASSUME degree[n] = 1, <<m, n>> \in edges  PROVE Up(n) \ Emitted = {m}
    <3>1. m \in Up(n) \ Emitted
      BY <1>2, <1>13, <2>2
    <3>2. Cardinality({m}) = 1
      BY FS_Singleton
    <3>3. Cardinality(Up(n) \ Emitted) = Cardinality({m})
      BY <2>1, <2>2, <3>2
    <3> QED
      BY <1>12, <3>1, <3>3, FS_Subset
  <2>3. ASSUME Up(n) \ Emitted = {m}  PROVE degree[n] = 1 /\ <<m, n>> \in edges
    BY <1>13, <2>1, <2>3, FS_Singleton
  <2> QED
    BY <2>2, <2>3
<1>16. \A n \in Emitted : Up(n) \subseteq Emitted
  <2>1. \A i \in 1 .. len : First(i - 1) \subseteq First(len)
    BY <1>4 DEF First
  <2> QED
    BY <1>4, <1>7, <2>1 DEF Prefix, First
<1>17. ready' = {n \in nodes \ Emitted' : Up(n) \subseteq Emitted'}
  <2>1. \A n \in nodes : n \in ready' <=> (n \in ready /\ n # m) \/ Up(n) \ Emitted = {m}
    BY <1>1, <1>15 DEF NewlyReady
  <2>2. \A n \in nodes : n \in ready <=> n \notin Emitted /\ Up(n) \subseteq Emitted
    BY DEF Counts
  <2>3. \A n \in nodes :
          Up(n) \ Emitted = {m} => n \notin Emitted /\ n # m
    BY <1>2, <1>16
  <2>4. \A n \in nodes :
          Up(n) \subseteq Emitted \cup {m}
            <=> Up(n) \subseteq Emitted \/ Up(n) \ Emitted = {m}
    OBVIOUS
  <2>5. ready' \subseteq nodes
    BY <1>1 DEF NewlyReady, Counts
  <2> QED
    BY <1>11, <2>1, <2>2, <2>3, <2>4, <2>5
<1>18. Counts'
  BY <1>2, <1>6, <1>14, <1>17 DEF Counts
<1> QED
  BY <1>3, <1>9, <1>10, <1>18

-----------------------------------------------------------------------------
(* The order that is returned *)

LEMMA SortedIsOrder ==
  ASSUME Graph, Prefix, Complete
  PROVE  sorted \in TopologicalOrders
<1>1. Emitted = nodes /\ Len(sorted) = Cardinality(nodes)
  BY CompleteIsAll DEF Complete
<1>2. sorted \in [1 .. Cardinality(nodes) -> nodes] /\ Cardinality(nodes) \in Nat
  BY <1>1, NodesFinite DEF Prefix
<1>3. ASSUME NEW i \in 1 .. Cardinality(nodes), NEW j \in 1 .. Cardinality(nodes),
             <<sorted[i], sorted[j]>> \in edges
      PROVE  i < j
  <2>1. sorted[i] \in Up(sorted[j])
    BY <1>2, <1>3 DEF Up, Upstream
  <2>2. sorted[i] \in First(j - 1)
    BY <1>1, <2>1 DEF Prefix
  <2>3. PICK k \in 1 .. (j - 1) : sorted[i] = sorted[k]
    BY <2>2 DEF First
  <2>4. k \in 1 .. Cardinality(nodes) /\ k < j
    BY <1>2
  <2>5. i = k
    BY <1>1, <2>3, <2>4 DEF Prefix
  <2> QED
    BY <2>4, <2>5
<1> QED
  BY <1>1, <1>2, <1>3 DEF TopologicalOrders, Emitted

\* An order of all modules names none twice.
LEMMA OrderInjective ==
  ASSUME Graph, NEW s \in TopologicalOrders,
         NEW i \in DOMAIN s, NEW j \in DOMAIN s, s[i] = s[j]
  PROVE  i = j
<1>1. PICK n \in Nat : n = Cardinality(nodes)
  BY NodesFinite
<1>2. s \in [1 .. n -> nodes] /\ Range(s) = nodes
  BY <1>1 DEF TopologicalOrders
<1>3. \A t \in nodes : \E k \in 1 .. n : s[k] = t
  BY <1>2 DEF Range
<1>4. s \in Surjection(1 .. n, nodes)
  BY <1>2, <1>3 DEF Surjection
<1>5. IsFiniteSet(1 .. n) /\ Cardinality(1 .. n) = n
  <2>1. IsFiniteSet(1 .. n) /\ Cardinality(1 .. n) = IF 1 > n THEN 0 ELSE n - 1 + 1
    BY FS_Interval
  <2> QED
    BY <2>1
<1>6. s \in Injection(1 .. n, nodes)
  BY <1>1, <1>4, <1>5, FS_Surjection
<1> QED
  BY <1>2, <1>6 DEF Injection, IsInjective

LEMMA SortedIsLeast ==
  ASSUME Graph, Prefix, Greedy, Complete, NEW s \in TopologicalOrders
  PROVE  ~LexBefore(s, sorted)
<1> SUFFICES ASSUME LexBefore(s, sorted)  PROVE FALSE
  OBVIOUS
<1>1. PICK n \in Nat : n = Cardinality(nodes) /\ Len(sorted) = n
  BY NodesFinite DEF Complete
<1>2. s \in [1 .. n -> nodes] /\ Range(s) = nodes /\ nodes \subseteq Nat
  BY <1>1, NodesFinite DEF TopologicalOrders
<1>3. PICK k \in 1 .. n :
        s[k] < sorted[k] /\ \A i \in 1 .. (k - 1) : s[i] = sorted[i]
  BY <1>2 DEF LexBefore
<1>4. \A i \in 1 .. (k - 1) : i \in 1 .. n /\ i # k
  BY <1>1, <1>3
<1>5. s[k] \notin First(k - 1)
  <2> SUFFICES ASSUME s[k] \in First(k - 1)  PROVE FALSE
    OBVIOUS
  <2>1. PICK j \in 1 .. (k - 1) : s[k] = sorted[j]
    BY DEF First
  <2>2. s[j] = s[k] /\ j \in DOMAIN s /\ k \in DOMAIN s
    BY <1>2, <1>3, <1>4, <2>1
  <2> QED
    BY <1>4, <2>2, OrderInjective
<1>6. Up(s[k]) \subseteq First(k - 1)
  <2> SUFFICES ASSUME NEW m \in nodes, <<m, s[k]>> \in edges
               PROVE  m \in First(k - 1)
    BY DEF Up, Upstream
  <2>1. PICK i \in 1 .. n : m = s[i]
    BY <1>2 DEF Range
  <2>2. i < k
    BY <1>2, <1>3, <2>1 DEF TopologicalOrders
  <2>3. i \in 1 .. (k - 1)
    BY <1>1, <1>3, <2>2
  <2> QED
    BY <1>3, <2>1, <2>3 DEF First
<1>7. s[k] \in nodes /\ sorted[k] \in nodes
  <2>1. sorted \in [1 .. n -> nodes]
    BY <1>1 DEF Prefix
  <2> QED
    BY <1>2, <1>3, <2>1
<1>8. sorted[k] <= s[k]
  BY <1>1, <1>5, <1>6, <1>7 DEF Greedy
<1>9. s[k] \in Nat /\ sorted[k] \in Nat
  BY <1>2, <1>7
<1>10. s[k] < sorted[k]
  BY <1>3
<1> QED
  BY <1>8, <1>9, <1>10

-----------------------------------------------------------------------------
(* Cycles *)

\* What is not emitted.
Left == nodes \ Emitted

\* Nothing upstream of an emitted module is left, so a module downstream of
\* one that is left is left itself.
LEMMA LeftClosed ==
  ASSUME Prefix, NEW a \in Left, NEW b \in nodes, <<a, b>> \in edges
  PROVE  b \in Left
<1> SUFFICES ASSUME b \in Emitted  PROVE FALSE
  BY DEF Left
<1>1. PICK len \in Nat : len = Len(sorted)
  BY DEF Prefix
<1>2. PICK i \in 1 .. len : b = sorted[i]
  BY <1>1, EmittedIsFirst DEF First
<1>3. a \in First(i - 1)
  BY <1>1, <1>2 DEF Prefix, Up, Upstream, Left
<1>4. First(i - 1) \subseteq Emitted
  BY <1>1, EmittedIsFirst DEF First
<1> QED
  BY <1>3, <1>4 DEF Left

\* An emitted module is on no cycle: what comes after it, or is left, is
\* downstream of it.
LEMMA EmittedAcyclic ==
  ASSUME Prefix, NEW n \in Emitted
  PROVE  n \in nodes /\ n \notin Reach(n)
<1>1. PICK len \in Nat : len = Len(sorted)
  BY DEF Prefix
<1>2. PICK i \in 1 .. len : n = sorted[i]
  BY <1>1, EmittedIsFirst DEF First
<1>3. n \in nodes /\ \A j \in 1 .. len : sorted[j] \in nodes
  BY <1>1, EmittedIsFirst DEF First
<1> DEFINE S == {sorted[j] : j \in (i + 1) .. len} \cup Left
<1>4. S \in SUBSET nodes
  BY <1>1, <1>3 DEF Left
<1>5. Downstream(S, n)
  <2> SUFFICES ASSUME NEW a \in S \cup {n}, NEW b \in nodes, <<a, b>> \in edges
               PROVE  b \in S
    BY DEF Downstream
  <2>1. CASE a \in Left
    BY <2>1, LeftClosed
  <2>2. CASE b \in Left
    BY <2>2
  <2>3. CASE a \notin Left /\ b \notin Left
    <3>1. PICK j \in i .. len : a = sorted[j]
      BY <1>1, <1>2, <2>3
    <3>2. PICK k \in 1 .. len : b = sorted[k]
      BY <1>1, <2>3, EmittedIsFirst DEF First, Left
    <3>3. a \in Up(sorted[k])
      BY <1>1, <1>3, <3>1, <3>2 DEF Up, Upstream
    <3>4. PICK h \in 1 .. (k - 1) : a = sorted[h]
      BY <1>1, <3>3 DEF Prefix, First
    <3>5. h = j
      <4>1. h \in 1 .. len /\ j \in 1 .. len
        BY <1>1
      <4>2. sorted[h] = sorted[j]
        BY <3>1, <3>4
      <4> QED
        BY <1>1, <4>1, <4>2 DEF Prefix
    <3>6. k \in (i + 1) .. len
      BY <1>1, <3>1, <3>4, <3>5
    <3> QED
      BY <3>2, <3>6
  <2> QED
    BY <2>1, <2>2, <2>3
<1>6. n \notin S
  <2>1. \A j \in (i + 1) .. len : j \in 1 .. len /\ j # i
    BY <1>1
  <2>2. \A j \in (i + 1) .. len : sorted[j] # sorted[i]
    BY <1>1, <2>1 DEF Prefix
  <2> QED
    BY <1>2, <2>2 DEF Left
<1> HIDE DEF S
<1> QED
  BY <1>3, <1>4, <1>5, <1>6 DEF Reach

\* Reachability along one edge more, at either end.
LEMMA ReachEdge ==
  ASSUME NEW a \in nodes, NEW b \in nodes, <<a, b>> \in edges
  PROVE  b \in Reach(a) /\ Reach(b) \subseteq Reach(a)
BY DEF Reach, Downstream

LEMMA ReachLeft ==
  ASSUME Prefix, NEW n \in Left
  PROVE  Reach(n) \subseteq Left
<1>1. Downstream(Left, n)
  BY LeftClosed DEF Downstream
<1>2. Left \in SUBSET nodes
  BY DEF Left
<1> QED
  BY <1>1, <1>2 DEF Reach

\* A set of modules, each of which has another of the set upstream, holds one
\* that is on a cycle: of the modules with the fewest ancestors, one upstream
\* would have fewer.
LEMMA CycleAbove ==
  ASSUME Graph, NEW B \in SUBSET nodes, B # {},
         \A v \in B : \E w \in B : <<w, v>> \in edges
  PROVE  \E n \in B : n \in Reach(n)
<1> SUFFICES ASSUME \A n \in B : n \notin Reach(n)  PROVE FALSE
  OBVIOUS
<1> DEFINE A(v) == {w \in B : v \in Reach(w)}
           T == {A(v) : v \in B}
<1>1. IsFiniteSet(nodes)
  BY NodesFinite
<1>2. T \subseteq FiniteSubsetsOf(nodes) /\ T # {}
  <2>1. \A v \in B : A(v) \in SUBSET nodes
    OBVIOUS
  <2>2. \A v \in B : IsFiniteSet(A(v))
    BY <1>1, <2>1, FS_Subset
  <2>3. \A v \in B : A(v) \in FiniteSubsetsOf(nodes)
    BY <2>1, <2>2 DEF FiniteSubsetsOf
  <2> HIDE DEF A
  <2> QED
    BY <2>3
<1>3. IsWellFoundedOn(StrictSubsetOrdering(nodes), FiniteSubsetsOf(nodes))
  BY FS_StrictSubsetOrderingWellFounded
<1>4. PICK X \in T : \A Y \in T : <<Y, X>> \notin StrictSubsetOrdering(nodes)
  <2> HIDE DEF T
  <2> QED
    BY <1>2, <1>3, WFMin
<1>5. PICK v \in B : X = A(v)
  OBVIOUS
<1>6. PICK w \in B : <<w, v>> \in edges
  OBVIOUS
<1>7. v \in Reach(w) /\ Reach(v) \subseteq Reach(w)
  BY <1>6, ReachEdge
<1>8. w \in A(v) /\ w \notin A(w)
  BY <1>7
<1>9. A(w) \subseteq A(v)
  <2> SUFFICES ASSUME NEW u \in B, w \in Reach(u)  PROVE v \in Reach(u)
    OBVIOUS
  <2> QED
    BY <1>6 DEF Reach, Downstream
<1>10. <<A(w), A(v)>> \in StrictSubsetOrdering(nodes)
  <2>1. A(w) \in SUBSET nodes /\ A(v) \in SUBSET nodes
    OBVIOUS
  <2> QED
    BY <1>8, <1>9, <2>1 DEF StrictSubsetOrdering
<1> QED
  BY <1>4, <1>5, <1>10

\* The ids an Err carries are what is left.
LEMMA UnsortedIsLeft ==
  ASSUME Graph, Prefix, Counts, ready = {}
  PROVE  /\ Unsorted = Left
         /\ \A v \in Left : \E w \in Left : <<w, v>> \in edges
<1>1. \A v \in Left : \E w \in Left : <<w, v>> \in edges
  BY DEF Counts, Left, Up, Upstream
<1>2. \A n \in nodes : degree[n] > 0 <=> Up(n) \ Emitted # {}
  <2> SUFFICES ASSUME NEW n \in nodes
               PROVE  degree[n] > 0 <=> Up(n) \ Emitted # {}
    OBVIOUS
  <2>1. /\ IsFiniteSet(Up(n) \ Emitted) /\ Cardinality(Up(n) \ Emitted) \in Nat
        /\ degree[n] = Cardinality(Up(n) \ Emitted)
    BY NodesFinite DEF Counts
  <2>2. Cardinality(Up(n) \ Emitted) = 0 <=> Up(n) \ Emitted = {}
    BY <2>1, FS_EmptySet
  <2> QED
    BY <2>1, <2>2
<1>3. \A n \in nodes : Up(n) \ Emitted # {} <=> \E w \in Left : <<w, n>> \in edges
  BY DEF Up, Upstream, Left
<1>4. \A n \in nodes : n \in Left <=> \E w \in Left : <<w, n>> \in edges
  BY <1>1, LeftClosed
<1>5. Left \subseteq nodes
  BY DEF Left
<1> QED
  BY <1>1, <1>2, <1>3, <1>4, <1>5 DEF Unsorted

LEMMA LeftIsCyclic ==
  ASSUME Graph, Prefix, Counts, ready = {}
  PROVE  Left = OnCycle \cup UNION {Reach(n) : n \in OnCycle}
<1>1. OnCycle \subseteq Left
  BY EmittedAcyclic DEF OnCycle, Left
<1>2. UNION {Reach(n) : n \in OnCycle} \subseteq Left
  BY <1>1, ReachLeft
<1>3. ASSUME NEW u \in Left
      PROVE  u \in OnCycle \/ \E n \in OnCycle : u \in Reach(n)
  <2> DEFINE B == {v \in Left : v = u \/ u \in Reach(v)}
  <2>1. B \in SUBSET nodes /\ B # {}
    BY DEF Left
  <2>2. ASSUME NEW v \in B  PROVE \E w \in B : <<w, v>> \in edges
    <3>1. PICK w \in Left : <<w, v>> \in edges
      BY UnsortedIsLeft
    <3>2. w \in nodes /\ v \in nodes
      BY DEF Left
    <3>3. v \in Reach(w) /\ Reach(v) \subseteq Reach(w)
      BY <3>1, <3>2, ReachEdge
    <3> QED
      BY <3>1, <3>3
  <2>3. PICK n \in B : n \in Reach(n)
    <3> HIDE DEF B
    <3> QED
      BY <2>1, <2>2, CycleAbove
  <2>4. n \in OnCycle
    BY <2>1, <2>3 DEF OnCycle
  <2> QED
    BY <2>3, <2>4
<1> QED
  BY <1>1, <1>2, <1>3

LEMMA SortProperties == SortInv => LeastOrder /\ CycleExact
<1> SUFFICES ASSUME SortInv  PROVE LeastOrder /\ CycleExact
  OBVIOUS
<1>1. CASE outcome = "ok"
  <2>1. Graph /\ Prefix /\ Greedy /\ Complete
    BY <1>1 DEF SortInv, Verdict
  <2>2. LeastOrder
    BY <2>1, SortedIsOrder, SortedIsLeast DEF LeastOrder
  <2>3. Emitted = nodes
    BY <2>1, CompleteIsAll
  <2>4. OnCycle = {}
    BY <2>1, <2>3, EmittedAcyclic DEF OnCycle
  <2> QED
    BY <1>1, <2>2, <2>3, <2>4 DEF CycleExact
<1>2. CASE outcome = "cycle"
  <2>1. Graph /\ Prefix /\ Counts /\ ~Complete /\ ready = {}
    BY <1>2 DEF SortInv, Verdict
  <2>2. Left # {}
    BY <2>1, CompleteIsAll, EmittedIsFirst DEF Left
  <2>3. OnCycle # {}
    BY <2>1, <2>2, LeftIsCyclic
  <2> QED
    BY <1>2, <2>1, <2>3, LeftIsCyclic, UnsortedIsLeft DEF CycleExact, LeastOrder
<1>3. CASE outcome \notin {"ok", "cycle"}
  BY <1>3 DEF LeastOrder, CycleExact
<1> QED
  BY <1>1, <1>2, <1>3

-----------------------------------------------------------------------------
(* The schedule *)

Manifests == UNION {Range(input[1]) : input \in Inputs}

\* Ids come from the manifests, the first manifest of an id is kept, and what
\* is kept is what dedup left.
Loaded ==
  /\ pending \in Seq(Manifests)
  /\ modules \subseteq Manifests
  /\ kept \subseteq modules
  /\ phase = "discover" => kept = {}
  /\ kept \in {{}, Survivors(modules)}

ScheduleInv == Loaded /\ SortInv

LEMMA ManifestIds == \A m \in Manifests : m.id \in ModuleId
BY InputAssumption DEF Manifests

LEMMA ScheduleInit == Init => ScheduleInv
<1> SUFFICES ASSUME Init  PROVE ScheduleInv
  OBVIOUS
<1>1. PICK input \in Inputs : pending = input[1]
  BY DEF Init
<1>2. input[1] \in Seq(Range(input[1])) /\ Range(input[1]) \subseteq Manifests
  BY InputAssumption DEF Manifests
<1>3. pending \in Seq(Manifests)
  BY <1>1, <1>2
<1> QED
  BY <1>3 DEF Init, ScheduleInv, Loaded, SortInv, Graph

LEMMA SameSurvivors ==
  ASSUME UNCHANGED <<modules, preferred>>
  PROVE  Survivors(modules)' = Survivors(modules)
BY DEF Survivors, Loses, Winner, Contested, Candidates, FamilyScoped, AtStage

LEMMA LoadedStep ==
  ASSUME Loaded, [Next]_vars
  PROVE  Loaded'
<1>1. CASE IngestManifest
  <2>1. Head(pending) \in Manifests /\ Tail(pending) \in Seq(Manifests)
    BY <1>1 DEF IngestManifest, Loaded
  <2> QED
    BY <1>1, <2>1 DEF IngestManifest, Ingest, Loaded
<1>2. CASE DedupClaims
  <2>1. UNCHANGED <<pending, modules, preferred>> /\ kept' = Survivors(modules)
        /\ phase' # "discover"
    BY <1>2 DEF DedupClaims
  <2>2. Survivors(modules)' = Survivors(modules)
    BY <2>1, SameSurvivors
  <2>3. Survivors(modules) \subseteq modules
    BY DEF Survivors
  <2> QED
    BY <2>1, <2>2, <2>3 DEF Loaded
<1>3. CASE ~IngestManifest /\ ~DedupClaims
  <2>1. /\ UNCHANGED <<pending, modules, preferred, kept>>
        /\ phase' = "discover" => phase = "discover"
    BY <1>3 DEF Next, IngestBroken, BeginStage, SortStep, StageSorted,
                StageCyclic, BindModules, Validate, PlaceStage, BuildPlan, Over,
                Fail, vars
  <2>2. Survivors(modules)' = Survivors(modules)
    BY <2>1, SameSurvivors
  <2> QED
    BY <2>1, <2>2 DEF Loaded
<1> QED
  BY <1>1, <1>2, <1>3

LEMMA SortStepInv ==
  ASSUME SortInv, PopReady \/ FinishSort
  PROVE  SortInv'
<1>1. Graph /\ Prefix /\ Greedy /\ Counts /\ outcome = "sorting"
  BY DEF SortInv, PopReady, FinishSort
<1>2. CASE PopReady
  <2>1. outcome' = "sorting"
    BY <1>1, <1>2 DEF PopReady
  <2> QED
    BY <1>1, <1>2, <2>1, PopSortInv DEF SortInv, Verdict
<1>3. CASE FinishSort
  <2>1. /\ UNCHANGED <<nodes, edges, degree, ready, sorted>> /\ ready = {}
        /\ outcome' = IF Complete THEN "ok" ELSE "cycle"
    BY <1>3 DEF FinishSort
  <2>2. Emitted' = Emitted /\ (Complete' <=> Complete)
    BY <2>1 DEF Emitted, Complete
  <2>3. /\ \A k : First(k)' = First(k)
        /\ \A n : Up(n)' = Up(n)
    BY <2>1 DEF First, Up, Upstream
  <2>4. Graph' /\ Prefix' /\ Greedy' /\ Counts'
    BY <1>1, <2>1, <2>2, <2>3 DEF Graph, Prefix, Greedy, Counts
  <2>5. Verdict'
    BY <2>1, <2>2 DEF Verdict
  <2> QED
    BY <2>4, <2>5 DEF SortInv
<1> QED
  BY <1>2, <1>3

LEMMA SortInvStep ==
  ASSUME Loaded, SortInv, [Next]_vars
  PROVE  SortInv'
<1>1. CASE BeginStage
  <2>1. PICK s : StartSort(Ids(AtStage(kept, s)), StageEdges(kept, s))
    BY <1>1 DEF BeginStage
  <2>2. Ids(AtStage(kept, s)) \in SUBSET ModuleId
    BY ManifestIds DEF Ids, AtStage, Loaded
  <2>3. StageEdges(kept, s) \in SUBSET (Ids(AtStage(kept, s)) \X Ids(AtStage(kept, s)))
    BY DEF StageEdges, Ids
  <2> QED
    BY <2>1, <2>2, <2>3, StartSortInv
<1>2. CASE SortStep
  BY <1>2, SortStepInv DEF SortStep
<1>3. CASE StageSorted
  BY <1>3 DEF StageSorted, SortInv, Graph
<1>4. CASE ~BeginStage /\ ~SortStep /\ ~StageSorted
  <2>1. UNCHANGED sortVars
    BY <1>4 DEF Next, IngestBroken, IngestManifest, DedupClaims, StageCyclic,
                BindModules, Validate, PlaceStage, BuildPlan, Over, vars
  <2>2. UNCHANGED <<nodes, edges, degree, ready, sorted, outcome>>
    BY <2>1 DEF sortVars
  <2> QED
    BY <2>2 DEF SortInv, Graph, Prefix, Greedy, Counts, Verdict, Complete,
                Emitted, First, Up, Upstream
<1> QED
  BY <1>1, <1>2, <1>3, <1>4

\* In every state of topological_sort the emitted modules are a prefix of an
\* order of the stage's graph, each the least that could be emitted, and
\* in_degree and the ready set are those of the rest of the graph.
THEOREM ScheduleInvariant == Spec => []ScheduleInv
<1>1. ScheduleInv /\ [Next]_vars => ScheduleInv'
  BY LoadedStep, SortInvStep DEF ScheduleInv
<1> QED
  BY <1>1, ScheduleInit, PTL DEF Spec

\* The order topological_sort returns for a stage respects the stage's edges
\* and is the lexicographically least that does, for every graph.
THEOREM ScheduleLeastOrder == Spec => []LeastOrder
<1>1. ScheduleInv => LeastOrder
  BY SortProperties DEF ScheduleInv
<1> QED
  BY <1>1, ScheduleInvariant, PTL

\* topological_sort returns Ok for exactly the acyclic graphs, and its Err
\* names exactly the modules on a cycle or downstream of one.
THEOREM ScheduleCycleExact == Spec => []CycleExact
<1>1. ScheduleInv => CycleExact
  BY SortProperties DEF ScheduleInv
<1> QED
  BY <1>1, ScheduleInvariant, PTL

\* Two survivors of dedup_same_claim_modules_typed never hold one contested
\* claim of a stage: the winner is one id, and whoever is not it is dropped.
LEMMA OneSurvivor ==
  ASSUME modules \subseteq Manifests,
         NEW m \in Survivors(modules), NEW n \in Survivors(modules),
         m.stage = n.stage, m.id # n.id, NEW c \in m.claims \cap n.claims,
         c \notin FILL_CLAIM_IDS \cup FAMILY_SCOPED_SUPPORT_CLAIMS
  PROVE  FALSE
<1> DEFINE C == {x.id : x \in {y \in AtStage(modules, m.stage) : c \in y.claims}}
<1>1. /\ c \notin FILL_CLAIM_IDS \cup FamilyClaims
      /\ c # SUPPORT_GENERATOR_CLAIM /\ c # SUPPORT_PLANNER_CLAIM
  BY DEF FAMILY_SCOPED_SUPPORT_CLAIMS
<1>2. Contested(modules, m.stage, c) = C
  BY <1>1 DEF Contested, Candidates
<1>3. m \in modules /\ n \in modules
  BY DEF Survivors
<1>4. m.id \in C /\ n.id \in C
  BY <1>3 DEF AtStage
<1>5. C \in SUBSET ModuleId /\ IsFiniteSet(C)
  <2>1. C \in SUBSET ModuleId
    BY ManifestIds DEF AtStage
  <2> QED
    BY <2>1, ModuleIdAssumption, FS_Subset
<1> HIDE DEF C
<1>6. Cardinality(C) >= 2 /\ Cardinality(C) \in Nat
  <2>1. {m.id} \cup {n.id} \in SUBSET C
    BY <1>4
  <2>2. Cardinality({m.id}) = 1 /\ IsFiniteSet({m.id})
    BY FS_Singleton
  <2>3. Cardinality({m.id} \cup {n.id}) = 2
    <3>1. n.id \notin {m.id}
      OBVIOUS
    <3>2. Cardinality({m.id} \cup {n.id})
            = IF n.id \in {m.id} THEN Cardinality({m.id}) ELSE Cardinality({m.id}) + 1
      BY <2>2, FS_AddElement, Zenon
    <3> QED
      BY <2>2, <3>1, <3>2
  <2>4. Cardinality({m.id} \cup {n.id}) <= Cardinality(C)
    BY <1>5, <2>1, FS_Subset
  <2>5. Cardinality(C) \in Nat
    BY <1>5, FS_CardinalityType
  <2> QED
    BY <2>3, <2>4, <2>5
<1>7. \E w : Winner(modules, m.stage, c) = {w}
  BY <1>1, <1>2, <1>6 DEF Winner
<1>8. ~Loses(modules, m, c) /\ ~Loses(modules, n, c)
  BY DEF Survivors
<1>9. Winner(modules, m.stage, c) \in {{}, {m.id}}
  BY <1>1, <1>8 DEF Loses
<1>10. Winner(modules, m.stage, c) \in {{}, {n.id}}
  BY <1>1, <1>8 DEF Loses
<1> QED
  BY <1>7, <1>9, <1>10

\* After dedup no contested claim of a stage has two holders, whatever the
\* manifests claim and however many roots were searched.
THEOREM ScheduleOneHolder == Spec => []OneHolderPerStage
<1>1. ScheduleInv => OneHolderPerStage
  BY OneSurvivor DEF ScheduleInv, Loaded, OneHolderPerStage
<1> QED
  BY <1>1, ScheduleInvariant, PTL

-----------------------------------------------------------------------------
(* From the sorted stages to the plan *)

Entry == [stage : Range(STAGE_ORDER), ids : Seq(ModuleId)]

Rank(e) == StageIndex(e.stage)

\* The modules of a stage in an order of the stage's graph.
Ordered(e) ==
  /\ e \in Entry /\ e.ids # <<>>
  /\ Range(e.ids) = Ids(AtStage(kept, e.stage))
  /\ \A k, l \in DOMAIN e.ids : e.ids[k] = e.ids[l] => k = l
  /\ \A k, l \in DOMAIN e.ids :
        <<e.ids[k], e.ids[l]>> \in StageEdges(kept, e.stage) => k < l

\* The entries of s that hold modules are in the order of STAGE_ORDER.
Rising(s) ==
  \A p, q \in DOMAIN s :
    p < q /\ s[p].ids # <<>> /\ s[q].ids # <<>> => Rank(s[p]) < Rank(s[q])

\* Discovery accepts one manifest per id, of a known stage.
Known ==
  /\ \A m \in modules : m.stage \in Range(STAGE_ORDER)
  /\ \A m, n \in modules : m.id = n.id => m = n

\* The graph being sorted is that of the stage at `position`, which is not
\* among the sorted ones yet.
Current ==
  outcome # "idle" =>
    /\ position \in 1 .. 24
    /\ nodes = Ids(AtStage(kept, STAGE_ORDER[position])) /\ nodes # {}
    /\ edges = StageEdges(kept, STAGE_ORDER[position])
    /\ \A p \in DOMAIN sortedStages : Rank(sortedStages[p]) < position

HasEntry(s) == \E p \in DOMAIN sortedStages : sortedStages[p].stage = s

\* The stages up to `position` that have modules are sorted, in order.
Walk ==
  /\ position \in 0 .. 24
  /\ sortedStages \in Seq(Entry)
  /\ \A p \in DOMAIN sortedStages :
        Ordered(sortedStages[p]) /\ Rank(sortedStages[p]) <= position
  /\ Rising(sortedStages)
  /\ phase = "discover" =>
        position = 0 /\ sortedStages = <<>> /\ outcome = "idle"
  /\ \A m \in kept : StageIndex(m.stage) <= position =>
        \/ HasEntry(m.stage)
        \/ outcome # "idle" /\ m.stage = STAGE_ORDER[position]
  /\ phase \in {"validate", "plan", "built"} =>
        \A m \in kept : HasEntry(m.stage)

\* What the report of a validated load tells.
Told ==
  phase \in {"plan", "built"} =>
    /\ \A m \in kept :
        ~ (m.requires \subseteq Ids(kept)) => Reported("missing", m.id)
    /\ \A m, r \in kept :
        r.id \in m.requires /\ LaterStage(r, m) => Reported("cross-stage", m.id)
    /\ \A a, b \in kept : \A f \in (a.writes \cap b.writes) \ (a.reads \cup b.reads) :
        /\ a.id # b.id /\ a.stage = b.stage
        /\ a.claims \cap FAMILY_SCOPED_SUPPORT_CLAIMS = {}
        => \E e \in report : e.pass = "write" /\ e.on = f

\* The tiers hold the placed entries, each in its own, in their order.
Tiered ==
  /\ placed \in 0 .. Len(sortedStages)
  /\ tiers \in [TierNames -> Seq(Entry)]
  /\ \A t \in TierNames :
        /\ Rising(tiers[t])
        /\ \A p \in DOMAIN tiers[t] :
            \E i \in 1 .. placed : /\ tiers[t][p] = sortedStages[i]
                                   /\ Tier(sortedStages[i].stage) = t
  /\ \A i \in 1 .. placed :
        sortedStages[i] \in Range(tiers[Tier(sortedStages[i].stage)])

\* The plan holds the sorted stages, in order, and nothing else that runs a
\* module.
Planned ==
  phase = "built" =>
    /\ plan \in Seq(Entry)
    /\ Range(sortedStages) \subseteq Range(plan)
    /\ \A p \in DOMAIN plan : plan[p].ids # <<>> => plan[p] \in Range(sortedStages)
    /\ Rising(plan)
LEMMA Concat3 ==
  ASSUME NEW S, NEW s \in Seq(S), NEW t \in Seq(S), NEW u \in Seq(S)
  PROVE  /\ s \o t \o u \in Seq(S)
         /\ Len(s \o t \o u) = Len(s) + Len(t) + Len(u)
         /\ \A i \in 1 .. Len(s) : (s \o t \o u)[i] = s[i]
         /\ \A i \in 1 .. Len(t) : (s \o t \o u)[Len(s) + i] = t[i]
         /\ \A i \in 1 .. Len(u) : (s \o t \o u)[Len(s) + Len(t) + i] = u[i]
  OBVIOUS

LEMMA TierLists ==
  /\ PrePassStages \in Seq(Range(PrePassStages)) /\ Len(PrePassStages) = 10
  /\ LayerStages \in Seq(Range(LayerStages)) /\ Len(LayerStages) = 10
  /\ PostPassStages \in Seq(Range(PostPassStages)) /\ Len(PostPassStages) = 4
<1>1. PrePassStages \in Seq(Range(PrePassStages))
  BY DEF PrePassStages, Range
<1>2. Len(PrePassStages) = 10
  BY DEF PrePassStages
<1>3. LayerStages \in Seq(Range(LayerStages))
  BY DEF LayerStages, Range
<1>4. Len(LayerStages) = 10
  BY DEF LayerStages
<1>5. PostPassStages \in Seq(Range(PostPassStages))
  BY DEF PostPassStages, FinalizationStage, Range
<1>6. Len(PostPassStages) = 4
  BY DEF PostPassStages, FinalizationStage
<1> QED  BY <1>1, <1>2, <1>3, <1>4, <1>5, <1>6

LEMMA StagePositions ==
  /\ STAGE_ORDER \in Seq(Range(STAGE_ORDER)) /\ Len(STAGE_ORDER) = 24
  /\ \A i \in 1 .. 10 : STAGE_ORDER[i] = PrePassStages[i]
  /\ \A i \in 1 .. 10 : STAGE_ORDER[10 + i] = LayerStages[i]
  /\ \A i \in 1 .. 4 : STAGE_ORDER[20 + i] = PostPassStages[i]
<1> DEFINE S == Range(PrePassStages) \cup Range(LayerStages)
                  \cup Range(PostPassStages)
<1>1. /\ PrePassStages \in Seq(S) /\ LayerStages \in Seq(S)
      /\ PostPassStages \in Seq(S)
  BY TierLists
<1> HIDE DEF S
<1>2. PICK s, t, u : s = PrePassStages /\ t = LayerStages /\ u = PostPassStages
  OBVIOUS
<1>3. STAGE_ORDER = s \o t \o u
  BY <1>2 DEF STAGE_ORDER
<1>4. /\ STAGE_ORDER \in Seq(S)
      /\ Len(STAGE_ORDER) = Len(s) + Len(t) + Len(u)
      /\ \A i \in 1 .. Len(s) : STAGE_ORDER[i] = s[i]
      /\ \A i \in 1 .. Len(t) : STAGE_ORDER[Len(s) + i] = t[i]
      /\ \A i \in 1 .. Len(u) : STAGE_ORDER[Len(s) + Len(t) + i] = u[i]
  <2>1. s \in Seq(S) /\ t \in Seq(S) /\ u \in Seq(S)
    BY <1>1, <1>2
  <2> QED  BY <2>1, <1>3, Concat3
<1>5. STAGE_ORDER \in Seq(Range(STAGE_ORDER))
  BY <1>4 DEF Range
<1>6. Len(s) = 10 /\ Len(t) = 10 /\ Len(u) = 4
  BY <1>2, TierLists
<1> QED
  <2>1. 10 + 10 = 20 /\ 10 + 10 + 4 = 24
    OBVIOUS
  <2> QED  BY <1>2, <1>4, <1>5, <1>6

LEMMA TiersDistinct ==
  ASSUME NEW i \in 1 .. 10, NEW j \in 1 .. 10
  PROVE  /\ PrePassStages[i] = PrePassStages[j] => i = j
         /\ LayerStages[i] = LayerStages[j] => i = j
         /\ PrePassStages[i] # LayerStages[j]
         /\ \A k \in 1 .. 4 : /\ PrePassStages[i] # PostPassStages[k]
                              /\ LayerStages[i] # PostPassStages[k]
         /\ i \in 1 .. 4 /\ j \in 1 .. 4 /\ PostPassStages[i] = PostPassStages[j] => i = j
<1>1. PrePassStages[i] = PrePassStages[j] => i = j
  BY DEF PrePassStages
<1>2. LayerStages[i] = LayerStages[j] => i = j
  BY DEF LayerStages
<1>3. PrePassStages[i] # LayerStages[j]
  BY DEF PrePassStages, LayerStages
<1>4. ASSUME NEW k \in 1 .. 4
      PROVE  PrePassStages[i] # PostPassStages[k]
  BY DEF PrePassStages, PostPassStages, FinalizationStage
<1>5. ASSUME NEW k \in 1 .. 4
      PROVE  LayerStages[i] # PostPassStages[k]
  BY DEF LayerStages, PostPassStages, FinalizationStage
<1>6. ASSUME i \in 1 .. 4, j \in 1 .. 4, PostPassStages[i] = PostPassStages[j]
      PROVE  i = j
  BY <1>6 DEF PostPassStages, FinalizationStage
<1> QED  BY <1>1, <1>2, <1>3, <1>4, <1>5, <1>6

\* A position is of one tier.
LEMMA TierOfPosition ==
  ASSUME NEW i \in 1 .. 24
  PROVE  \/ i \in 1 .. 10 /\ STAGE_ORDER[i] = PrePassStages[i]
         \/ \E k \in 1 .. 10 : i = 10 + k /\ STAGE_ORDER[i] = LayerStages[k]
         \/ \E k \in 1 .. 4 : i = 20 + k /\ STAGE_ORDER[i] = PostPassStages[k]
<1>1. CASE i \in 1 .. 10
  BY <1>1, StagePositions
<1>2. CASE i \in 11 .. 20
  <2>1. i - 10 \in 1 .. 10 /\ i = 10 + (i - 10)
    BY <1>2
  <2>2. PICK k \in 1 .. 10 : i = 10 + k
    BY <2>1
  <2> QED  BY <2>2, StagePositions
<1>3. CASE i \in 21 .. 24
  <2>1. i - 20 \in 1 .. 4 /\ i = 20 + (i - 20)
    BY <1>3
  <2>2. PICK k \in 1 .. 4 : i = 20 + k
    BY <2>1
  <2> QED  BY <2>2, StagePositions
<1> QED  BY <1>1, <1>2, <1>3

LEMMA StagesDistinct ==
  ASSUME NEW i \in 1 .. 24, NEW j \in 1 .. 24, STAGE_ORDER[i] = STAGE_ORDER[j]
  PROVE  i = j
  BY TierOfPosition, TiersDistinct

LEMMA StageIndexOf ==
  ASSUME NEW i \in 1 .. 24
  PROVE  StageIndex(STAGE_ORDER[i]) = i
  BY StagesDistinct, StagePositions DEF StageIndex

LEMMA TierRanges ==
  ASSUME NEW i \in 1 .. 24
  PROVE  /\ Tier(STAGE_ORDER[i]) \in {"prepass", "layer", "finalization", "postpass"}
         /\ Tier(STAGE_ORDER[i]) = "prepass" <=> i \in 1 .. 10
         /\ Tier(STAGE_ORDER[i]) = "layer" <=> i \in 11 .. 20
         /\ Tier(STAGE_ORDER[i]) = "finalization" <=> i = 21
         /\ Tier(STAGE_ORDER[i]) = "postpass" <=> i \in 22 .. 24
<1>1. FinalizationStage = STAGE_ORDER[21]
  BY StagePositions DEF PostPassStages
<1>2. \A s : s \in Range(PrePassStages) <=> \E k \in 1 .. 10 : s = PrePassStages[k]
  BY TierLists DEF Range
<1>3. \A s : s \in Range(LayerStages) <=> \E k \in 1 .. 10 : s = LayerStages[k]
  BY TierLists DEF Range
<1>4. STAGE_ORDER[i] \in Range(PrePassStages) <=> i \in 1 .. 10
  BY <1>2, TierOfPosition, TiersDistinct
<1>5. STAGE_ORDER[i] \in Range(LayerStages) <=> i \in 11 .. 20
  BY <1>3, TierOfPosition, TiersDistinct
<1>6. STAGE_ORDER[i] = FinalizationStage <=> i = 21
  BY <1>1, StagesDistinct
<1> QED  BY <1>4, <1>5, <1>6 DEF Tier

LEMMA LeastExists ==
  ASSUME NEW T \in SUBSET Nat, T # {}
  PROVE  Min(T) \in T /\ \A t \in T : Min(T) <= t
<1> DEFINE R == {ss \in Nat \X Nat : ss[1] < ss[2]}
<1>1. IsWellFoundedOn(R, Nat)
  BY NatLessThanWellFounded DEF OpToRel
<1>2. PICK s \in T : \A r \in T : ~(<<r, s>> \in R)
  <2> HIDE DEF R
  <2> QED  BY <1>1, WFMin
<1>3. ASSUME NEW r \in T  PROVE s <= r
  <2>1. r \in Nat /\ s \in Nat
    OBVIOUS
  <2>2. r < s => <<r, s>> \in R
    BY <2>1
  <2> HIDE DEF R
  <2>3. ~(r < s)
    BY <1>2, <2>2
  <2> QED  BY <2>1, <2>3
<1> QED  BY <1>3 DEF Min

LEMMA ManifestStages ==
  ASSUME NEW m \in Manifests, ~m.broken
  PROVE  m.stage \in Range(STAGE_ORDER)
<1>1. PICK input \in Inputs : m \in Range(input[1])
  BY DEF Manifests
<1>2. m.broken \/ m.stage \in Range(STAGE_ORDER)
  BY <1>1, StageAssumption, Zenon
<1> QED  BY <1>2, Zenon

LEMMA StageOf ==
  ASSUME NEW s \in Range(STAGE_ORDER)
  PROVE  StageIndex(s) \in 1 .. 24 /\ STAGE_ORDER[StageIndex(s)] = s
<1>1. PICK i \in 1 .. 24 : s = STAGE_ORDER[i]
  BY StagePositions DEF Range
<1> QED  BY <1>1, StageIndexOf

LEMMA StageAt ==
  ASSUME NEW i \in 1 .. 24
  PROVE  STAGE_ORDER[i] \in Range(STAGE_ORDER)
<1>1. DOMAIN STAGE_ORDER = 1 .. 24
  BY StagePositions
<1> QED  BY <1>1 DEF Range

LEMMA RankOf ==
  ASSUME NEW e \in Entry
  PROVE  Rank(e) \in 1 .. 24 /\ STAGE_ORDER[Rank(e)] = e.stage
<1>1. e.stage \in Range(STAGE_ORDER)
  BY DEF Entry
<1> QED  BY <1>1, StageOf DEF Rank

LEMMA KnownStep ==
  ASSUME Loaded, Known, [Next]_vars
  PROVE  Known'
<1>1. CASE IngestManifest
  <2>1. PICK m : m = Head(pending)
    OBVIOUS
  <2>2. m \in Manifests
    BY <1>1, <2>1 DEF IngestManifest, Loaded
  <2>3. ~m.broken
    BY <1>1, <2>1, Zenon DEF IngestManifest
  <2>4. m.stage \in Range(STAGE_ORDER)
    BY <2>2, <2>3, ManifestStages
  <2>5. modules' = IF m.id \in Ids(modules) THEN modules ELSE modules \cup {m}
    BY <1>1, <2>1 DEF IngestManifest, Ingest
  <2> QED  BY <2>4, <2>5 DEF Known, Ids
<1>2. CASE ~IngestManifest
  <2>1. UNCHANGED modules
    BY <1>2 DEF Next, IngestBroken, DedupClaims, BeginStage, SortStep,
                StageSorted, StageCyclic, BindModules, Validate, PlaceStage,
                BuildPlan, Over, vars
  <2> QED  BY <2>1 DEF Known
<1> QED  BY <1>1, <1>2

\* The order topological_sort returned orders the stage.
LEMMA SortedOrders ==
  ASSUME Loaded, SortInv, Current, outcome = "ok",
         NEW e, e = [stage |-> STAGE_ORDER[position], ids |-> sorted]
  PROVE  Ordered(e) /\ Rank(e) = position /\ position \in 1 .. 24
<1>1. /\ position \in 1 .. 24
      /\ nodes = Ids(AtStage(kept, STAGE_ORDER[position])) /\ nodes # {}
      /\ edges = StageEdges(kept, STAGE_ORDER[position])
  BY DEF Current
<1>2. Graph /\ Prefix /\ Complete
  BY DEF SortInv, Verdict
<1>3. Emitted = nodes
  BY <1>2, CompleteIsAll
<1>4. e.stage = STAGE_ORDER[position] /\ e.ids = sorted
  OBVIOUS
<1>5. STAGE_ORDER[position] \in Range(STAGE_ORDER)
  BY <1>1, StageAt
<1>6. sorted \in Seq(ModuleId) /\ sorted # <<>>
  <2>1. nodes \subseteq ModuleId /\ sorted \in Seq(nodes)
    BY <1>2 DEF Graph, Prefix
  <2>2. sorted # <<>>
    BY <1>1, <1>3 DEF Emitted, Range
  <2> QED  BY <2>1, <2>2
<1>7. e \in Entry
  BY <1>5, <1>6 DEF Entry
<1>8. DOMAIN sorted = 1 .. Len(sorted) /\ Len(sorted) \in Nat
  BY <1>6
<1>9. ASSUME NEW k \in DOMAIN sorted, NEW l \in DOMAIN sorted,
             <<sorted[k], sorted[l]>> \in edges
      PROVE  k < l
  <2>1. sorted[k] \in nodes
    BY <1>2, <1>9 DEF Graph
  <2>2. sorted[k] \in Up(sorted[l])
    BY <1>9, <2>1 DEF Up, Upstream
  <2>3. sorted[k] \in First(l - 1)
    BY <1>2, <1>8, <2>2 DEF Prefix
  <2>4. PICK j \in 1 .. (l - 1) : sorted[k] = sorted[j]
    BY <2>3 DEF First
  <2>5. j \in 1 .. Len(sorted)
    BY <1>8, <2>4
  <2>6. k = j
    BY <1>2, <1>8, <2>4, <2>5 DEF Prefix
  <2> QED  BY <1>8, <2>4, <2>6
<1>10. \A k, l \in DOMAIN sorted : sorted[k] = sorted[l] => k = l
  BY <1>2, <1>8 DEF Prefix
<1>11. Ordered(e)
  BY <1>1, <1>3, <1>4, <1>6, <1>7, <1>9, <1>10 DEF Ordered, Emitted
<1>12. Rank(e) = position
  BY <1>1, <1>4, StageIndexOf DEF Rank
<1> QED  BY <1>1, <1>11, <1>12

LEMMA SameOrdered ==
  ASSUME kept' = kept
  PROVE  \A e : Ordered(e)' <=> Ordered(e)
BY DEF Ordered, AtStage, StageEdges

WalkInv == Known /\ Current /\ Walk

LEMMA BeginWalk ==
  ASSUME Loaded, WalkInv, BeginStage
  PROVE  Current' /\ Walk'
<1>1. /\ phase = "sort" /\ phase' = "sort" /\ outcome = "idle"
      /\ UNCHANGED <<kept, sortedStages>>
  BY DEF BeginStage
<1>2. /\ position \in 0 .. 24
      /\ \A p \in DOMAIN sortedStages :
            Ordered(sortedStages[p]) /\ Rank(sortedStages[p]) <= position
      /\ sortedStages \in Seq(Entry) /\ Rising(sortedStages)
  BY DEF WalkInv, Walk
<1>3. NextStages \in SUBSET Nat /\ NextStages # {}
  <2>1. (position + 1) .. Len(STAGE_ORDER) \subseteq Nat
    BY <1>2, StagePositions
  <2> QED  BY <2>1 DEF NextStages, BeginStage
<1>4. PICK i : /\ i = Min(NextStages) /\ i \in NextStages
               /\ \A t \in NextStages : i <= t
  BY <1>3, LeastExists
<1>5. /\ i \in (position + 1) .. 24
      /\ AtStage(kept, STAGE_ORDER[i]) # {}
  BY <1>4, StagePositions DEF NextStages
<1>6. i \in 1 .. 24 /\ position < i
  BY <1>2, <1>5
<1>7. /\ position' = i /\ outcome' = "sorting"
      /\ nodes' = Ids(AtStage(kept, STAGE_ORDER[i]))
      /\ edges' = StageEdges(kept, STAGE_ORDER[i])
  BY <1>4 DEF BeginStage, StartSort
<1>8. nodes' # {}
  BY <1>5, <1>7 DEF Ids
<1>9. /\ Ids(AtStage(kept, STAGE_ORDER[i]))' = Ids(AtStage(kept, STAGE_ORDER[i]))
      /\ StageEdges(kept, STAGE_ORDER[i])' = StageEdges(kept, STAGE_ORDER[i])
  BY <1>1
<1>10. \A p \in DOMAIN sortedStages : Rank(sortedStages[p]) < i
  <2> TAKE p \in DOMAIN sortedStages
  <2>1. sortedStages[p] \in Entry /\ Rank(sortedStages[p]) <= position
    BY <1>2 DEF Ordered
  <2>2. PICK k \in 1 .. 24 : k = Rank(sortedStages[p])
    BY <2>1, RankOf
  <2> QED  BY <1>2, <1>6, <2>1, <2>2
<1>11. Current'
  BY <1>1, <1>6, <1>7, <1>8, <1>10 DEF Current, Rank
<1>12. ASSUME NEW m \in kept, StageIndex(m.stage) <= i
       PROVE  HasEntry(m.stage) \/ m.stage = STAGE_ORDER[i]
  <2>1. /\ m.stage \in Range(STAGE_ORDER)
    BY DEF Loaded, WalkInv, Known
  <2>2. PICK k \in 1 .. 24 : k = StageIndex(m.stage) /\ m.stage = STAGE_ORDER[k]
    BY <2>1, StageOf
  <2>3. CASE k <= position
    BY <1>1, <2>2, <2>3 DEF WalkInv, Walk
  <2>4. CASE position < k
    <3>1. k \in (position + 1) .. Len(STAGE_ORDER)
      BY <1>2, <2>4, StagePositions
    <3>2. m \in AtStage(kept, STAGE_ORDER[k])
      BY <2>2 DEF AtStage
    <3>3. k \in NextStages
      BY <3>1, <3>2 DEF NextStages
    <3>4. i <= k /\ k <= i
      BY <1>4, <1>12, <2>2, <3>3
    <3> QED  BY <1>6, <2>2, <3>4
  <2> QED  BY <1>2, <2>3, <2>4
<1>13. Walk'
  <2>1. \A p \in DOMAIN sortedStages' :
            Ordered(sortedStages[p])' /\ Rank(sortedStages'[p]) <= position'
    <3> TAKE p \in DOMAIN sortedStages'
    <3>1. PICK e : e = sortedStages[p]
      OBVIOUS
    <3>2. p \in DOMAIN sortedStages /\ Ordered(e) /\ Rank(e) < i
      BY <1>1, <1>2, <1>10, <3>1
    <3>3. PICK k \in 1 .. 24 : k = Rank(e)
      BY <3>2, RankOf DEF Ordered
    <3>4. Rank(e) <= i
      BY <1>6, <3>2, <3>3
    <3>5. Ordered(e)'
      BY <1>1, <3>2, SameOrdered
    <3>6. sortedStages'[p] = e
      BY <1>1, <3>1
    <3>7. Ordered(sortedStages[p])'
      BY <3>5, <3>6 DEF Ordered
    <3> QED  BY <1>7, <3>4, <3>6, <3>7
  <2>2. \A m \in kept' : StageIndex(m.stage) <= position' =>
            HasEntry(m.stage)' \/ m.stage = STAGE_ORDER[position']
    BY <1>1, <1>7, <1>12 DEF HasEntry
  <2>3. /\ sortedStages' \in Seq(Entry) /\ Rising(sortedStages)'
        /\ position' \in 0 .. 24
    BY <1>1, <1>2, <1>6, <1>7 DEF Rising, Rank
  <2>4. outcome' # "idle" /\ phase' = "sort"
    BY <1>1, <1>7
  <2> QED
    BY <2>1, <2>2, <2>3, <2>4 DEF Walk
<1> QED  BY <1>11, <1>13

\* One more entry, of a later stage.
LEMMA AppendRises ==
  ASSUME NEW s \in Seq(Entry), NEW e \in Entry, Rising(s),
         \A p \in DOMAIN s : s[p].ids # <<>> => Rank(s[p]) < Rank(e)
  PROVE  /\ Append(s, e) \in Seq(Entry) /\ Rising(Append(s, e))
         /\ DOMAIN Append(s, e) = 1 .. Len(s) + 1 /\ Len(s) \in Nat
         /\ \A p \in 1 .. Len(s) : p \in DOMAIN s /\ Append(s, e)[p] = s[p]
         /\ Append(s, e)[Len(s) + 1] = e
<1>1. /\ Append(s, e) \in Seq(Entry) /\ Len(s) \in Nat
      /\ DOMAIN Append(s, e) = 1 .. Len(s) + 1 /\ DOMAIN s = 1 .. Len(s)
      /\ \A p \in 1 .. Len(s) : Append(s, e)[p] = s[p]
      /\ Append(s, e)[Len(s) + 1] = e
  OBVIOUS
<1>2. ASSUME NEW p \in 1 .. Len(s) + 1, NEW q \in 1 .. Len(s) + 1, p < q,
             Append(s, e)[p].ids # <<>>, Append(s, e)[q].ids # <<>>
      PROVE  Rank(Append(s, e)[p]) < Rank(Append(s, e)[q])
  <2>1. p \in 1 .. Len(s)
    BY <1>1, <1>2
  <2>2. CASE q \in 1 .. Len(s)
    BY <1>1, <1>2, <2>1, <2>2 DEF Rising
  <2>3. CASE q = Len(s) + 1
    BY <1>1, <1>2, <2>1, <2>3
  <2> QED  BY <1>1, <2>2, <2>3
<1>3. Rising(Append(s, e))
  BY <1>1, <1>2 DEF Rising
<1> QED  BY <1>1, <1>3

LEMMA StageSortedWalk ==
  ASSUME Loaded, SortInv, WalkInv, StageSorted
  PROVE  Current' /\ Walk'
<1>1. PICK e : e = [stage |-> STAGE_ORDER[position], ids |-> sorted]
  OBVIOUS
<1>2. /\ phase = "sort" /\ phase' = "sort" /\ outcome = "ok" /\ outcome' = "idle"
      /\ UNCHANGED <<kept, position>>
      /\ sortedStages' = Append(sortedStages, e)
  BY <1>1 DEF StageSorted
<1>3. Ordered(e) /\ Rank(e) = position /\ position \in 1 .. 24
  BY <1>1, <1>2, SortedOrders DEF WalkInv
<1>4. e \in Entry /\ e.stage = STAGE_ORDER[position]
  BY <1>1, <1>3 DEF Ordered
<1>5. /\ sortedStages \in Seq(Entry) /\ Rising(sortedStages)
      /\ \A p \in DOMAIN sortedStages :
            Ordered(sortedStages[p]) /\ Rank(sortedStages[p]) <= position
      /\ \A p \in DOMAIN sortedStages : Rank(sortedStages[p]) < Rank(e)
  BY <1>2, <1>3 DEF WalkInv, Walk, Current
<1>6. PICK n \in Nat : n = Len(sortedStages)
  BY <1>5
<1>7. /\ sortedStages' \in Seq(Entry) /\ Rising(sortedStages)'
      /\ DOMAIN sortedStages' = 1 .. n + 1
      /\ \A p \in 1 .. n : p \in DOMAIN sortedStages /\ sortedStages'[p] = sortedStages[p]
      /\ sortedStages'[n + 1] = e
  <2>1. PICK t : t = Append(sortedStages, e)
    OBVIOUS
  <2>2. /\ t \in Seq(Entry) /\ Rising(t)
        /\ DOMAIN t = 1 .. n + 1
        /\ \A p \in 1 .. n : p \in DOMAIN sortedStages /\ t[p] = sortedStages[p]
        /\ t[n + 1] = e
    BY <1>4, <1>5, <1>6, <2>1, AppendRises
  <2>3. Rising(t)'
    BY <2>2 DEF Rising, Rank
  <2>4. sortedStages' = t
    BY <1>2, <2>1
  <2> QED  BY <2>2, <2>3, <2>4 DEF Rising, Rank
<1>8. \A p \in DOMAIN sortedStages' :
            Ordered(sortedStages[p])' /\ Rank(sortedStages'[p]) <= position'
  <2> TAKE p \in DOMAIN sortedStages'
  <2>1. PICK d : d = sortedStages'[p]
    OBVIOUS
  <2>2. Ordered(d) /\ Rank(d) <= position
    <3>1. CASE p \in 1 .. n
      BY <1>5, <1>7, <2>1, <3>1
    <3>2. CASE p = n + 1
      BY <1>3, <1>7, <2>1, <3>2
    <3> QED  BY <1>7, <3>1, <3>2
  <2>3. Ordered(d)'
    BY <1>2, <2>2, SameOrdered
  <2>4. Ordered(sortedStages[p])'
    BY <2>1, <2>3 DEF Ordered
  <2> QED  BY <1>2, <2>1, <2>2, <2>4
<1>9. \A s : HasEntry(s) \/ s = e.stage => HasEntry(s)'
  <2>1. ASSUME NEW p \in DOMAIN sortedStages
        PROVE  p \in DOMAIN sortedStages' /\ sortedStages'[p] = sortedStages[p]
    BY <1>5, <1>6, <1>7
  <2>2. n + 1 \in DOMAIN sortedStages'
    BY <1>7
  <2> QED  BY <1>7, <2>1, <2>2 DEF HasEntry
<1>10. \A m \in kept' : StageIndex(m.stage) <= position' => HasEntry(m.stage)'
  BY <1>2, <1>4, <1>9 DEF WalkInv, Walk
<1>11. Walk'
  BY <1>2, <1>3, <1>7, <1>8, <1>10 DEF Walk
<1> QED  BY <1>2, <1>11 DEF Current

LEMMA DedupWalk ==
  ASSUME Loaded, WalkInv, DedupClaims
  PROVE  Current' /\ Walk'
<1>1. /\ phase = "discover" /\ phase' = "sort" /\ position = 0
      /\ sortedStages = <<>> /\ outcome = "idle"
      /\ UNCHANGED <<modules, position, sortedStages, outcome>>
      /\ kept' \subseteq modules
  BY DEF DedupClaims, sortVars, WalkInv, Walk, Survivors
<1>2. \A m \in kept' : StageIndex(m.stage) \in 1 .. 24
  BY <1>1, StageOf DEF WalkInv, Known
<1>3. \A m \in kept' : ~(StageIndex(m.stage) <= position')
  BY <1>1, <1>2
<1>4. DOMAIN sortedStages' = {} /\ sortedStages' \in Seq(Entry)
  BY <1>1
<1> QED  BY <1>1, <1>3, <1>4 DEF Current, Walk, Rising

LEMMA WalkFrame ==
  ASSUME WalkInv, UNCHANGED <<kept, position, sortedStages>>,
         phase' = "discover" => phase = "discover" /\ outcome' = "idle",
         \/ UNCHANGED <<nodes, edges, outcome>>
         \/ outcome # "idle" /\ outcome' # "idle" /\ UNCHANGED <<nodes, edges>>,
         phase' \in {"validate", "plan", "built"} =>
            \A m \in kept : HasEntry(m.stage)
  PROVE  Current' /\ Walk'
<1>1. \A p \in DOMAIN sortedStages' :
            Ordered(sortedStages[p])' /\ Rank(sortedStages'[p]) <= position'
  <2> TAKE p \in DOMAIN sortedStages'
  <2>1. PICK d : d = sortedStages[p] /\ d = sortedStages'[p]
    OBVIOUS
  <2>2. Ordered(d) /\ Rank(d) <= position
    BY <2>1 DEF WalkInv, Walk
  <2>3. Ordered(d)'
    BY <2>2, SameOrdered
  <2>4. Ordered(sortedStages[p])'
    BY <2>1, <2>3 DEF Ordered
  <2> QED  BY <2>1, <2>2, <2>4
<1>2. \A s : HasEntry(s)' <=> HasEntry(s)
  BY DEF HasEntry
<1>3. Rising(sortedStages)'
  BY DEF WalkInv, Walk, Rising, Rank
<1>4. outcome' # "idle" <=> outcome # "idle"
  OBVIOUS
<1>5. Walk'
  BY <1>1, <1>2, <1>3, <1>4 DEF WalkInv, Walk
<1>6. Current'
  <2>1. UNCHANGED <<nodes, edges>>
    OBVIOUS
  <2> QED  BY <1>4, <2>1 DEF WalkInv, Current, Rank
<1> QED  BY <1>5, <1>6

LEMMA WalkStep ==
  ASSUME Loaded, SortInv, WalkInv, [Next]_vars
  PROVE  WalkInv'
<1>1. Known'
  BY KnownStep DEF WalkInv
<1>2. CASE DedupClaims
  BY <1>1, <1>2, DedupWalk DEF WalkInv
<1>3. CASE BeginStage
  BY <1>1, <1>3, BeginWalk DEF WalkInv
<1>4. CASE StageSorted
  BY <1>1, <1>4, StageSortedWalk DEF WalkInv
<1>5. CASE SortStep
  <2>1. /\ phase = "sort" /\ UNCHANGED <<phase, kept, position, sortedStages>>
        /\ UNCHANGED <<nodes, edges>> /\ outcome = "sorting" /\ outcome' # "idle"
    BY <1>5 DEF SortStep, PopReady, FinishSort
  <2> QED  BY <1>1, <2>1, WalkFrame DEF WalkInv
<1>6. CASE BindModules
  <2>1. /\ phase = "sort" /\ phase' # "discover" /\ outcome = "idle"
        /\ UNCHANGED <<kept, position, sortedStages, nodes, edges, outcome>>
        /\ NextStages = {}
    BY <1>6 DEF BindModules, Fail, sortVars
  <2>2. ASSUME NEW m \in kept  PROVE HasEntry(m.stage)
    <3>1. m.stage \in Range(STAGE_ORDER)
      BY DEF Loaded, WalkInv, Known
    <3>2. PICK k \in 1 .. 24 : k = StageIndex(m.stage) /\ m.stage = STAGE_ORDER[k]
      BY <3>1, StageOf
    <3>3. position \in 0 .. 24
      BY DEF WalkInv, Walk
    <3>4. CASE k <= position
      BY <2>1, <3>2, <3>4 DEF WalkInv, Walk
    <3>5. CASE position < k
      <4>1. k \in (position + 1) .. Len(STAGE_ORDER)
        BY <3>3, <3>5, StagePositions
      <4>2. m \in AtStage(kept, STAGE_ORDER[k])
        BY <3>2 DEF AtStage
      <4> QED  BY <2>1, <4>1, <4>2 DEF NextStages
    <3> QED  BY <3>3, <3>4, <3>5
  <2> QED  BY <1>1, <2>1, <2>2, WalkFrame DEF WalkInv
<1>7. CASE \/ IngestBroken \/ IngestManifest \/ StageCyclic \/ Validate
           \/ PlaceStage \/ BuildPlan \/ Over \/ UNCHANGED vars
  <2>1. /\ UNCHANGED <<kept, position, sortedStages, nodes, edges, outcome>>
        /\ phase' = "discover" => phase = "discover"
        /\ phase' \in {"validate", "plan", "built"}
            => phase \in {"validate", "plan", "built"}
    BY <1>7 DEF IngestBroken, IngestManifest, StageCyclic, Validate, PlaceStage,
                BuildPlan, Over, Fail, vars, sortVars
  <2>2. /\ phase' = "discover" => phase = "discover" /\ outcome' = "idle"
        /\ phase' \in {"validate", "plan", "built"} =>
            \A m \in kept : HasEntry(m.stage)
    BY <2>1 DEF WalkInv, Walk
  <2> QED  BY <1>1, <2>1, <2>2, WalkFrame DEF WalkInv
<1> QED  BY <1>2, <1>3, <1>4, <1>5, <1>6, <1>7 DEF Next

LEMMA MissingTold ==
  ASSUME NEW m \in kept, ~ (m.requires \subseteq Ids(kept))
  PROVE  \E e \in StartupErrors : e.pass = "missing" /\ e.of = m.id
<1>1. [pass |-> "missing", of |-> m.id, on |-> ""] \in MissingErrors
  BY DEF MissingErrors
<1>2. PICK e : e = [pass |-> "missing", of |-> m.id, on |-> ""]
  OBVIOUS
<1>3. e.pass = "missing" /\ e.of = m.id
  BY <1>2
<1>4. e \in StartupErrors
  BY <1>1, <1>2, Zenon DEF StartupErrors
<1> QED  BY <1>3, <1>4

LEMMA CrossStageTold ==
  ASSUME NEW m \in kept, NEW r \in kept, r.id \in m.requires, LaterStage(r, m)
  PROVE  \E e \in StartupErrors : e.pass = "cross-stage" /\ e.of = m.id
<1>1. [pass |-> "cross-stage", of |-> m.id, on |-> ""] \in CrossStageErrors
  BY DEF CrossStageErrors
<1>2. PICK e : e = [pass |-> "cross-stage", of |-> m.id, on |-> ""]
  OBVIOUS
<1>3. e.pass = "cross-stage" /\ e.of = m.id
  BY <1>2
<1>4. e \in StartupErrors
  BY <1>1, <1>2, Zenon DEF StartupErrors
<1> QED  BY <1>3, <1>4

\* Two writers of a field that neither reads clash, whatever the paths of the
\* stage's graph.
LEMMA WriteTold ==
  ASSUME NEW a \in kept, NEW b \in kept, HasEntry(a.stage),
         NEW f \in (a.writes \cap b.writes) \ (a.reads \cup b.reads),
         a.id # b.id, a.stage = b.stage,
         a.claims \cap FAMILY_SCOPED_SUPPORT_CLAIMS = {}
  PROVE  \E e \in StartupErrors : e.pass = "write" /\ e.on = f
<1>1. a \in Producers /\ b \in Producers
  BY DEF Producers, SortedStageSet, HasEntry
<1>2. WriteClash(a, b, f)
  BY DEF WriteClash
<1>3. f \in UNION {p.writes : p \in Producers}
  BY <1>1
<1>4. PICK t : t = <<a, b, f>>
  OBVIOUS
<1>5. /\ t \in Producers \X Producers \X UNION {p.writes : p \in Producers}
      /\ WriteClash(t[1], t[2], t[3])
  BY <1>1, <1>2, <1>3, <1>4
<1>6. [pass |-> "write", of |-> t[1].id, on |-> t[3]] \in WriteErrors
  BY <1>5 DEF WriteErrors
<1> QED  BY <1>4, <1>6 DEF StartupErrors

LEMMA ToldStep ==
  ASSUME WalkInv, Told, [Next]_vars
  PROVE  Told'
<1>1. CASE Validate
  <2>1. phase = "validate" /\ kept' = kept /\ report' = StartupErrors
    BY <1>1 DEF Validate
  <2>2. \A m \in kept : HasEntry(m.stage)
    BY <2>1 DEF WalkInv, Walk
  <2>3. \A m \in kept' :
            ~ (m.requires \subseteq Ids(kept')) => Reported("missing", m.id)'
    BY <2>1, MissingTold DEF Reported
  <2>4. \A m, r \in kept' : r.id \in m.requires /\ LaterStage(r, m) =>
            Reported("cross-stage", m.id)'
    BY <2>1, CrossStageTold DEF Reported
  <2>5. \A a, b \in kept' :
          \A f \in (a.writes \cap b.writes) \ (a.reads \cup b.reads) :
            /\ a.id # b.id /\ a.stage = b.stage
            /\ a.claims \cap FAMILY_SCOPED_SUPPORT_CLAIMS = {}
            => \E e \in report' : e.pass = "write" /\ e.on = f
    BY <2>1, <2>2, WriteTold
  <2> QED  BY <2>3, <2>4, <2>5 DEF Told, LaterStage
<1>2. CASE ~Validate
  <2>1. phase' \in {"plan", "built"} =>
            phase \in {"plan", "built"} /\ UNCHANGED <<kept, report>>
    BY <1>2 DEF Next, IngestBroken, IngestManifest, DedupClaims, BeginStage,
                SortStep, StageSorted, StageCyclic, BindModules, PlaceStage,
                BuildPlan, Over, Fail, vars
  <2> QED  BY <2>1 DEF Told, Reported, LaterStage
<1> QED  BY <1>1, <1>2

LEMMA PlacedType ==
  ASSUME WalkInv, Tiered
  PROVE  placed \in Nat /\ Len(sortedStages) \in Nat
<1>1. Len(sortedStages) \in Nat
  BY DEF WalkInv, Walk
<1>2. PICK len \in Nat : len = Len(sortedStages)
  BY <1>1
<1>3. placed \in 0 .. len
  BY <1>2 DEF Tiered
<1> QED  BY <1>1, <1>3

\* An entry is appended to the tier of its stage.
LEMMA PlaceTiered ==
  ASSUME WalkInv, Tiered, PlaceStage
  PROVE  Tiered'
<1>1. PICK n \in Nat, len \in Nat : n = placed /\ len = Len(sortedStages)
  BY PlacedType
<1>2. PICK e, c : e = sortedStages[n + 1] /\ c = Tier(e.stage)
  OBVIOUS
<1>3. /\ n < len /\ placed' = n + 1 /\ sortedStages' = sortedStages
      /\ tiers' = [tiers EXCEPT ![c] =
                     IF c = "finalization" THEN <<e>> ELSE Append(tiers[c], e)]
  BY <1>1, <1>2 DEF PlaceStage
<1>4. /\ sortedStages \in Seq(Entry) /\ DOMAIN sortedStages = 1 .. len
      /\ Rising(sortedStages) /\ \A p \in 1 .. len : Ordered(sortedStages[p])
  BY <1>1 DEF WalkInv, Walk
<1>5. n + 1 \in 1 .. len /\ \A i \in 1 .. n : i \in 1 .. len /\ i < n + 1
  BY <1>1, <1>3
<1>6. /\ e \in Entry /\ e.ids # <<>>
      /\ \A i \in 1 .. n : sortedStages[i].ids # <<>> /\ Rank(sortedStages[i]) < Rank(e)
  BY <1>2, <1>4, <1>5 DEF Ordered, Rising
<1>7. /\ tiers \in [TierNames -> Seq(Entry)]
      /\ \A t \in TierNames :
          /\ Rising(tiers[t])
          /\ \A p \in DOMAIN tiers[t] :
              \E i \in 1 .. n : /\ tiers[t][p] = sortedStages[i]
                                /\ Tier(sortedStages[i].stage) = t
      /\ \A i \in 1 .. n :
          sortedStages[i] \in Range(tiers[Tier(sortedStages[i].stage)])
  BY <1>1 DEF Tiered
<1>8. PICK k \in 1 .. 24 : k = Rank(e) /\ e.stage = STAGE_ORDER[k]
  BY <1>6, RankOf
<1>9. c \in TierNames
  BY <1>2, <1>8, TierRanges DEF TierNames
<1>10. PICK new : new = IF c = "finalization" THEN <<e>> ELSE Append(tiers[c], e)
  OBVIOUS
<1>11. /\ tiers' = [tiers EXCEPT ![c] = new]
  BY <1>3, <1>10
<1>12. \A p \in DOMAIN tiers[c] : Rank(tiers[c][p]) < Rank(e)
  BY <1>6, <1>7, <1>9
<1> DEFINE Placed ==
      /\ new \in Seq(Entry) /\ Rising(new) /\ e \in Range(new)
      /\ \A p \in DOMAIN new : \/ new[p] = e
                              \/ \E i \in 1 .. n : /\ new[p] = sortedStages[i]
                                                   /\ Tier(sortedStages[i].stage) = c
      /\ \A i \in 1 .. n : Tier(sortedStages[i].stage) = c =>
                            sortedStages[i] \in Range(new)
<1>13. ASSUME c = "finalization"  PROVE Placed
  <2>1. new = <<e>>
    BY <1>10, <1>13
  <2>2. ASSUME NEW i \in 1 .. n, Tier(sortedStages[i].stage) = c
        PROVE  FALSE
    <3>1. PICK d : d = sortedStages[i]
      OBVIOUS
    <3>2. d \in Entry /\ Rank(d) < Rank(e)
      BY <1>4, <1>5, <1>6, <3>1 DEF Ordered
    <3>3. PICK l \in 1 .. 24 : l = Rank(d) /\ d.stage = STAGE_ORDER[l]
      BY <3>2, RankOf
    <3>4. Tier(STAGE_ORDER[l]) = "finalization" /\ Tier(STAGE_ORDER[k]) = "finalization"
      BY <1>2, <1>8, <1>13, <2>2, <3>1, <3>3
    <3>5. l = 21 /\ k = 21
      BY <3>4, TierRanges
    <3> QED  BY <1>8, <3>2, <3>3, <3>5
  <2>3. new \in Seq(Entry) /\ DOMAIN new = {1} /\ new[1] = e
    BY <1>6, <2>1
  <2>4. Rising(new)
    BY <2>3 DEF Rising
  <2>5. e \in Range(new) /\ \A p \in DOMAIN new : new[p] = e
    BY <2>3 DEF Range
  <2> QED  BY <2>2, <2>3, <2>4, <2>5
<1>14. ASSUME c # "finalization"  PROVE Placed
  <2>1. PICK s : s = tiers[c]
    OBVIOUS
  <2>2. new = Append(s, e) /\ s \in Seq(Entry) /\ Rising(s)
    BY <1>7, <1>9, <1>10, <1>14, <2>1
  <2>3. PICK m \in Nat : m = Len(s)
    BY <2>2
  <2>4. /\ new \in Seq(Entry) /\ Rising(new) /\ DOMAIN new = 1 .. m + 1
        /\ \A p \in 1 .. m : p \in DOMAIN s /\ new[p] = s[p]
        /\ new[m + 1] = e
    BY <1>6, <1>12, <2>1, <2>2, <2>3, AppendRises
  <2>5. \A p \in DOMAIN new : p \in 1 .. m \/ p = m + 1
    BY <2>4
  <2>6. \A p \in DOMAIN s : p \in DOMAIN new /\ p \in 1 .. m
    BY <2>2, <2>3, <2>4
  <2>7. e \in Range(new)
    <3>1. m + 1 \in DOMAIN new
      BY <2>4
    <3> QED  BY <2>4, <3>1 DEF Range
  <2>8. Range(s) \subseteq Range(new)
    BY <2>4, <2>6 DEF Range
  <2>9. \A p \in DOMAIN new : \/ new[p] = e
                              \/ \E i \in 1 .. n : /\ new[p] = sortedStages[i]
                                                   /\ Tier(sortedStages[i].stage) = c
    <3> TAKE p \in DOMAIN new
    <3>1. CASE p = m + 1
      BY <2>4, <3>1
    <3>2. CASE p \in 1 .. m
      <4>1. p \in DOMAIN tiers[c] /\ new[p] = tiers[c][p]
        BY <2>1, <2>4, <3>2
      <4> QED  BY <1>7, <1>9, <4>1
    <3> QED  BY <2>5, <3>1, <3>2
  <2>10. \A i \in 1 .. n : Tier(sortedStages[i].stage) = c =>
                              sortedStages[i] \in Range(new)
    BY <1>7, <2>1, <2>8
  <2> QED  BY <2>4, <2>7, <2>9, <2>10
<1>15. Placed
  BY <1>13, <1>14
<1>16. /\ tiers' \in [TierNames -> Seq(Entry)] /\ tiers'[c] = new
       /\ \A t \in TierNames : t # c => tiers'[t] = tiers[t]
  BY <1>7, <1>9, <1>11, <1>15
<1>17. \A i : i \in 1 .. n + 1 <=> i \in 1 .. n \/ i = n + 1
  BY <1>1
<1>18. ASSUME NEW t \in TierNames
       PROVE  /\ Rising(tiers'[t])
              /\ \A p \in DOMAIN tiers'[t] :
                    \E i \in 1 .. n + 1 : /\ tiers'[t][p] = sortedStages[i]
                                          /\ Tier(sortedStages[i].stage) = t
  <2>1. CASE t = c
    BY <1>2, <1>15, <1>16, <1>17, <2>1
  <2>2. CASE t # c
    BY <1>7, <1>16, <1>17, <2>2
  <2> QED  BY <2>1, <2>2
<1>19. ASSUME NEW i \in 1 .. n + 1
       PROVE  sortedStages[i] \in Range(tiers'[Tier(sortedStages[i].stage)])
  <2>1. CASE i = n + 1
    BY <1>2, <1>15, <1>16, <2>1
  <2>2. CASE i \in 1 .. n
    <3>1. PICK d, t : d = sortedStages[i] /\ t = Tier(d.stage)
      OBVIOUS
    <3>2. PICK l \in 1 .. 24 : d.stage = STAGE_ORDER[l]
      BY <1>4, <1>5, <2>2, <3>1, RankOf DEF Ordered
    <3>3. t \in TierNames
      BY <3>1, <3>2, TierRanges DEF TierNames
    <3> QED  BY <1>7, <1>15, <1>16, <2>2, <3>1, <3>3
  <2> QED  BY <1>17, <2>1, <2>2
<1>20. placed' \in 0 .. Len(sortedStages')
  BY <1>1, <1>3
<1> HIDE DEF Placed
<1>21. /\ \A t \in TierNames :
          /\ Rising(tiers[t])'
          /\ \A p \in DOMAIN tiers'[t] :
              \E i \in 1 .. placed' : /\ tiers'[t][p] = sortedStages'[i]
                                      /\ Tier(sortedStages'[i].stage) = t
  <2>1. \A t \in TierNames : Rising(tiers[t])'
    BY <1>18 DEF Rising
  <2> QED  BY <1>3, <1>18, <2>1
<1>22. \A i \in 1 .. placed' :
          sortedStages'[i] \in Range(tiers'[Tier(sortedStages'[i].stage)])
  BY <1>3, <1>19
<1> QED
  BY <1>16, <1>20, <1>21, <1>22 DEF Tiered

LEMMA TieredStep ==
  ASSUME WalkInv, Tiered, [Next]_vars
  PROVE  Tiered'
<1>1. CASE PlaceStage
  BY <1>1, PlaceTiered
<1>2. CASE StageSorted
  <2>1. PICK e : sortedStages' = Append(sortedStages, e)
    BY <1>2 DEF StageSorted
  <2>2. PICK n \in Nat : n = Len(sortedStages)
    BY DEF WalkInv, Walk
  <2>3. /\ Len(sortedStages') = n + 1
        /\ \A i \in 1 .. n : sortedStages'[i] = sortedStages[i]
    BY <2>1, <2>2 DEF WalkInv, Walk
  <2>4. UNCHANGED <<placed, tiers>>
    BY <1>2 DEF StageSorted, tierVars
  <2>5. /\ placed \in 0 .. n /\ placed \in 0 .. n + 1
        /\ \A i \in 1 .. placed : i \in 1 .. n
    BY <2>2 DEF Tiered
  <2>6. \A i \in 1 .. placed : sortedStages'[i] = sortedStages[i]
    BY <2>3, <2>5
  <2> QED  BY <2>3, <2>4, <2>5, <2>6 DEF Tiered, Rising
<1>3. CASE ~PlaceStage /\ ~StageSorted
  <2>1. UNCHANGED <<placed, tiers, sortedStages>>
    BY <1>3 DEF Next, IngestBroken, IngestManifest, DedupClaims, BeginStage,
                SortStep, StageCyclic, BindModules, Validate,
                BuildPlan, Over, vars, tierVars
  <2> QED  BY <2>1 DEF Tiered, Rising
<1> QED  BY <1>1, <1>2, <1>3

\* The modules of s are of the stages lo .. hi, and s is in their order.
Band(s, lo, hi) ==
  /\ s \in Seq(Entry) /\ Rising(s)
  /\ \A p \in DOMAIN s : s[p].ids # <<>> => Rank(s[p]) \in lo .. hi

LEMMA JoinBands ==
  ASSUME NEW s, NEW t, NEW lo \in Nat, NEW mid \in Nat, NEW hi \in Nat,
         lo <= mid, mid < hi, Band(s, lo, mid), Band(t, mid + 1, hi)
  PROVE  Band(s \o t, lo, hi) /\ Range(s \o t) = Range(s) \cup Range(t)
<1>1. PICK m \in Nat, n \in Nat : m = Len(s) /\ n = Len(t)
  BY DEF Band
<1>2. PICK u : u = s \o t
  OBVIOUS
<1>3. /\ DOMAIN s = 1 .. m /\ DOMAIN t = 1 .. n /\ s \in Seq(Entry) /\ t \in Seq(Entry)
  BY <1>1 DEF Band
<1>4. /\ u \in Seq(Entry) /\ DOMAIN u = 1 .. m + n
      /\ \A p \in 1 .. m : u[p] = s[p]
      /\ \A p \in 1 .. n : u[m + p] = t[p]
  BY <1>1, <1>2, <1>3
<1>5. ASSUME NEW p \in 1 .. m + n
      PROVE  p \in 1 .. m \/ \E q \in 1 .. n : p = m + q
  <2>1. CASE p <= m
    BY <2>1
  <2>2. CASE p > m
    <3>1. p - m \in 1 .. n /\ p = m + (p - m)
      BY <2>2
    <3> QED  BY <3>1
  <2> QED  BY <2>1, <2>2
<1>6. \A p \in 1 .. m, q \in 1 .. n : p \in 1 .. m + n /\ m + q \in 1 .. m + n
  BY <1>1
<1>7. Range(u) = Range(s) \cup Range(t)
  <2>1. \A p \in 1 .. m + n : u[p] \in Range(s) \cup Range(t)
    <3> TAKE p \in 1 .. m + n
    <3>1. CASE p \in 1 .. m
      BY <1>3, <1>4, <3>1 DEF Range
    <3>2. CASE \E q \in 1 .. n : p = m + q
      <4>1. PICK q \in 1 .. n : p = m + q
        BY <3>2
      <4> QED  BY <1>3, <1>4, <4>1 DEF Range
    <3> QED  BY <1>5, <3>1, <3>2
  <2>2. \A p \in 1 .. m : s[p] \in Range(u)
    <3> TAKE p \in 1 .. m
    <3>1. p \in DOMAIN u /\ u[p] = s[p]
      BY <1>1, <1>4
    <3> QED  BY <3>1 DEF Range
  <2>3. \A q \in 1 .. n : t[q] \in Range(u)
    <3> TAKE q \in 1 .. n
    <3>1. m + q \in DOMAIN u /\ u[m + q] = t[q]
      BY <1>4, <1>6
    <3> QED  BY <3>1 DEF Range
  <2>4. Range(u) \subseteq Range(s) \cup Range(t)
    BY <1>4, <2>1 DEF Range
  <2>5. Range(s) \cup Range(t) \subseteq Range(u)
    BY <1>3, <2>2, <2>3 DEF Range
  <2> QED  BY <2>4, <2>5
<1>8. ASSUME NEW p \in DOMAIN u, u[p].ids # <<>>
      PROVE  Rank(u[p]) \in lo .. hi
  <2>1. CASE p \in 1 .. m
    <3>1. Rank(u[p]) \in lo .. mid
      BY <1>3, <1>4, <1>8, <2>1 DEF Band
    <3> QED  BY <3>1
  <2>2. CASE \E q \in 1 .. n : p = m + q
    <3>1. PICK q \in 1 .. n : p = m + q
      BY <2>2
    <3>2. u[p] = t[q]
      BY <1>4, <3>1
    <3>3. Rank(u[p]) \in (mid + 1) .. hi
      BY <1>3, <1>8, <3>2 DEF Band
    <3> QED  BY <3>3
  <2> QED  BY <1>4, <1>5, <2>1, <2>2
<1>9. ASSUME NEW p \in DOMAIN u, NEW q \in DOMAIN u, p < q,
             u[p].ids # <<>>, u[q].ids # <<>>
      PROVE  Rank(u[p]) < Rank(u[q])
  <2>1. CASE p \in 1 .. m /\ q \in 1 .. m
    BY <1>3, <1>4, <1>9, <2>1 DEF Band, Rising
  <2>2. CASE p \in 1 .. m /\ \E k \in 1 .. n : q = m + k
    <3>1. Rank(u[p]) \in lo .. mid
      BY <1>3, <1>4, <1>9, <2>2 DEF Band
    <3>2. PICK k \in 1 .. n : q = m + k
      BY <2>2
    <3>3. u[q] = t[k]
      BY <1>4, <3>2
    <3>4. Rank(u[q]) \in (mid + 1) .. hi
      BY <1>3, <1>9, <3>3 DEF Band
    <3> QED  BY <3>1, <3>4
  <2>3. ASSUME NEW j \in 1 .. n, NEW k \in 1 .. n, p = m + j, q = m + k
        PROVE  Rank(u[p]) < Rank(u[q])
    <3>1. j < k
      BY <1>9, <2>3
    <3> QED  BY <1>3, <1>4, <1>9, <2>3, <3>1 DEF Band, Rising
  <2>4. ASSUME NEW j \in 1 .. n, p = m + j, q \in 1 .. m
        PROVE  FALSE
    BY <1>9, <2>4
  <2> QED  BY <1>4, <1>5, <2>1, <2>2, <2>3, <2>4
<1>10. Rising(u)
  BY <1>9 DEF Rising
<1>11. Band(u, lo, hi)
  BY <1>4, <1>8, <1>10 DEF Band
<1> QED  BY <1>2, <1>7, <1>11

\* e inserted into s after c entries.
Inserted(s, c, e) == SubSeq(s, 1, c) \o <<e>> \o SubSeq(s, c + 1, Len(s))

LEMMA InsertBand ==
  ASSUME NEW s, NEW lo \in Nat, NEW hi \in Nat, Band(s, lo, hi),
         NEW c \in 0 .. Len(s), NEW e \in Entry, e.ids = <<>>,
         NEW u, u = Inserted(s, c, e)
  PROVE  /\ Band(u, lo, hi) /\ Range(s) \subseteq Range(u)
         /\ \A p \in DOMAIN u : u[p].ids # <<>> => u[p] \in Range(s)
<1>1. PICK n \in Nat : n = Len(s)
  BY DEF Band
<1>2. s \in Seq(Entry) /\ DOMAIN s = 1 .. n /\ c \in 0 .. n
  BY <1>1 DEF Band
<1>3. PICK x, y, z : /\ x = SubSeq(s, 1, c) /\ y = <<e>> /\ z = SubSeq(s, c + 1, n)
  OBVIOUS
<1>4. /\ x \in Seq(Entry) /\ Len(x) = c /\ \A p \in 1 .. c : x[p] = s[p]
  BY <1>1, <1>2, <1>3
<1>5. /\ z \in Seq(Entry) /\ Len(z) = n - c
      /\ \A p \in 1 .. n - c : z[p] = s[c + p]
  <2>1. z \in Seq(Entry) /\ Len(z) = n - c
    BY <1>1, <1>2, <1>3
  <2>2. \A p \in 1 .. n - c : z[p] = s[(c + 1) + p - 1]
    BY <1>1, <1>2, <1>3
  <2>3. \A p \in 1 .. n - c : (c + 1) + p - 1 = c + p
    BY <1>2
  <2> QED  BY <2>1, <2>2, <2>3
<1>6. y \in Seq(Entry) /\ Len(y) = 1 /\ y[1] = e
  BY <1>3
<1>7. u = x \o y \o z
  BY <1>1, <1>3 DEF Inserted
<1>8. /\ u \in Seq(Entry) /\ Len(u) = c + 1 + (n - c)
      /\ \A i \in 1 .. c : u[i] = x[i]
      /\ \A i \in 1 .. 1 : u[c + i] = y[i]
      /\ \A i \in 1 .. n - c : u[c + 1 + i] = z[i]
  <2>1. /\ u \in Seq(Entry) /\ Len(u) = Len(x) + Len(y) + Len(z)
        /\ \A i \in 1 .. Len(x) : u[i] = x[i]
        /\ \A i \in 1 .. Len(y) : u[Len(x) + i] = y[i]
        /\ \A i \in 1 .. Len(z) : u[Len(x) + Len(y) + i] = z[i]
    <3>1. x \in Seq(Entry) /\ y \in Seq(Entry) /\ z \in Seq(Entry)
      BY <1>4, <1>5, <1>6
    <3> QED  BY <1>7, <3>1, Concat3
  <2>2. Len(x) = c /\ Len(y) = 1 /\ Len(z) = n - c
    BY <1>4, <1>5, <1>6
  <2> QED  BY <2>1, <2>2
<1>9. /\ DOMAIN u = 1 .. n + 1
      /\ \A p \in 1 .. c : u[p] = s[p]
      /\ u[c + 1] = e
      /\ \A i \in 1 .. n - c : u[c + 1 + i] = s[c + i]
  <2>1. c + 1 + (n - c) = n + 1 /\ n - c \in Nat
    BY <1>2
  <2>2. DOMAIN u = 1 .. n + 1
    <3>1. DOMAIN u = 1 .. Len(u)
      BY <1>8
    <3>2. Len(u) = n + 1
      BY <1>8, <2>1
    <3> QED  BY <3>1, <3>2
  <2>3. u[c + 1] = e
    BY <1>6, <1>8
  <2> QED  BY <1>4, <1>5, <1>8, <2>2, <2>3
<1>10. \A p \in (c + 2) .. (n + 1) : u[p] = s[p - 1]
  <2> TAKE p \in (c + 2) .. (n + 1)
  <2>1. PICK i \in 1 .. n - c : p = c + 1 + i
    <3>1. p - (c + 1) \in 1 .. n - c /\ p = c + 1 + (p - (c + 1))
      BY <1>2
    <3> QED  BY <3>1
  <2>2. c + i = p - 1
    BY <1>2, <2>1
  <2> QED  BY <1>9, <2>1, <2>2
<1>11. \A p \in 1 .. n + 1 : p \in 1 .. c \/ p = c + 1 \/ p \in (c + 2) .. (n + 1)
  BY <1>2
<1>12. ASSUME NEW p \in DOMAIN u, u[p].ids # <<>>
       PROVE  \E k \in 1 .. n : /\ u[p] = s[k]
                                /\ p <= c => k = p
                                /\ p > c => k = p - 1 /\ p > c + 1
  <2>1. CASE p \in 1 .. c
    <3>1. p \in 1 .. n /\ p <= c /\ ~(p > c)
      BY <1>2, <2>1
    <3> QED  BY <1>9, <2>1, <3>1
  <2>2. CASE p \in (c + 2) .. (n + 1)
    <3>1. p - 1 \in 1 .. n /\ p > c + 1 /\ ~(p <= c)
      BY <1>2, <2>2
    <3> QED  BY <1>10, <2>2, <3>1
  <2>3. p # c + 1
    BY <1>9, <1>12
  <2> QED  BY <1>9, <1>11, <2>1, <2>2, <2>3
<1>13. \A p \in DOMAIN u : u[p].ids # <<>> => u[p] \in Range(s)
  BY <1>2, <1>12 DEF Range
<1>14. Rising(u)
  <2> SUFFICES ASSUME NEW p \in DOMAIN u, NEW q \in DOMAIN u, p < q,
                      u[p].ids # <<>>, u[q].ids # <<>>
               PROVE  Rank(u[p]) < Rank(u[q])
    BY DEF Rising
  <2>1. PICK k \in 1 .. n : /\ u[p] = s[k]
                            /\ p <= c => k = p
                            /\ p > c => k = p - 1 /\ p > c + 1
    BY <1>12
  <2>2. PICK l \in 1 .. n : /\ u[q] = s[l]
                            /\ q <= c => l = q
                            /\ q > c => l = q - 1 /\ q > c + 1
    BY <1>12
  <2>3. p \in 1 .. n + 1 /\ q \in 1 .. n + 1
    BY <1>9
  <2>4. k < l
    BY <1>2, <2>1, <2>2, <2>3
  <2> QED  BY <1>2, <2>1, <2>2, <2>4 DEF Band, Rising
<1>15. Range(s) \subseteq Range(u)
  <2> SUFFICES ASSUME NEW k \in 1 .. n  PROVE \E p \in DOMAIN u : s[k] = u[p]
    BY <1>2 DEF Range
  <2>1. CASE k \in 1 .. c
    <3>1. k \in 1 .. n + 1
      OBVIOUS
    <3> QED  BY <1>9, <2>1, <3>1
  <2>2. CASE k \in (c + 1) .. n
    <3>1. k + 1 \in (c + 2) .. (n + 1) /\ k + 1 \in 1 .. n + 1 /\ (k + 1) - 1 = k
      BY <1>2, <2>2
    <3>2. u[k + 1] = s[k]
      BY <1>10, <3>1
    <3> QED  BY <1>9, <3>1, <3>2
  <2> QED  BY <1>2, <2>1, <2>2
<1>16. Band(u, lo, hi)
  <2>1. ASSUME NEW p \in DOMAIN u, u[p].ids # <<>>
        PROVE  Rank(u[p]) \in lo .. hi
    <3>1. PICK k \in 1 .. n : u[p] = s[k]
      BY <1>12, <2>1
    <3> QED  BY <1>2, <2>1, <3>1 DEF Band
  <2> QED  BY <1>8, <1>14, <2>1 DEF Band
<1> QED  BY <1>13, <1>15, <1>16

\* The paint annotation runs no module, wherever it is inserted.
LEMMA PaintBand ==
  ASSUME NEW s, NEW lo \in Nat, NEW hi \in Nat, Band(s, lo, hi)
  PROVE  /\ Band(WithPaint(s), lo, hi) /\ Range(s) \subseteq Range(WithPaint(s))
         /\ \A p \in DOMAIN WithPaint(s) :
                WithPaint(s)[p].ids # <<>> => WithPaint(s)[p] \in Range(s)
<1>1. CASE \E i \in DOMAIN s : s[i].stage = "PaintRegionAnnotation"
  <2>1. WithPaint(s) = s
    BY <1>1 DEF WithPaint
  <2> QED  BY <2>1 DEF Range
<1>2. CASE ~ \E i \in DOMAIN s : s[i].stage = "PaintRegionAnnotation"
  <2>1. PICK at, c, e :
          /\ at = {i \in DOMAIN s : s[i].stage \in PaintFollowers}
          /\ c = IF at = {} THEN Len(s) ELSE Min(at) - 1
          /\ e = [stage |-> "PaintRegionAnnotation", ids |-> <<>>]
    OBVIOUS
  <2>2. WithPaint(s) = Inserted(s, c, e)
    BY <1>2, <2>1 DEF WithPaint, Inserted
  <2>3. c \in 0 .. Len(s)
    <3>1. Len(s) \in Nat /\ DOMAIN s = 1 .. Len(s)
      BY DEF Band
    <3>2. CASE at = {}
      BY <2>1, <3>1, <3>2
    <3>3. CASE at # {}
      <4>1. at \in SUBSET Nat
        BY <2>1, <3>1
      <4>2. Min(at) \in at
        BY <3>3, <4>1, LeastExists
      <4> QED  BY <2>1, <3>1, <3>3, <4>2
    <3> QED  BY <3>2, <3>3
  <2>4. e \in Entry /\ e.ids = <<>>
    <3>1. "PaintRegionAnnotation" = STAGE_ORDER[11]
      BY StagePositions DEF LayerStages
    <3>2. "PaintRegionAnnotation" \in Range(STAGE_ORDER)
      BY <3>1, StageAt
    <3>3. <<>> \in Seq(ModuleId)
      OBVIOUS
    <3> QED  BY <2>1, <3>2, <3>3 DEF Entry
  <2>5. PICK u : u = WithPaint(s)
    OBVIOUS
  <2> QED  BY <2>2, <2>3, <2>4, <2>5, InsertBand
<1> QED  BY <1>1, <1>2

\* The stages of a tier are consecutive in STAGE_ORDER.
LEMMA TierBands ==
  ASSUME WalkInv, Tiered
  PROVE  /\ Band(tiers.prepass, 1, 10) /\ Band(tiers.layer, 11, 20)
         /\ Band(tiers.finalization, 21, 21) /\ Band(tiers.postpass, 22, 24)
         /\ \A t \in TierNames : Range(tiers[t]) \subseteq Range(sortedStages)
<1>1. PICK n \in Nat, len \in Nat : n = placed /\ len = Len(sortedStages)
  BY PlacedType
<1>2. /\ DOMAIN sortedStages = 1 .. len /\ \A i \in 1 .. n : i \in 1 .. len
      /\ \A p \in 1 .. len : Ordered(sortedStages[p])
  BY <1>1 DEF WalkInv, Walk, Tiered
<1>3. ASSUME NEW t \in TierNames, NEW p \in DOMAIN tiers[t]
      PROVE  /\ tiers[t][p] \in Range(sortedStages)
             /\ \E k \in 1 .. 24 : /\ k = Rank(tiers[t][p])
                                   /\ Tier(STAGE_ORDER[k]) = t
  <2>1. PICK i \in 1 .. n : /\ tiers[t][p] = sortedStages[i]
                            /\ Tier(sortedStages[i].stage) = t
    BY <1>1, <1>3 DEF Tiered
  <2>2. PICK e : e = sortedStages[i]
    OBVIOUS
  <2>3. e \in Entry /\ e \in Range(sortedStages)
    BY <1>2, <2>2 DEF Ordered, Range
  <2>4. PICK k \in 1 .. 24 : k = Rank(e) /\ STAGE_ORDER[k] = e.stage
    BY <2>3, RankOf
  <2> QED  BY <2>1, <2>2, <2>3, <2>4
<1>4. \A t \in TierNames : tiers[t] \in Seq(Entry) /\ Rising(tiers[t])
  BY DEF Tiered
<1>5. Band(tiers["prepass"], 1, 10)
  BY <1>3, <1>4, TierRanges DEF TierNames, Band
<1>6. Band(tiers["layer"], 11, 20)
  BY <1>3, <1>4, TierRanges DEF TierNames, Band
<1>7. Band(tiers["finalization"], 21, 21)
  <2>1. \A k : k = 21 => k \in 21 .. 21
    OBVIOUS
  <2> QED  BY <1>3, <1>4, <2>1, TierRanges DEF TierNames, Band
<1>8. Band(tiers["postpass"], 22, 24)
  BY <1>3, <1>4, TierRanges DEF TierNames, Band
<1>9. \A t \in TierNames : Range(tiers[t]) \subseteq Range(sortedStages)
  BY <1>3 DEF Range
<1> QED  BY <1>5, <1>6, <1>7, <1>8, <1>9

LEMMA BuildPlanned ==
  ASSUME WalkInv, Tiered, BuildPlan
  PROVE  Planned'
<1>1. PICK a, b, c, d, w :
        /\ a = tiers.prepass /\ b = tiers.layer /\ c = tiers.finalization
        /\ d = tiers.postpass /\ w = WithPaint(b)
  OBVIOUS
<1>2. /\ Band(a, 1, 10) /\ Band(b, 11, 20) /\ Band(c, 21, 21) /\ Band(d, 22, 24)
  BY <1>1, TierBands
<1>3. /\ Band(w, 11, 20) /\ Range(b) \subseteq Range(w)
      /\ \A p \in DOMAIN w : w[p].ids # <<>> => w[p] \in Range(b)
  BY <1>1, <1>2, PaintBand
<1>4. PICK x, y, z : x = a \o w /\ y = x \o c /\ z = y \o d
  OBVIOUS
<1>5. Band(x, 1, 20) /\ Range(x) = Range(a) \cup Range(w)
  <2>1. Band(w, 10 + 1, 20)
    BY <1>3
  <2> QED  BY <1>2, <1>4, <2>1, JoinBands
<1>6. Band(y, 1, 21) /\ Range(y) = Range(x) \cup Range(c)
  <2>1. Band(c, 20 + 1, 21)
    BY <1>2
  <2> QED  BY <1>4, <1>5, <2>1, JoinBands
<1>7. Band(z, 1, 24) /\ Range(z) = Range(y) \cup Range(d)
  <2>1. Band(d, 21 + 1, 24)
    BY <1>2
  <2> QED  BY <1>4, <1>6, <2>1, JoinBands
<1>8. plan' = z /\ sortedStages' = sortedStages
  BY <1>1, <1>4 DEF BuildPlan
<1>9. /\ Range(a) \subseteq Range(sortedStages) /\ Range(b) \subseteq Range(sortedStages)
      /\ Range(c) \subseteq Range(sortedStages) /\ Range(d) \subseteq Range(sortedStages)
  <2>1. /\ Range(tiers["prepass"]) \subseteq Range(sortedStages)
        /\ Range(tiers["layer"]) \subseteq Range(sortedStages)
        /\ Range(tiers["finalization"]) \subseteq Range(sortedStages)
        /\ Range(tiers["postpass"]) \subseteq Range(sortedStages)
    BY TierBands DEF TierNames
  <2> QED  BY <1>1, <2>1
<1>10. ASSUME NEW p \in DOMAIN z, z[p].ids # <<>>
       PROVE  z[p] \in Range(sortedStages)
  <2>1. z[p] \in Range(z)
    BY DEF Range
  <2>2. z[p] \in Range(w) => z[p] \in Range(b)
    BY <1>3, <1>10 DEF Range
  <2> QED  BY <1>5, <1>6, <1>7, <1>9, <2>1, <2>2
<1>11. ASSUME NEW e \in Range(sortedStages)
       PROVE  e \in Range(z)
  <2>1. PICK i \in DOMAIN sortedStages : e = sortedStages[i]
    BY DEF Range
  <2>2. i \in 1 .. placed
    BY DEF BuildPlan, WalkInv, Walk
  <2>3. PICK t : t = Tier(e.stage)
    OBVIOUS
  <2>4. e \in Range(tiers[t])
    BY <2>1, <2>2, <2>3 DEF Tiered
  <2>5. e \in Entry
    BY <2>1 DEF WalkInv, Walk, Ordered
  <2>6. PICK k \in 1 .. 24 : STAGE_ORDER[k] = e.stage
    BY <2>5, RankOf
  <2>7. t \in {"prepass", "layer", "finalization", "postpass"}
    BY <2>3, <2>6, TierRanges
  <2>8. e \in Range(a) \cup Range(b) \cup Range(c) \cup Range(d)
    BY <1>1, <2>4, <2>7
  <2> QED  BY <1>3, <1>5, <1>6, <1>7, <2>8
<1>12. Rising(z)
  BY <1>7 DEF Band
<1>13. Rising(plan)' /\ plan' \in Seq(Entry)
  BY <1>7, <1>8, <1>12 DEF Rising, Rank, Band
<1>14. Range(sortedStages') \subseteq Range(plan')
  BY <1>8, <1>11
<1>15. \A p \in DOMAIN plan' : plan'[p].ids # <<>> => plan'[p] \in Range(sortedStages')
  BY <1>8, <1>10
<1> QED  BY <1>13, <1>14, <1>15 DEF Planned

LEMMA PlannedStep ==
  ASSUME WalkInv, Tiered, Planned, [Next]_vars
  PROVE  Planned'
<1>1. CASE BuildPlan
  BY <1>1, BuildPlanned
<1>2. CASE ~BuildPlan
  <2>1. phase' = "built" => phase = "built" /\ UNCHANGED <<sortedStages, plan>>
    BY <1>2 DEF Next, IngestBroken, IngestManifest, DedupClaims, BeginStage,
                SortStep, StageSorted, StageCyclic, BindModules, Validate,
                PlaceStage, Over, Fail, vars
  <2> QED  BY <2>1 DEF Planned, Rising
<1> QED  BY <1>1, <1>2

PlanInv == ScheduleInv /\ WalkInv /\ Told /\ Tiered /\ Planned

LEMMA PlanInit == Init => PlanInv
<1> SUFFICES ASSUME Init  PROVE PlanInv
  OBVIOUS
<1>1. ScheduleInv
  BY ScheduleInit
<1>2. WalkInv
  <2>1. /\ phase = "discover" /\ position = 0 /\ sortedStages = <<>>
        /\ outcome = "idle" /\ kept = {} /\ modules = {}
    BY DEF Init
  <2>2. DOMAIN sortedStages = {} /\ sortedStages \in Seq(Entry)
    BY <2>1
  <2>3. Walk
    BY <2>1, <2>2 DEF Walk, Rising
  <2> QED  BY <2>1, <2>3 DEF WalkInv, Known, Current
<1>3. Told /\ Planned
  BY DEF Init, Told, Planned
<1>4. Tiered
  <2>1. /\ tiers \in [TierNames -> Seq(Entry)]
        /\ \A t \in TierNames : tiers[t] = <<>>
    <3>1. <<>> \in Seq(Entry)
      OBVIOUS
    <3>2. tiers = [t \in TierNames |-> <<>>]
      BY Zenon DEF Init
    <3> QED  BY <3>1, <3>2
  <2>2. placed = 0 /\ sortedStages = <<>>
    BY DEF Init
  <2>3. \A i : i \notin 1 .. placed
    BY <2>2
  <2>4. \A t \in TierNames : DOMAIN tiers[t] = {}
    BY <2>1
  <2>5. placed \in 0 .. Len(sortedStages)
    BY <2>2
  <2> QED  BY <2>1, <2>3, <2>4, <2>5 DEF Tiered, Rising
<1> QED  BY <1>1, <1>2, <1>3, <1>4 DEF PlanInv

\* The walk over STAGE_ORDER sorts every stage that has modules once, in
\* order; the loop over sorted_stages puts each in the tier of its stage; and
\* the plan of build_execution_plan holds all of them, in that order.
THEOREM SchedulePlan == Spec => []PlanInv
<1>1. PlanInv /\ [Next]_vars => PlanInv'
  <2> SUFFICES ASSUME PlanInv, [Next]_vars  PROVE PlanInv'
    OBVIOUS
  <2>1. Loaded /\ SortInv /\ WalkInv /\ Told /\ Tiered /\ Planned
    BY DEF PlanInv, ScheduleInv
  <2>2. Loaded' /\ SortInv'
    BY <2>1, LoadedStep, SortInvStep
  <2>3. WalkInv' /\ Told' /\ Tiered' /\ Planned'
    BY <2>1, WalkStep, ToldStep, TieredStep, PlannedStep
  <2> QED  BY <2>2, <2>3 DEF PlanInv, ScheduleInv
<1> QED  BY <1>1, PlanInit, PTL DEF Spec

\* An entry of the plan that runs a module is the sorted one of its stage.
LEMMA EntryOf ==
  ASSUME PlanInv, phase = "built", NEW p \in DOMAIN plan,
         NEW n \in Range(plan[p].ids)
  PROVE  Ordered(plan[p]) /\ \E m \in kept : m.id = n /\ m.stage = plan[p].stage
<1>1. PICK e : e = plan[p]
  OBVIOUS
<1>2. e.ids # <<>>
  BY <1>1 DEF Range
<1>3. e \in Range(sortedStages)
  BY <1>1, <1>2 DEF PlanInv, Planned
<1>4. Ordered(e)
  BY <1>3 DEF PlanInv, WalkInv, Walk, Range
<1>5. n \in Ids(AtStage(kept, e.stage))
  BY <1>1, <1>4 DEF Ordered
<1> QED  BY <1>1, <1>4, <1>5 DEF Ids, AtStage

\* Every kept module is in the entry of its stage.
LEMMA PlaceOf ==
  ASSUME PlanInv, phase = "built", NEW m \in kept
  PROVE  \E p \in DOMAIN plan :
            /\ Ordered(plan[p]) /\ plan[p].stage = m.stage
            /\ m.id \in Range(plan[p].ids)
<1>1. PICK i \in DOMAIN sortedStages : sortedStages[i].stage = m.stage
  BY DEF PlanInv, WalkInv, Walk, HasEntry
<1>2. PICK e : e = sortedStages[i]
  OBVIOUS
<1>3. Ordered(e) /\ e.stage = m.stage
  BY <1>1, <1>2 DEF PlanInv, WalkInv, Walk
<1>4. m.id \in Range(e.ids)
  BY <1>3 DEF Ordered, Ids, AtStage
<1>5. e \in Range(plan)
  BY <1>1, <1>2 DEF PlanInv, Planned, Range
<1>6. PICK p \in DOMAIN plan : e = plan[p]
  BY <1>5 DEF Range
<1> QED  BY <1>3, <1>4, <1>6

\* Entries that run modules: the earlier stage comes first, and there is one
\* of a stage.
LEMMA PlanOrder ==
  ASSUME PlanInv, phase = "built", NEW p \in DOMAIN plan, NEW q \in DOMAIN plan,
         Ordered(plan[p]), Ordered(plan[q])
  PROVE  /\ Rank(plan[p]) < Rank(plan[q]) => p < q
         /\ plan[p].stage = plan[q].stage => p = q
<1>1. Rising(plan)
  BY DEF PlanInv, Planned
<1>2. plan[p].ids # <<>> /\ plan[q].ids # <<>>
  BY DEF Ordered
<1>3. PICK k \in 1 .. 24, l \in 1 .. 24 : k = Rank(plan[p]) /\ l = Rank(plan[q])
  BY RankOf DEF Ordered
<1>4. p \in Int /\ q \in Int
  BY DEF PlanInv, Planned
<1>5. (p < q => k < l) /\ (q < p => l < k)
  BY <1>1, <1>2, <1>3 DEF Rising
<1>6. plan[p].stage = plan[q].stage => k = l
  BY <1>3 DEF Rank
<1> QED  BY <1>3, <1>4, <1>5, <1>6

\* A built plan runs a module only after every module it requires, unless the
\* validation reported the requirement as missing or in a later stage: what
\* validate_startup_dag tells and the order of topological_sort and
\* build_execution_plan agree, for any manifests.
THEOREM ScheduleRequirements == Spec => []RequirementsRunFirst
<1>1. PlanInv => RequirementsRunFirst
  <2> SUFFICES ASSUME PlanInv, phase = "built", NEW m \in kept,
                      NEW r \in m.requires,
                      ~Reported("missing", m.id), ~Reported("cross-stage", m.id)
               PROVE  RunsBefore(r, m.id)
    BY DEF RequirementsRunFirst
  <2>1. r \in Ids(kept)
    BY DEF PlanInv, Told
  <2>2. PICK x \in kept : x.id = r
    BY <2>1 DEF Ids
  <2>3. ~LaterStage(x, m)
    BY <2>2 DEF PlanInv, Told
  <2>4. PICK p \in DOMAIN plan :
            /\ Ordered(plan[p]) /\ plan[p].stage = x.stage
            /\ r \in Range(plan[p].ids)
    BY <2>2, PlaceOf
  <2>5. PICK q \in DOMAIN plan :
            /\ Ordered(plan[q]) /\ plan[q].stage = m.stage
            /\ m.id \in Range(plan[q].ids)
    BY PlaceOf
  <2>6. PICK k \in 1 .. 24 : /\ k = Rank(plan[p]) /\ k = StageIndex(x.stage)
                             /\ x.stage = STAGE_ORDER[k]
    BY <2>4, RankOf DEF Ordered, Rank
  <2>7. PICK l \in 1 .. 24 : /\ l = Rank(plan[q]) /\ l = StageIndex(m.stage)
                             /\ m.stage = STAGE_ORDER[l]
    BY <2>5, RankOf DEF Ordered, Rank
  <2>8. k <= l
    BY <2>3, <2>6, <2>7 DEF LaterStage
  <2>9. CASE k < l
    <3>1. Rank(plan[p]) < Rank(plan[q])
      BY <2>6, <2>7, <2>9
    <3>2. Ordered(plan[p]) /\ Ordered(plan[q])
      BY <2>4, <2>5
    <3>3. p < q
      BY <3>1, <3>2, PlanOrder
    <3> QED  BY <2>4, <2>5, <3>3 DEF RunsBefore
  <2>10. CASE k = l
    <3>1. x.stage = m.stage /\ p = q
      BY <2>4, <2>5, <2>6, <2>7, <2>10, PlanOrder
    <3>2. <<r, m.id>> \in StageEdges(kept, m.stage)
      <4>1. PICK t : t = <<x, m>>
        OBVIOUS
      <4>2. /\ t \in AtStage(kept, m.stage) \X AtStage(kept, m.stage)
            /\ t[1].id \in t[2].requires /\ t[1] = x /\ t[2] = m
        BY <2>2, <3>1, <4>1 DEF AtStage
      <4>3. <<t[1].id, t[2].id>> \in StageEdges(kept, m.stage)
        BY <4>2 DEF StageEdges
      <4> QED  BY <2>2, <4>2, <4>3
    <3>3. PICK i \in DOMAIN plan[p].ids, j \in DOMAIN plan[p].ids :
            plan[p].ids[i] = r /\ plan[p].ids[j] = m.id
      BY <2>4, <2>5, <3>1 DEF Range
    <3>4. i < j
      BY <2>5, <3>1, <3>2, <3>3 DEF Ordered
    <3> QED  BY <2>4, <2>5, <3>1, <3>3, <3>4 DEF RunsBefore
  <2> QED  BY <2>8, <2>9, <2>10
<1> QED  BY <1>1, SchedulePlan, PTL

\* Two modules of one stage that write a field: the second reads what the
\* first wrote, or validate_write_conflicts reported the field.
THEOREM ScheduleNoOverwrite == Spec => []NoSilentOverwrite
<1>1. PlanInv => NoSilentOverwrite
  <2> SUFFICES ASSUME PlanInv, phase = "built", NEW a \in kept, NEW b \in kept,
                      a.stage = b.stage, RunsBefore(a.id, b.id),
                      a.claims \cap FAMILY_SCOPED_SUPPORT_CLAIMS = {},
                      NEW f \in a.writes \cap b.writes, f \notin b.reads
               PROVE  \E e \in report : e.pass = "write" /\ e.on = f
    BY DEF NoSilentOverwrite
  <2>1. PICK p \in DOMAIN plan, q \in DOMAIN plan :
          /\ a.id \in Range(plan[p].ids) /\ b.id \in Range(plan[q].ids)
          /\ \/ p < q
             \/ /\ p = q
                /\ \E k, l \in DOMAIN plan[p].ids :
                      k < l /\ plan[p].ids[k] = a.id /\ plan[p].ids[l] = b.id
    BY DEF RunsBefore
  <2>2. \A m, n \in kept : m.id = n.id => m = n
    BY DEF PlanInv, ScheduleInv, Loaded, WalkInv, Known
  <2>3. Ordered(plan[p]) /\ plan[p].stage = a.stage
    BY <2>1, <2>2, EntryOf
  <2>4. Ordered(plan[q]) /\ plan[q].stage = b.stage
    BY <2>1, <2>2, EntryOf
  <2>5. p = q /\ p \in Int
    BY <2>3, <2>4, PlanOrder DEF PlanInv, Planned
  <2>6. PICK k \in DOMAIN plan[p].ids, l \in DOMAIN plan[p].ids :
          k < l /\ plan[p].ids[k] = a.id /\ plan[p].ids[l] = b.id
    BY <2>1, <2>5
  <2>7. k \in Int /\ l \in Int
    <3>1. plan[p].ids \in Seq(ModuleId)
      BY <2>3 DEF Ordered, Entry
    <3> QED  BY <3>1
  <2>8. a.id # b.id
    BY <2>3, <2>6, <2>7 DEF Ordered
  <2>9. f \notin a.reads
    <3> SUFFICES ASSUME f \in a.reads  PROVE FALSE
      OBVIOUS
    <3>1. PICK t : t = <<b, a>>
      OBVIOUS
    <3>2. /\ t \in AtStage(kept, a.stage) \X AtStage(kept, a.stage)
          /\ t[1].id # t[2].id /\ t[1].writes \cap t[2].reads # {}
          /\ t[1] = b /\ t[2] = a
      BY <2>8, <3>1 DEF AtStage
    <3>3. <<t[1].id, t[2].id>> \in StageEdges(kept, a.stage)
      BY <3>2 DEF StageEdges
    <3>4. l < k
      BY <2>3, <2>6, <3>2, <3>3 DEF Ordered
    <3> QED  BY <2>6, <2>7, <3>4
  <2> QED  BY <2>8, <2>9 DEF PlanInv, Told
<1> QED  BY <1>1, SchedulePlan, PTL

=============================================================================
