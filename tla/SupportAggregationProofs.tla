----------------------- MODULE SupportAggregationProofs -----------------------
(***************************************************************************)
(* The merge of the support plans, for any planners, regions, families and *)
(* entries: every demand is accounted for, a layer of an object gets what  *)
(* its own entitled entries give it, and the order of the planners shows   *)
(* only in how tied entries are listed.                                    *)
(*                                                                         *)
(* What is retained is determined by the keys of the good entries whose    *)
(* writers own their regions, and by the entries under each key; what a    *)
(* merged entry lists, by the order of the items under its key.            *)
(***************************************************************************)
EXTENDS SupportAggregation, FiniteSetTheorems, TLAPS

PlanSet == [module : ToSet(Planners), entries : BoundedSeq(Entries, MaxEntries)]

\* A plan is by one of the planners and names entries of the vocabulary.
PlansTyped ==
  /\ plans \in Seq(PlanSet)
  /\ owner \in [Region -> Family \cup {None}]

\* The result of the aggregation stays what it was computed to be.
Result ==
  Aggregated =>
    /\ published = [entries |-> Retained(Items(plans)), raft |-> Raft(plans)]
    /\ diags = Diagnostics(Items(plans))

AggregationInv == PlansTyped /\ Result

-----------------------------------------------------------------------------
(* Items.                                                                  *)

LEMMA PlanEntries ==
  ASSUME NEW p \in PlanSet
  PROVE  /\ p.module \in ToSet(Planners)
         /\ \A j \in DOMAIN p.entries : /\ j \in 1 .. MaxEntries
                                        /\ p.entries[j] \in Entries
<1>1. PICK m \in 0 .. MaxEntries : p.entries \in [1 .. m -> Entries]
  BY DEF PlanSet, BoundedSeq, SeqOf
<1> QED
  BY <1>1, AggregationAssumption DEF PlanSet

LEMMA ItemFacts ==
  ASSUME NEW P \in Seq(PlanSet), NEW x \in Items(P)
  PROVE  /\ x.plan \in 1 .. Len(P) /\ x.pos \in 1 .. MaxEntries
         /\ x.entry \in Entries
         /\ x.entry.region \in Region /\ x.entry.family \in Family
         /\ x.entry.kind \in {"good", "rejected", "declined"}
         /\ x.entry.clip \in {"whole", "trimmed", "gone"}
         /\ Rank(x.entry) \in Nat
<1>1. PICK i \in DOMAIN P : x \in ItemsOf(P, i)
  BY DEF Items
<1>2. PICK j \in DOMAIN P[i].entries :
             x = [plan |-> i, pos |-> j, module |-> P[i].module,
                  entry |-> P[i].entries[j]]
  BY <1>1 DEF ItemsOf
<1>3. P[i] \in PlanSet /\ i \in 1 .. Len(P)
  OBVIOUS
<1>4. x.plan = i /\ x.pos = j /\ x.entry = P[i].entries[j]
  BY <1>2
<1>5. x.entry \in Entries /\ x.pos \in 1 .. MaxEntries
  BY <1>3, <1>4, PlanEntries
<1> QED
  BY <1>3, <1>4, <1>5, AggregationAssumption

\* An item is where it says it is.
LEMMA ItemPlace ==
  ASSUME NEW P, NEW x
  PROVE  x \in Items(P) <=>
           /\ x = [plan |-> x.plan, pos |-> x.pos, module |-> x.module,
                   entry |-> x.entry]
           /\ x.plan \in DOMAIN P
           /\ x.pos \in DOMAIN P[x.plan].entries
           /\ x.module = P[x.plan].module
           /\ x.entry = P[x.plan].entries[x.pos]
<1>1. ASSUME x \in Items(P)
      PROVE  /\ x = [plan |-> x.plan, pos |-> x.pos, module |-> x.module,
                     entry |-> x.entry]
             /\ x.plan \in DOMAIN P
             /\ x.pos \in DOMAIN P[x.plan].entries
             /\ x.module = P[x.plan].module
             /\ x.entry = P[x.plan].entries[x.pos]
  <2>1. PICK i \in DOMAIN P : x \in ItemsOf(P, i)
    BY <1>1 DEF Items
  <2>2. PICK j \in DOMAIN P[i].entries :
               x = [plan |-> i, pos |-> j, module |-> P[i].module,
                    entry |-> P[i].entries[j]]
    BY <2>1 DEF ItemsOf
  <2>3. /\ x.plan = i /\ x.pos = j /\ x.module = P[i].module
        /\ x.entry = P[i].entries[j]
    BY <2>2
  <2> QED
    BY <2>2, <2>3
<1>2. ASSUME x = [plan |-> x.plan, pos |-> x.pos, module |-> x.module,
                  entry |-> x.entry],
             x.plan \in DOMAIN P,
             x.pos \in DOMAIN P[x.plan].entries,
             x.module = P[x.plan].module,
             x.entry = P[x.plan].entries[x.pos]
      PROVE  x \in Items(P)
  <2>1. x \in ItemsOf(P, x.plan)
    BY <1>2 DEF ItemsOf
  <2> QED
    BY <1>2, <2>1 DEF Items
<1> QED
  BY <1>1, <1>2

LEMMA ItemsFinite ==
  ASSUME NEW P \in Seq(PlanSet)
  PROVE  IsFiniteSet(Items(P))
<1> DEFINE B == (1 .. Len(P)) \X (1 .. MaxEntries)
           f == [x \in Items(P) |-> <<x.plan, x.pos>>]
<1>1. IsFiniteSet(B)
  <2>1. IsFiniteSet(1 .. Len(P)) /\ IsFiniteSet(1 .. MaxEntries)
    BY FS_Interval, AggregationAssumption
  <2> QED
    BY <2>1, FS_Product
<1>2. f \in [Items(P) -> B]
  BY ItemFacts
<1>3. ASSUME NEW x \in Items(P), NEW y \in Items(P), f[x] = f[y]
      PROVE  x = y
  <2>1. x.plan = y.plan /\ x.pos = y.pos
    BY <1>3
  <2>2. /\ x = [plan |-> x.plan, pos |-> x.pos, module |-> x.module,
                entry |-> x.entry]
        /\ y = [plan |-> y.plan, pos |-> y.pos, module |-> y.module,
                entry |-> y.entry]
        /\ x.module = P[x.plan].module /\ y.module = P[y.plan].module
        /\ x.entry = P[x.plan].entries[x.pos]
        /\ y.entry = P[y.plan].entries[y.pos]
    BY ItemPlace
  <2>3. x.module = y.module /\ x.entry = y.entry
    BY <2>1, <2>2
  <2> QED
    BY <2>1, <2>2, <2>3, Zenon
<1>4. f \in Injection(Items(P), B)
  BY <1>2, <1>3 DEF Injection, IsInjective
<1> QED
  BY <1>1, <1>4, FS_Injection

-----------------------------------------------------------------------------
(* What is retained, by key.                                               *)

KeysOf(X) == {Key(x.entry) : x \in OfKind(X, "good")}

EntriesUnder(X, k) == {x.entry : x \in WithKey(X, k)}

KeyLeft(X, k) == \E e \in EntriesUnder(X, k) : Left(e) # "gone"

\* Clash, of the groups of two keys.
KeyClash(X, k, l) ==
  /\ CellOf(k.region) = CellOf(l.region)
  /\ k.family # l.family
  /\ ~HasTerritory(k.region)
  /\ \E e \in EntriesUnder(X, k), f \in EntriesUnder(X, l) : e.wide /\ f.wide

KeyRetained(X, k) ==
  /\ k \in KeysOf(X)
  /\ KeyLeft(X, k)
  /\ ~ \E l \in KeysOf(X) : KeyLeft(X, l) /\ KeyClash(X, k, l)

LEMMA GroupFields ==
  ASSUME NEW X, NEW k
  PROVE  /\ Group(X, k).key = k
         /\ Group(X, k).entries = EntriesUnder(X, k)
         /\ Group(X, k).listed = Listed(WithKey(X, k))
BY DEF Group, EntriesUnder

LEMMA UnclippedByKey ==
  ASSUME NEW X
  PROVE  Unclipped(X) = {Group(X, k) : k \in {l \in KeysOf(X) : KeyLeft(X, l)}}
<1>1. Groups(X) = {Group(X, k) : k \in KeysOf(X)}
  BY DEF Groups, KeysOf
<1>2. ASSUME NEW k
      PROVE  (\E e \in Group(X, k).entries : Left(e) # "gone") <=> KeyLeft(X, k)
  BY GroupFields DEF KeyLeft
<1> QED
  BY <1>1, <1>2, Zenon DEF Unclipped

LEMMA RetainedByKey ==
  ASSUME NEW X
  PROVE  Retained(X) = {Group(X, k) : k \in {l \in KeysOf(X) : KeyRetained(X, l)}}
<1> DEFINE K == {l \in KeysOf(X) : KeyLeft(X, l)}
<1>1. Unclipped(X) = {Group(X, k) : k \in K}
  BY UnclippedByKey
<1>2. ASSUME NEW k, NEW l
      PROVE  Clash(Group(X, k), Group(X, l)) <=> KeyClash(X, k, l)
  BY GroupFields DEF Clash, KeyClash
<1>3. ASSUME NEW k \in K
      PROVE  Group(X, k) \in Rejected(X) <=> \E l \in K : KeyClash(X, k, l)
  BY <1>1, <1>2, Zenon DEF Rejected
<1>4. ASSUME NEW k \in K
      PROVE  Group(X, k) \in Retained(X) <=> KeyRetained(X, k)
  BY <1>1, <1>3, Zenon DEF Retained, KeyRetained
<1>5. ASSUME NEW k \in KeysOf(X), KeyRetained(X, k) PROVE k \in K
  BY <1>5 DEF KeyRetained
<1>6. Retained(X) \subseteq {Group(X, k) : k \in K}
  BY <1>1 DEF Retained
<1> HIDE DEF K
<1>7. K \subseteq KeysOf(X)
  BY DEF K
<1> QED
  BY <1>4, <1>5, <1>6, <1>7, Zenon

-----------------------------------------------------------------------------
(* Every demand is accounted for.                                          *)

\* The first three alternatives of DemandsAccounted, for a merge of X.
Accounted(X, e, d) ==
  \/ /\ \E g \in Retained(X) : e \in g.entries
     /\ Left(e) = "whole"
  \/ \E m \in Diagnostics(X) : d \in m.demands
  \/ \E m \in Diagnostics(X) : /\ m.code = 1205
                               /\ m.family = e.family
                               /\ m.region = e.region

\* A demand that has a row is named by a diagnostic.
LEMMA UnmetIsTold ==
  ASSUME NEW X, NEW u \in Unmet(X)
  PROVE  \E m \in Diagnostics(X) : u.demand \in m.demands
<1> DEFINE m == Diag(1200, BodyToPlan(X, u.body), None, None,
                     {u.body}, {u.demand})
<1>1. m \in {Diag(1200, BodyToPlan(X, v.body), None, None, {v.body},
                  {v.demand}) : v \in Unmet(X)}
  OBVIOUS
<1>2. u.demand \in m.demands
  BY DEF Diag
<1> HIDE DEF m
<1>3. m \in Diagnostics(X)
  BY <1>1 DEF Diagnostics
<1> QED
  BY <1>2, <1>3

LEMMA RowExists ==
  ASSUME NEW f, NEW B, NEW D, NEW d \in D, B # {}
  PROVE  \E u \in Rows(f, B, D) : u.demand = d
<1>1. PICK b \in B : TRUE
  OBVIOUS
<1>2. [family |-> f, body |-> b, demand |-> d] \in Rows(f, B, D)
  BY DEF Rows
<1> QED
  BY <1>2

\* What the clip and the overlap guard take from a good entry is reported.
LEMMA GoodIsTold ==
  ASSUME NEW X, NEW x \in OfKind(X, "good"), NEW d \in x.entry.demands,
         x.entry.bodies # {}
  PROVE  Accounted(X, x.entry, d)
<1> DEFINE e == x.entry
           g == Group(X, Key(e))
<1>1. g \in Groups(X)
  BY DEF Groups
<1>2. e \in g.entries
  <2>1. x \in WithKey(X, Key(e))
    BY DEF WithKey
  <2>2. e \in EntriesUnder(X, Key(e))
    BY <2>1 DEF EntriesUnder
  <2> QED
    BY <2>2, GroupFields
<1>3. g.key.family = e.family /\ g.key.region = e.region
  BY GroupFields DEF Key
<1> HIDE DEF g
<1>4. CASE Left(e) # "whole"
  <2> DEFINE m == Diag(1205, FamilyToPlan(X, g.key.family), g.key.family,
                       g.key.region, Bodies(g), {})
  <2>1. Clipped(g)
    BY <1>2, <1>4 DEF Clipped
  <2>2. m \in Diagnostics(X)
    BY <1>1, <2>1 DEF Diagnostics
  <2>3. m.code = 1205 /\ m.family = e.family /\ m.region = e.region
    BY <1>3 DEF Diag
  <2> HIDE DEF m
  <2> QED
    BY <2>2, <2>3 DEF Accounted
<1>5. CASE Left(e) = "whole"
  <2>1. g \in Unclipped(X)
    BY <1>1, <1>2, <1>5 DEF Unclipped
  <2>2. CASE g \in Rejected(X)
    <3>1. d \in Demands(g) /\ Bodies(g) # {}
      BY <1>2 DEF Demands, Bodies
    <3>2. PICK u \in Rows(g.key.family, Bodies(g), Demands(g)) : u.demand = d
      BY <3>1, RowExists
    <3>3. u \in Unmet(X)
      BY <2>2, <3>2 DEF Unmet
    <3> QED
      BY <3>2, <3>3, UnmetIsTold DEF Accounted
  <2>3. CASE g \notin Rejected(X)
    BY <1>2, <1>5, <2>1, <2>3 DEF Accounted, Retained
  <2> QED
    BY <2>2, <2>3
<1> QED
  BY <1>4, <1>5

LEMMA EntitledOwns ==
  ASSUME PlansTyped, NEW x \in Items(plans)
  PROVE  Entitled(x) <=> Owns(x)
BY ItemFacts, AggregationAssumption DEF Entitled, Owns, PlansTyped

LEMMA EveryDemandTold ==
  ASSUME PlansTyped, NEW x \in Items(plans)
  PROVE  IF Entitled(x)
         THEN (x.entry.kind = "declined" \/ x.entry.bodies # {}) =>
                \A d \in x.entry.demands :
                  Accounted(Items(plans), x.entry, d)
         ELSE Diag(1206, x.plan, x.entry.family, x.entry.region, {}, {})
                \in Diagnostics(Items(plans))
<1> DEFINE X == Items(plans)
<1>1. CASE ~Entitled(x)
  <2>1. x \in X \ Owned(X)
    BY <1>1, EntitledOwns DEF Owned
  <2> QED
    BY <1>1, <2>1 DEF Diagnostics
<1>2. CASE Entitled(x)
  <2> SUFFICES ASSUME x.entry.kind = "declined" \/ x.entry.bodies # {},
                      NEW d \in x.entry.demands
               PROVE  Accounted(X, x.entry, d)
    BY <1>2
  <2>1. x \in Owned(X)
    BY <1>2, EntitledOwns DEF Owned
  <2>2. CASE x.entry.kind = "good"
    <3>1. x \in OfKind(X, "good")
      BY <2>1, <2>2 DEF OfKind
    <3>2. x.entry.bodies # {}
      BY <2>2
    <3> QED
      BY <3>1, <3>2, GoodIsTold
  <2>3. CASE x.entry.kind = "rejected"
    <3>1. x \in OfKind(X, "rejected")
      BY <2>1, <2>3 DEF OfKind
    <3>2. x.entry.bodies # {}
      BY <2>3
    <3>3. PICK u \in Rows(x.entry.family, x.entry.bodies, x.entry.demands) :
                 u.demand = d
      BY <3>2, RowExists
    <3>4. u \in Unmet(X)
      BY <3>1, <3>3 DEF Unmet, RowsOf
    <3> QED
      BY <3>3, <3>4, UnmetIsTold DEF Accounted
  <2>4. CASE x.entry.kind = "declined"
    <3> DEFINE m == Diag(1201, x.plan, x.entry.family, None, {}, {d})
    <3>1. m \in Declined(x)
      <4>1. d \in x.entry.demands
        OBVIOUS
      <4>2. m = Diag(1201, x.plan, x.entry.family, None, {}, {d})
        OBVIOUS
      <4> HIDE DEF m
      <4> QED
        BY <4>1, <4>2 DEF Declined
    <3>2. m \in Diagnostics(X)
      BY <2>4, <3>1 DEF Diagnostics
    <3>3. d \in m.demands
      BY DEF Diag
    <3> HIDE DEF m
    <3> QED
      BY <3>2, <3>3 DEF Accounted
  <2> QED
    BY <2>2, <2>3, <2>4, ItemFacts DEF PlansTyped
<1> QED
  BY <1>1, <1>2

-----------------------------------------------------------------------------
(* A layer of an object is merged by itself.                               *)

OwnIn(X, c) == {x \in X : Entitled(x) /\ CellOf(x.entry.region) = c}

LEMMA RetainedInCell ==
  ASSUME PlansTyped, NEW c
  PROVE  {g \in Retained(Items(plans)) : CellOf(g.key.region) = c}
           = Retained(OwnIn(Items(plans), c))
<1> DEFINE X == Items(plans)
           Y == OwnIn(X, c)
<1>1. ASSUME NEW k, CellOf(k.region) = c PROVE WithKey(Y, k) = WithKey(X, k)
  <2>1. ASSUME NEW x \in WithKey(X, k) PROVE x \in WithKey(Y, k)
    <3>1. /\ x \in X /\ Owns(x) /\ x.entry.kind = "good"
          /\ Key(x.entry) = k /\ x.entry.region = k.region
      BY DEF WithKey, OfKind, Owned, Key
    <3>2. x \in Y
      BY <1>1, <3>1, EntitledOwns DEF OwnIn
    <3> QED
      BY <3>1, <3>2 DEF WithKey, OfKind, Owned
  <2>2. WithKey(Y, k) \subseteq WithKey(X, k)
    BY DEF WithKey, OfKind, Owned, OwnIn
  <2> QED
    BY <2>1, <2>2
<1>2. KeysOf(Y) = {k \in KeysOf(X) : CellOf(k.region) = c}
  <2>1. ASSUME NEW k \in KeysOf(Y) PROVE k \in KeysOf(X) /\ CellOf(k.region) = c
    <3>1. PICK x \in OfKind(Y, "good") : k = Key(x.entry)
      BY DEF KeysOf
    <3>2. x \in OfKind(X, "good") /\ CellOf(x.entry.region) = c
      BY DEF OfKind, Owned, OwnIn
    <3> QED
      BY <3>1, <3>2 DEF KeysOf, Key
  <2>2. ASSUME NEW k \in KeysOf(X), CellOf(k.region) = c PROVE k \in KeysOf(Y)
    <3>1. PICK x \in OfKind(X, "good") : k = Key(x.entry)
      BY DEF KeysOf
    <3>2. x \in WithKey(Y, k)
      BY <1>1, <2>2, <3>1 DEF WithKey
    <3> QED
      BY <3>1, <3>2 DEF KeysOf, WithKey
  <2> QED
    BY <2>1, <2>2
<1>3. ASSUME NEW k, CellOf(k.region) = c
      PROVE  Group(Y, k) = Group(X, k) /\ EntriesUnder(Y, k) = EntriesUnder(X, k)
  BY <1>1, <1>3 DEF Group, EntriesUnder
<1> HIDE DEF X, Y
<1>4. ASSUME NEW k \in KeysOf(Y) PROVE KeyRetained(Y, k) <=> KeyRetained(X, k)
  <2>1. k \in KeysOf(X) /\ CellOf(k.region) = c
    BY <1>2
  <2>2. ASSUME NEW l, CellOf(l.region) = c
        PROVE  /\ KeyLeft(Y, l) <=> KeyLeft(X, l)
               /\ KeyClash(Y, k, l) <=> KeyClash(X, k, l)
    BY <1>3, <2>1, <2>2 DEF KeyLeft, KeyClash
  <2>3. ASSUME NEW l, KeyClash(X, k, l) PROVE CellOf(l.region) = c
    BY <2>1, <2>3 DEF KeyClash
  <2> QED
    BY <1>2, <2>1, <2>2, <2>3 DEF KeyRetained
<1>5. Retained(X) = {Group(X, k) : k \in {l \in KeysOf(X) : KeyRetained(X, l)}}
  BY RetainedByKey
<1>6. Retained(Y) = {Group(Y, k) : k \in {l \in KeysOf(Y) : KeyRetained(Y, l)}}
  BY RetainedByKey
<1>7. ASSUME NEW g
      PROVE  (g \in Retained(X) /\ CellOf(g.key.region) = c)
               <=> g \in Retained(Y)
  <2>1. ASSUME g \in Retained(X), CellOf(g.key.region) = c
        PROVE  g \in Retained(Y)
    <3>1. PICK k \in KeysOf(X) : KeyRetained(X, k) /\ g = Group(X, k)
      BY <1>5, <2>1
    <3>2. CellOf(k.region) = c
      BY <2>1, <3>1, GroupFields
    <3>3. k \in KeysOf(Y) /\ KeyRetained(Y, k) /\ g = Group(Y, k)
      BY <1>2, <1>3, <1>4, <3>1, <3>2
    <3> QED
      BY <1>6, <3>3
  <2>2. ASSUME g \in Retained(Y)
        PROVE  g \in Retained(X) /\ CellOf(g.key.region) = c
    <3>1. PICK k \in KeysOf(Y) : KeyRetained(Y, k) /\ g = Group(Y, k)
      BY <1>6, <2>2
    <3>2. k \in KeysOf(X) /\ CellOf(k.region) = c
      BY <1>2
    <3>3. KeyRetained(X, k) /\ g = Group(X, k)
      BY <1>3, <1>4, <3>1, <3>2
    <3>4. g.key = k
      BY <3>3, GroupFields
    <3> QED
      BY <1>5, <3>2, <3>3, <3>4
  <2> QED
    BY <2>1, <2>2
<1>8. {g \in Retained(X) : CellOf(g.key.region) = c} = Retained(Y)
  BY <1>7
<1> QED
  BY <1>8 DEF X, Y

-----------------------------------------------------------------------------
(* The order of the plans.                                                 *)

\* Two sets of items that differ only by a renumbering that keeps the order
\* are listed alike.
LEMMA ListedAlike ==
  ASSUME NEW A, NEW B, IsFiniteSet(A),
         NEW f \in [A -> B], NEW h \in [B -> A],
         \A a \in A : h[f[a]] = a /\ f[a].entry = a.entry,
         \A b \in B : f[h[b]] = b,
         \A a1, a2 \in A : Precedes(a1, a2) <=> Precedes(f[a1], f[a2])
  PROVE  Listed(A) = Listed(B)
<1> DEFINE Told(S) == {[i \in DOMAIN s |-> s[i].entry] : s \in Listings(S)}
<1>1. Cardinality(A) = Cardinality(B)
  <2>1. f \in Bijection(A, B)
    BY DEF Bijection, Injection, Surjection, IsInjective
  <2> QED
    BY <2>1, FS_Bijection DEF ExistsBijection
<1> DEFINE n == Cardinality(A)
<1>2. ASSUME NEW S, NEW s
      PROVE  s \in Listings(S) <=>
               /\ s \in [1 .. Cardinality(S) -> S]
               /\ \A i, j \in 1 .. Cardinality(S) : i # j => s[i] # s[j]
               /\ \A i, j \in 1 .. Cardinality(S) :
                    i < j => Precedes(s[i], s[j])
  BY DEF Listings, SetToSeqs
<1> HIDE DEF n
<1>3. ASSUME NEW t \in Told(A) PROVE t \in Told(B)
  <2>1. PICK s \in Listings(A) : t = [i \in DOMAIN s |-> s[i].entry]
    OBVIOUS
  <2>2. /\ s \in [1 .. n -> A]
        /\ \A i, j \in 1 .. n : i # j => s[i] # s[j]
        /\ \A i, j \in 1 .. n : i < j => Precedes(s[i], s[j])
    BY <1>2 DEF n
  <2> DEFINE r == [i \in 1 .. n |-> f[s[i]]]
  <2>3. /\ r \in [1 .. n -> B]
        /\ \A i, j \in 1 .. n : i # j => r[i] # r[j]
        /\ \A i, j \in 1 .. n : i < j => Precedes(r[i], r[j])
    BY <2>2
  <2>4. t = [i \in DOMAIN r |-> r[i].entry]
    BY <2>1, <2>2
  <2> HIDE DEF r
  <2>5. r \in Listings(B)
    BY <1>1, <1>2, <2>3 DEF n
  <2> QED
    BY <2>4, <2>5
<1>4. ASSUME NEW t \in Told(B) PROVE t \in Told(A)
  <2>1. PICK s \in Listings(B) : t = [i \in DOMAIN s |-> s[i].entry]
    OBVIOUS
  <2>2. /\ s \in [1 .. n -> B]
        /\ \A i, j \in 1 .. n : i # j => s[i] # s[j]
        /\ \A i, j \in 1 .. n : i < j => Precedes(s[i], s[j])
    BY <1>1, <1>2 DEF n
  <2> DEFINE r == [i \in 1 .. n |-> h[s[i]]]
  <2>3. r \in [1 .. n -> A] /\ \A i \in 1 .. n : f[r[i]] = s[i]
    BY <2>2
  <2>4. /\ \A i, j \in 1 .. n : i # j => r[i] # r[j]
        /\ \A i, j \in 1 .. n : i < j => Precedes(r[i], r[j])
    <3> HIDE DEF r
    <3> QED
      BY <2>2, <2>3
  <2>5. r \in Listings(A)
    BY <1>2, <2>3, <2>4 DEF n
  <2>6. t = [i \in DOMAIN r |-> r[i].entry]
    BY <2>1, <2>2, <2>3
  <2> HIDE DEF r
  <2> QED
    BY <2>5, <2>6
<1>5. Told(A) = Told(B)
  BY <1>3, <1>4
<1> HIDE DEF Told
<1>6. Listed(A) = CHOOSE t \in Told(A) : TRUE
  BY DEF Listed, Told
<1>7. Listed(B) = CHOOSE t \in Told(B) : TRUE
  BY DEF Listed, Told
<1> QED
  BY <1>5, <1>6, <1>7

Reordered(P, q) == [i \in DOMAIN P |-> P[q[i]]]

\* The item of P that the item y of the reordered plans is.
Back(q, y) == [plan |-> q[y.plan], pos |-> y.pos, module |-> y.module,
               entry |-> y.entry]

\* The items of the reordered plans are those of P, renumbered.
LEMMA Renumbered ==
  ASSUME NEW P \in Seq(PlanSet), NEW q \in Bijection(DOMAIN P, DOMAIN P)
  PROVE  /\ \A y \in Items(Reordered(P, q)) : Back(q, y) \in Items(P)
         /\ \A x \in Items(P) : \E y \in Items(Reordered(P, q)) : Back(q, y) = x
         /\ \A y, z \in Items(Reordered(P, q)) :
              /\ (q[y.plan] = q[z.plan]) <=> (y.plan = z.plan)
              /\ Back(q, y) = Back(q, z) => y = z
<1> DEFINE Q == Reordered(P, q)
<1>1. /\ q \in [DOMAIN P -> DOMAIN P]
      /\ \A j \in DOMAIN P : \E i \in DOMAIN P : q[i] = j
      /\ \A i, j \in DOMAIN P : q[i] = q[j] => i = j
  BY DEF Bijection, Surjection, Injection, IsInjective
<1>2. DOMAIN Q = DOMAIN P /\ \A i \in DOMAIN P : Q[i] = P[q[i]]
  BY DEF Reordered
<1> HIDE DEF Q
<1>3. ASSUME NEW y \in Items(Q)
      PROVE  /\ y.plan \in DOMAIN P
             /\ y = [plan |-> y.plan, pos |-> y.pos, module |-> y.module,
                     entry |-> y.entry]
             /\ Back(q, y) \in Items(P)
  <2>1. /\ y.plan \in DOMAIN P /\ q[y.plan] \in DOMAIN P
        /\ y.pos \in DOMAIN P[q[y.plan]].entries
        /\ y.module = P[q[y.plan]].module
        /\ y.entry = P[q[y.plan]].entries[y.pos]
        /\ y = [plan |-> y.plan, pos |-> y.pos, module |-> y.module,
                entry |-> y.entry]
    BY <1>1, <1>2, ItemPlace
  <2>2. /\ Back(q, y).plan = q[y.plan] /\ Back(q, y).pos = y.pos
        /\ Back(q, y).module = y.module /\ Back(q, y).entry = y.entry
    BY DEF Back
  <2>3. Back(q, y) = [plan |-> Back(q, y).plan, pos |-> Back(q, y).pos,
                      module |-> Back(q, y).module,
                      entry |-> Back(q, y).entry]
    BY DEF Back
  <2> QED
    BY <2>1, <2>2, <2>3, ItemPlace
<1>4. ASSUME NEW x \in Items(P)
      PROVE  \E y \in Items(Q) : Back(q, y) = x
  <2>1. /\ x.plan \in DOMAIN P
        /\ x.pos \in DOMAIN P[x.plan].entries
        /\ x.module = P[x.plan].module
        /\ x.entry = P[x.plan].entries[x.pos]
        /\ x = [plan |-> x.plan, pos |-> x.pos, module |-> x.module,
                entry |-> x.entry]
    BY ItemPlace
  <2>2. PICK i \in DOMAIN P : q[i] = x.plan
    BY <1>1, <2>1
  <2> DEFINE y == [plan |-> i, pos |-> x.pos, module |-> x.module,
                   entry |-> x.entry]
  <2>3. /\ y.plan = i /\ y.pos = x.pos /\ y.module = x.module
        /\ y.entry = x.entry
        /\ y = [plan |-> y.plan, pos |-> y.pos, module |-> y.module,
                entry |-> y.entry]
    OBVIOUS
  <2> HIDE DEF y
  <2>4. y \in Items(Q)
    BY <1>2, <2>1, <2>2, <2>3, ItemPlace
  <2>5. Back(q, y) = x
    BY <2>1, <2>2, <2>3 DEF Back
  <2> QED
    BY <2>4, <2>5
<1>5. ASSUME NEW y \in Items(Q), NEW z \in Items(Q)
      PROVE  /\ (q[y.plan] = q[z.plan]) <=> (y.plan = z.plan)
             /\ Back(q, y) = Back(q, z) => y = z
  <2>1. (q[y.plan] = q[z.plan]) <=> (y.plan = z.plan)
    BY <1>1, <1>3
  <2>2. ASSUME Back(q, y) = Back(q, z) PROVE y = z
    <3>1. /\ q[y.plan] = q[z.plan] /\ y.pos = z.pos
          /\ y.module = z.module /\ y.entry = z.entry
      BY <2>2 DEF Back
    <3> QED
      BY <1>3, <2>1, <3>1
  <2> QED
    BY <2>1, <2>2
<1> QED
  BY <1>3, <1>4, <1>5 DEF Q

\* A renumbering keeps what is under a key.
LEMMA BackKeepsKey ==
  ASSUME NEW P \in Seq(PlanSet), NEW q \in Bijection(DOMAIN P, DOMAIN P), NEW k
  PROVE  /\ \A y \in WithKey(Items(Reordered(P, q)), k) :
              Back(q, y) \in WithKey(Items(P), k)
         /\ \A x \in WithKey(Items(P), k) :
              \E y \in WithKey(Items(Reordered(P, q)), k) : Back(q, y) = x
<1> DEFINE X == Items(P)
           Y == Items(Reordered(P, q))
<1>1. ASSUME NEW y
      PROVE  /\ Back(q, y).entry = y.entry /\ Back(q, y).module = y.module
             /\ Owns(Back(q, y)) <=> Owns(y)
  BY DEF Back, Owns
<1>2. ASSUME NEW y \in WithKey(Y, k) PROVE Back(q, y) \in WithKey(X, k)
  <2>1. Back(q, y) \in X
    BY Renumbered DEF WithKey, OfKind, Owned
  <2> QED
    BY <1>1, <2>1 DEF WithKey, OfKind, Owned
<1>3. ASSUME NEW x \in WithKey(X, k)
      PROVE  \E y \in WithKey(Y, k) : Back(q, y) = x
  <2>1. PICK y \in Y : Back(q, y) = x
    BY Renumbered DEF WithKey, OfKind, Owned
  <2> QED
    BY <1>1, <2>1 DEF WithKey, OfKind, Owned
<1> QED
  BY <1>2, <1>3

LEMMA ReorderedListed ==
  ASSUME NEW P \in Seq(PlanSet), NEW q \in Bijection(DOMAIN P, DOMAIN P),
         NEW k, ~Tied(Items(P))
  PROVE  Listed(WithKey(Items(Reordered(P, q)), k)) = Listed(WithKey(Items(P), k))
<1> DEFINE A == WithKey(Items(Reordered(P, q)), k)
           B == WithKey(Items(P), k)
           f == [y \in A |-> Back(q, y)]
           h == [x \in B |-> CHOOSE y \in A : Back(q, y) = x]
<1>1. A \subseteq Items(Reordered(P, q)) /\ B \subseteq Items(P)
  BY DEF WithKey, OfKind, Owned
<1>2. /\ \A y \in A : Back(q, y) \in B /\ Back(q, y).entry = y.entry
      /\ \A x \in B : \E y \in A : Back(q, y) = x
  BY BackKeepsKey DEF Back
<1>3. \A y, z \in A : Back(q, y) = Back(q, z) => y = z
  BY <1>1, Renumbered
<1>4. ASSUME NEW y \in A, NEW z \in A
      PROVE  Precedes(y, z) <=> Precedes(Back(q, y), Back(q, z))
  <2>1. /\ Back(q, y).plan = q[y.plan] /\ Back(q, z).plan = q[z.plan]
        /\ Back(q, y).pos = y.pos /\ Back(q, z).pos = z.pos
        /\ Back(q, y).entry = y.entry /\ Back(q, z).entry = z.entry
    BY DEF Back
  <2>2. (q[y.plan] = q[z.plan]) <=> (y.plan = z.plan)
    BY <1>1, Renumbered
  <2>3. Back(q, y) \in B /\ Back(q, z) \in B
    BY <1>2
  <2>4. Rank(y.entry) = Rank(z.entry) => q[y.plan] = q[z.plan]
    BY <2>1, <2>3 DEF Tied, WithKey
  <2>5. /\ Rank(y.entry) \in Nat /\ Rank(z.entry) \in Nat
        /\ q[y.plan] \in Nat /\ q[z.plan] \in Nat
    BY <1>1, <2>1, <2>3, ItemFacts
  <2>6. CASE Rank(y.entry) = Rank(z.entry)
    <3>1. y.plan = z.plan /\ q[y.plan] = q[z.plan]
      BY <2>2, <2>4, <2>6
    <3>2. y.plan \in Nat
      <4>1. y.plan \in DOMAIN Reordered(P, q)
        BY <1>1, ItemPlace
      <4> QED
        BY <4>1 DEF Reordered
    <3> QED
      BY <2>1, <2>5, <2>6, <3>1, <3>2 DEF Precedes
  <2>7. CASE Rank(y.entry) # Rank(z.entry)
    BY <2>1, <2>5, <2>7 DEF Precedes
  <2> QED
    BY <2>6, <2>7
<1> HIDE DEF A, B
<1>5. f \in [A -> B] /\ h \in [B -> A]
  BY <1>2
<1>6. \A x \in B : f[h[x]] = x
  BY <1>2
<1>7. \A y \in A : h[f[y]] = y /\ f[y].entry = y.entry
  BY <1>2, <1>3
<1>8. \A y, z \in A : Precedes(y, z) <=> Precedes(f[y], f[z])
  BY <1>4
<1> HIDE DEF f, h
<1>9. IsFiniteSet(A)
  <2>1. IsFiniteSet(B)
    <3>1. IsFiniteSet(Items(P)) /\ B \in SUBSET Items(P)
      BY <1>1, ItemsFinite
    <3> QED
      BY <3>1, FS_Subset
  <2>2. f \in Injection(A, B)
    BY <1>5, <1>7 DEF Injection, IsInjective
  <2> QED
    BY <2>1, <2>2, FS_Injection
<1>10. Listed(A) = Listed(B)
  BY <1>5, <1>6, <1>7, <1>8, <1>9, ListedAlike
<1> QED
  BY <1>10 DEF A, B

\* What is retained of the reordered plans is what is retained of P, but for
\* the listing of tied entries.
LEMMA ReorderedRetained ==
  ASSUME NEW P \in Seq(PlanSet), NEW q \in Bijection(DOMAIN P, DOMAIN P)
  PROVE  /\ Unlisted(Retained(Items(P)))
              = Unlisted(Retained(Items(Reordered(P, q))))
         /\ ~Tied(Items(P)) =>
              Retained(Items(P)) = Retained(Items(Reordered(P, q)))
<1> DEFINE X == Items(P)
           Y == Items(Reordered(P, q))
           K == {l \in KeysOf(X) : KeyRetained(X, l)}
<1>1. ASSUME NEW k PROVE EntriesUnder(Y, k) = EntriesUnder(X, k)
  <2>1. /\ \A y \in WithKey(Y, k) : Back(q, y) \in WithKey(X, k)
        /\ \A x \in WithKey(X, k) : \E y \in WithKey(Y, k) : Back(q, y) = x
        /\ \A y : Back(q, y).entry = y.entry
    BY BackKeepsKey DEF Back
  <2> QED
    BY <2>1 DEF EntriesUnder
<1> HIDE DEF X, Y
<1>2. ASSUME NEW Z, NEW k PROVE k \in KeysOf(Z) <=> EntriesUnder(Z, k) # {}
  BY DEF KeysOf, EntriesUnder, WithKey
<1>3. KeysOf(Y) = KeysOf(X)
  BY <1>1, <1>2
<1>4. ASSUME NEW k, NEW l
      PROVE  /\ KeyLeft(Y, k) <=> KeyLeft(X, k)
             /\ KeyClash(Y, k, l) <=> KeyClash(X, k, l)
  BY <1>1 DEF KeyLeft, KeyClash
<1>5. ASSUME NEW k PROVE KeyRetained(Y, k) <=> KeyRetained(X, k)
  BY <1>3, <1>4 DEF KeyRetained
<1>6. {l \in KeysOf(Y) : KeyRetained(Y, l)} = K
  BY <1>3, <1>5
<1> HIDE DEF K
<1>7. /\ Retained(X) = {Group(X, k) : k \in K}
      /\ Retained(Y) = {Group(Y, k) : k \in K}
  BY <1>6, RetainedByKey DEF K
<1>8. Unlisted(Retained(X)) = Unlisted(Retained(Y))
  <2> DEFINE U(k) == [key |-> k, entries |-> EntriesUnder(X, k)]
  <2>1. Unlisted(Retained(X)) = {U(k) : k \in K}
    <3>1. \A k : [key |-> Group(X, k).key, entries |-> Group(X, k).entries] = U(k)
      BY GroupFields
    <3> HIDE DEF U
    <3> QED
      BY <1>7, <3>1 DEF Unlisted
  <2>2. Unlisted(Retained(Y)) = {U(k) : k \in K}
    <3>1. \A k : [key |-> Group(Y, k).key, entries |-> Group(Y, k).entries] = U(k)
      BY <1>1, GroupFields
    <3> HIDE DEF U
    <3> QED
      BY <1>7, <3>1 DEF Unlisted
  <2> QED
    BY <2>1, <2>2
<1>9. ASSUME ~Tied(X) PROVE Retained(X) = Retained(Y)
  <2>1. ASSUME NEW k PROVE Group(X, k) = Group(Y, k)
    <3>1. Listed(WithKey(Y, k)) = Listed(WithKey(X, k))
      BY <1>9, ReorderedListed DEF X, Y
    <3> QED
      BY <1>1, <3>1 DEF Group, EntriesUnder
  <2> QED
    BY <1>7, <2>1
<1> QED
  BY <1>8, <1>9 DEF X, Y

LEMMA ReorderedRaft ==
  ASSUME NEW P \in Seq(PlanSet), NEW q \in Bijection(DOMAIN P, DOMAIN P)
  PROVE  Raft(Reordered(P, q)) = Raft(P)
<1> DEFINE Q == Reordered(P, q)
<1>1. /\ q \in [DOMAIN P -> DOMAIN P]
      /\ \A j \in DOMAIN P : \E i \in DOMAIN P : q[i] = j
      /\ DOMAIN Q = DOMAIN P /\ \A i \in DOMAIN P : Q[i] = P[q[i]]
  BY DEF Bijection, Surjection, Injection, Reordered
<1> HIDE DEF Q
<1>2. {RaftOf(Q[i].module) : i \in DOMAIN Q} = {RaftOf(P[i].module) : i \in DOMAIN P}
  <2>1. ASSUME NEW i \in DOMAIN Q
        PROVE  \E j \in DOMAIN P : RaftOf(Q[i].module) = RaftOf(P[j].module)
    <3>1. q[i] \in DOMAIN P /\ Q[i] = P[q[i]]
      BY <1>1
    <3> QED
      BY <3>1
  <2>2. ASSUME NEW j \in DOMAIN P
        PROVE  \E i \in DOMAIN Q : RaftOf(P[j].module) = RaftOf(Q[i].module)
    <3>1. PICK i \in DOMAIN P : q[i] = j
      BY <1>1
    <3>2. i \in DOMAIN Q /\ Q[i] = P[j]
      BY <1>1, <3>1
    <3> QED
      BY <3>2
  <2> QED
    BY <2>1, <2>2
<1> QED
  BY <1>2 DEF Raft, Q

-----------------------------------------------------------------------------
(* The state machine.                                                      *)

LEMMA AggregationInit == Init => AggregationInv
BY DEF Init, AggregationInv, PlansTyped, Result, Aggregated

\* The merge is a function of the assignment, the territories and the plans.
LEMMA MergeUnchanged ==
  ASSUME UNCHANGED <<owner, territory, plans>>
  PROVE  /\ Items(plans)' = Items(plans) /\ Raft(plans)' = Raft(plans)
         /\ Retained(Items(plans))' = Retained(Items(plans))
         /\ Diagnostics(Items(plans))' = Diagnostics(Items(plans))
<1> DEFINE X == Items(plans)
<1>1. X' = X /\ Owned(X)' = Owned(X) /\ Raft(plans)' = Raft(plans)
  BY DEF Owned, Owns, Items, ItemsOf, Raft
<1>2. \A k : OfKind(X, k)' = OfKind(X, k)
  BY <1>1 DEF OfKind
<1>3. Groups(X)' = Groups(X)
  BY <1>2 DEF Groups, Group, WithKey
<1>4. \A e : Left(e)' = Left(e)
  BY DEF Left, HasTerritory
<1>5. Unclipped(X)' = Unclipped(X)
  BY <1>3, <1>4 DEF Unclipped
<1>6. Rejected(X)' = Rejected(X)
  BY <1>5 DEF Rejected, Clash, HasTerritory
<1>7. Unmet(X)' = Unmet(X) /\ Routed(X)' = Routed(X)
  BY <1>2, <1>6 DEF Unmet, Routed, RowsOf
<1>8. {h \in Groups(X) : Clipped(h)}' = {h \in Groups(X) : Clipped(h)}
  BY <1>3, <1>4 DEF Clipped
<1>9. /\ \A b : BodyToPlan(X, b)' = BodyToPlan(X, b)
      /\ \A f : FamilyToPlan(X, f)' = FamilyToPlan(X, f)
  BY <1>1 DEF BodyToPlan, FamilyToPlan
<1>10. Retained(X)' = Retained(X)
  BY <1>5, <1>6 DEF Retained
<1>11. Diagnostics(X)' = Diagnostics(X)
  <2> DEFINE D0 == {Diag(1200, BodyToPlan(X, u.body), None, None, {u.body},
                         {u.demand}) : u \in Unmet(X)}
             D3 == {Diag(1203, FamilyToPlan(X, u.family), u.family, None,
                         {u.body}, {u.demand}) : u \in Routed(X)}
             D6 == {Diag(1206, x.plan, x.entry.family, x.entry.region, {}, {}) :
                      x \in X \ Owned(X)}
             D5 == {Diag(1205, FamilyToPlan(X, g.key.family), g.key.family,
                         g.key.region, Bodies(g), {}) :
                      g \in {h \in Groups(X) : Clipped(h)}}
             D1 == UNION {Declined(x) :
                            x \in {y \in X : y.entry.kind = "declined"}}
  <2>1. D0' = D0
    BY <1>7, <1>9
  <2>2. D3' = D3
    BY <1>7, <1>9
  <2>3. D6' = D6
    BY <1>1
  <2>4. D5' = D5
    BY <1>8, <1>9
  <2>5. D1' = D1
    BY <1>1
  <2>6. Diagnostics(X) = D0 \cup D3 \cup D6 \cup D5 \cup D1
    BY DEF Diagnostics
  <2>7. Diagnostics(X)' = D0' \cup D3' \cup D6' \cup D5' \cup D1'
    BY DEF Diagnostics
  <2> HIDE DEF D0, D1, D3, D5, D6
  <2> QED
    BY <2>1, <2>2, <2>3, <2>4, <2>5, <2>6, <2>7
<1> QED
  BY <1>1, <1>10, <1>11

LEMMA AggregationNext == AggregationInv /\ [Next]_vars => AggregationInv'
<1> SUFFICES ASSUME AggregationInv, [Next]_vars PROVE AggregationInv'
  OBVIOUS
<1>1. ASSUME NEW E \in Plan, Collect(E) PROVE AggregationInv'
  <2>1. Len(plans) + 1 \in 1 .. Len(Planners)
    BY <1>1, AggregationAssumption DEF Collect, AggregationInv, PlansTyped
  <2>2. Planners[Len(plans) + 1] \in ToSet(Planners)
    BY <2>1, AggregationAssumption DEF ToSet
  <2>3. plans' \in Seq(PlanSet)
    BY <1>1, <2>2 DEF Collect, AggregationInv, PlansTyped, PlanSet, Plan
  <2> QED
    BY <1>1, <2>3
    DEF Collect, AggregationInv, PlansTyped, Result, Aggregated
<1>2. CASE Aggregate
  BY <1>2, MergeUnchanged
  DEF Aggregate, AggregationInv, PlansTyped, Result, Aggregated
<1>3. CASE Emit
  BY <1>3, MergeUnchanged
  DEF Emit, AggregationInv, PlansTyped, Result, Aggregated
<1>4. CASE Done \/ UNCHANGED vars
  BY <1>4, MergeUnchanged
  DEF Done, vars, AggregationInv, PlansTyped, Result, Aggregated
<1> QED
  BY <1>1, <1>2, <1>3, <1>4 DEF Next

LEMMA AggregationInvariant == Spec => []AggregationInv
BY AggregationInit, AggregationNext, PTL DEF Spec

\* Every demand that an entitled entry with a body, or a decline, names is
\* printed whole, named by a diagnostic or in a region whose clip is reported,
\* and a trespass is reported against the plan that made it, for any planners,
\* families, regions and entries.
THEOREM AggregationDemands == Spec => []DemandsAccounted
<1>1. AggregationInv => DemandsAccounted
  <2> SUFFICES ASSUME AggregationInv, Aggregated PROVE DemandsAccounted
    BY DEF DemandsAccounted
  <2>1. /\ published.entries = Retained(Items(plans))
        /\ diags = Diagnostics(Items(plans))
    BY DEF AggregationInv, Result
  <2>2. \A x \in Items(plans) :
          IF Entitled(x)
          THEN (x.entry.kind = "declined" \/ x.entry.bodies # {}) =>
                 \A d \in x.entry.demands :
                   Accounted(Items(plans), x.entry, d)
          ELSE Diag(1206, x.plan, x.entry.family, x.entry.region, {}, {})
                 \in Diagnostics(Items(plans))
    BY EveryDemandTold DEF AggregationInv
  <2> QED
    BY <2>1, <2>2 DEF DemandsAccounted, Accounted
<1> QED
  BY <1>1, AggregationInvariant, PTL

\* What is published for a layer of an object is what its own entitled
\* entries alone would have given.
THEOREM AggregationLocality == Spec => []CellsDoNotInterfere
<1>1. AggregationInv => CellsDoNotInterfere
  <2> SUFFICES ASSUME AggregationInv, Aggregated, NEW c \in Cell
               PROVE  {g \in Retained(Items(plans)) : CellOf(g.key.region) = c}
                        = Retained(OwnIn(Items(plans), c))
    BY DEF CellsDoNotInterfere, AggregationInv, Result, OwnIn
  <2> QED
    BY RetainedInCell DEF AggregationInv
<1> QED
  BY <1>1, AggregationInvariant, PTL

\* The merged entries and the raft are the same for every order of the
\* planners, and so are the listings when no two planners' entries tie.
THEOREM AggregationOrder == Spec => []PlanOrderIndependent
<1>1. AggregationInv => PlanOrderIndependent
  <2> SUFFICES ASSUME AggregationInv, Aggregated,
                      NEW q \in Bijection(DOMAIN plans, DOMAIN plans)
               PROVE  /\ Raft(plans) = Raft(Reordered(plans, q))
                      /\ Unlisted(Retained(Items(plans)))
                           = Unlisted(Retained(Items(Reordered(plans, q))))
                      /\ ~Tied(Items(plans)) =>
                           Retained(Items(plans))
                             = Retained(Items(Reordered(plans, q)))
    BY DEF PlanOrderIndependent, AggregationInv, Result, Reordered
  <2> QED
    BY ReorderedRetained, ReorderedRaft DEF AggregationInv, PlansTyped
<1> QED
  BY <1>1, AggregationInvariant, PTL
=============================================================================
