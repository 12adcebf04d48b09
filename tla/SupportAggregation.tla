--------------------------- MODULE SupportAggregation ---------------------------
(***************************************************************************)
(* The one place where the plans of several support planners become one.   *)
(* Each planner of PrePass::SupportGeometry returns a plan; the host drops *)
(* the entries whose writer does not own their region, validates, unites,  *)
(* clips and arbitrates the rest, commits the result to the blackboard and *)
(* reports what it dropped, on the audit of the planner at fault and on    *)
(* the progress stream.                                                    *)
(*                                                                         *)
(* An entry's geometry is abstracted to what the merge asks of it: whether *)
(* validate_entry accepts it, what a clip to its territory leaves and      *)
(* whether its body reaches into the other family's.                       *)
(***************************************************************************)
EXTENDS Naturals, Sequences, FiniteSets, FiniteSetsExt, SequencesExt

CONSTANTS Planners,     \* the planner modules, in the order in which they run
          Family, Region, Cell,
          CellOf(_),    \* the object and layer that a region is part of
          Entries,      \* the entries a planner may write
          Rank(_),      \* the place of an entry in the order of compare_entries
          Claims(_),    \* the families a planner's manifest claims
          RaftOf(_),    \* the raft a planner asks for, or None
          MaxEntries,   \* of one plan
          None

(* An entry: [region, family, plane, bodies, demands, kind, wide, clip].   *)
(* bodies and demands are its identifiers, either of which may be empty;   *)
(* kind is "good", "rejected" by validation, or "declined" by its planner; *)
(* clip is what its territory leaves of it: "whole", "trimmed" or "gone".  *)
(* A raft is one number: the merge takes each of its fields' minimum.      *)
ASSUME AggregationAssumption ==
  /\ Planners \in Seq(ToSet(Planners))
  /\ MaxEntries \in Nat \ {0}
  /\ \A r \in Region : CellOf(r) \in Cell
  /\ \A e \in Entries :
       /\ e.region \in Region /\ e.family \in Family
       /\ e.kind \in {"good", "rejected", "declined"}
       /\ e.clip \in {"whole", "trimmed", "gone"}
       /\ e.wide \in BOOLEAN
       /\ Rank(e) \in Nat
  /\ \A p \in ToSet(Planners) : /\ Claims(p) \subseteq Family
                               /\ RaftOf(p) \in Nat \cup {None}
  /\ None \notin Family

VARIABLES
  owner,      \* family_assignments: the family that owns a region, or None
  territory,  \* the cells for which support territory is published
  plans,      \* the plans collected: [module, entries], entries in a sequence
  published,  \* the plan on the blackboard: [entries, raft], or None
  diags,      \* the diagnostics
  stream,     \* the codes that reached the progress stream, or None
  outcome     \* "collecting", "aggregated", "ok", "refused"

vars == <<owner, territory, plans, published, diags, stream, outcome>>

Init == /\ owner \in [Region -> Family \cup {None}]
        /\ territory \in SUBSET Cell
        /\ plans = <<>>
        /\ published = None
        /\ diags = {}
        /\ stream = None
        /\ outcome = "collecting"

\* A planner returns its plan.
Collect(E) ==
  /\ outcome = "collecting"
  /\ Len(plans) < Len(Planners)
  /\ plans' = Append(plans, [module |-> Planners[Len(plans) + 1],
                             entries |-> E])
  /\ UNCHANGED <<owner, territory, published, diags, stream, outcome>>

-----------------------------------------------------------------------------
(* The aggregation.  An item is an entry of a list of plans P with its     *)
(* place in P: its plan, its position in the plan and the plan's producer. *)

ItemsOf(P, i) ==
  {[plan |-> i, pos |-> j, module |-> P[i].module,
    entry |-> P[i].entries[j]] : j \in DOMAIN P[i].entries}

Items(P) == UNION {ItemsOf(P, i) : i \in DOMAIN P}

\* check_ownership: default-deny.
Owns(x) == /\ owner[x.entry.region] # None
           /\ owner[x.entry.region] = x.entry.family
           /\ x.entry.family \in Claims(x.module)

Owned(X) == {x \in X : Owns(x)}

OfKind(X, k) == {x \in Owned(X) : x.entry.kind = k}

\* Mutant: the entries are not sorted.
PrecedesArrival(x, y) == \/ x.plan < y.plan
                         \/ x.plan = y.plan /\ x.pos < y.pos

\* The sort is stable: what compare_entries does not tell apart stays in the
\* order in which it arrived.
Precedes(x, y) ==
  \/ Rank(x.entry) < Rank(y.entry)
  \/ /\ Rank(x.entry) = Rank(y.entry)
     /\ \/ x.plan < y.plan
        \/ x.plan = y.plan /\ x.pos < y.pos

Listings(X) == {s \in SetToSeqs(X) :
                  \A i, j \in DOMAIN s : i < j => Precedes(s[i], s[j])}

\* The entries of X as the merged entry lists their geometry; the first one
\* gives its scalar fields.
Listed(X) ==
  CHOOSE t \in {[i \in DOMAIN s |-> s[i].entry] : s \in Listings(X)} : TRUE

\* union_same_family_entries: what one family contributes to one region on
\* one plane is one entry.
Key(e) == [family |-> e.family, region |-> e.region, plane |-> e.plane]

WithKey(X, k) == {x \in OfKind(X, "good") : Key(x.entry) = k}

Group(X, k) == [key |-> k,
                entries |-> {x.entry : x \in WithKey(X, k)},
                listed |-> Listed(WithKey(X, k))]

Groups(X) == {Group(X, k) : k \in {Key(x.entry) : x \in OfKind(X, "good")}}

\* The identifiers of a merged entry, without duplicates.
Bodies(g) == UNION {e.bodies : e \in g.entries}
Demands(g) == UNION {e.demands : e \in g.entries}

HasTerritory(r) == CellOf(r) \in territory

\* What the clip leaves of an entry.
Left(e) == IF HasTerritory(e.region) THEN e.clip ELSE "whole"

Clipped(g) == \E e \in g.entries : Left(e) # "whole"

\* What is left after the clip.  A merged entry keeps the identifiers of
\* everything it was merged from.
Unclipped(X) == {g \in Groups(X) : \E e \in g.entries : Left(e) # "gone"}

\* Mutant: the guard compares bodies of any two objects and layers.
ClashAnywhere(g, h) ==
  /\ g.key.family # h.key.family
  /\ ~HasTerritory(g.key.region)
  /\ \E e \in g.entries, f \in h.entries : e.wide /\ f.wide

\* The families' bodies overlap on one layer of one object, without a
\* published territory to divide it.
Clash(g, h) ==
  /\ CellOf(g.key.region) = CellOf(h.key.region)
  /\ g.key.family # h.key.family
  /\ ~HasTerritory(g.key.region)
  /\ \E e \in g.entries, f \in h.entries : e.wide /\ f.wide

Rejected(X) == {g \in Unclipped(X) : \E h \in Unclipped(X) : Clash(g, h)}

Retained(X) == Unclipped(X) \ Rejected(X)

\* merge_raft_plans: of all plans, whoever owns what.
Raft(P) == LET rafts == {RaftOf(P[i].module) : i \in DOMAIN P} \ {None} IN
           IF rafts = {} THEN None ELSE Min(rafts)

-----------------------------------------------------------------------------
(* The diagnostics.                                                        *)

\* The first plan that names a body, or a family; the merge has lost which
\* plan its entries came from.
BodyToPlan(X, b) == Min({x.plan : x \in {y \in X : b \in y.entry.bodies}})

FamilyToPlan(X, f) == Min({x.plan : x \in {y \in X : y.entry.family = f}})

Diag(code, plan, family, region, bodies, demands) ==
  [code |-> code, plan |-> plan, family |-> family, region |-> region,
   bodies |-> bodies, demands |-> demands]

\* One row for each body with each demand: none if there is no body or no
\* demand.
Rows(f, B, D) == {[family |-> f, body |-> b, demand |-> d] : b \in B, d \in D}

RowsOf(X, k) == UNION {Rows(x.entry.family, x.entry.bodies, x.entry.demands) :
                         x \in OfKind(X, k)}

\* Mutant: what the overlap guard rejects is not reported.
UnmetValidation(X) == RowsOf(X, "rejected")

Unmet(X) == RowsOf(X, "rejected")
              \cup UNION {Rows(g.key.family, Bodies(g), Demands(g)) :
                            g \in Rejected(X)}

Routed(X) == Unmet(X) \cup RowsOf(X, "declined")

Declined(x) ==
  {Diag(1201, x.plan, x.entry.family, None, {}, {d}) : d \in x.entry.demands}

Diagnostics(X) ==
  {Diag(1200, BodyToPlan(X, u.body), None, None, {u.body}, {u.demand}) :
     u \in Unmet(X)}
  \cup {Diag(1203, FamilyToPlan(X, u.family), u.family, None,
             {u.body}, {u.demand}) : u \in Routed(X)}
  \cup {Diag(1206, x.plan, x.entry.family, x.entry.region, {}, {}) :
          x \in X \ Owned(X)}
  \cup {Diag(1205, FamilyToPlan(X, g.key.family), g.key.family, g.key.region,
             Bodies(g), {}) : g \in {h \in Groups(X) : Clipped(h)}}
  \cup UNION {Declined(x) : x \in {y \in X : y.entry.kind = "declined"}}

-----------------------------------------------------------------------------

\* duplicate_region_identity: a region that is named twice, whatever the
\* plane.
NamedTwice(G) == \E g, h \in G : g # h /\ g.key.region = h.key.region

\* The end of the stage.
Aggregate ==
  LET X == Items(plans) IN
  /\ outcome = "collecting"
  /\ Len(plans) = Len(Planners)
  /\ diags' = Diagnostics(X)
  /\ IF NamedTwice(Retained(X))
     THEN outcome' = "refused" /\ UNCHANGED published
     ELSE /\ outcome' = "aggregated"
          /\ published' = [entries |-> Retained(X), raft |-> Raft(plans)]
  /\ UNCHANGED <<owner, territory, plans, stream>>

\* emit_host_support_diagnostics, after the pipeline has succeeded.
Emit ==
  /\ outcome = "aggregated"
  /\ stream' = {d.code : d \in diags} \cap 1200..1202
  /\ outcome' = "ok"
  /\ UNCHANGED <<owner, territory, plans, published, diags>>

Done == outcome \in {"ok", "refused"} /\ UNCHANGED vars

Plan == BoundedSeq(Entries, MaxEntries)

Next == \/ \E E \in Plan : Collect(E)
        \/ Aggregate
        \/ Emit
        \/ Done

Spec == Init /\ [][Next]_vars

-----------------------------------------------------------------------------
(* Properties.                                                             *)

Aggregated == outcome \in {"aggregated", "ok"}

\* The writer may write this entry: its region is assigned to the family,
\* and the writer's manifest claims the family.
Entitled(x) == /\ owner[x.entry.region] = x.entry.family
               /\ x.entry.family \in Claims(x.module)

\* A demand that an entitled entry names is printed as it was planned, or
\* a diagnostic names it, or the clip of its region is reported; a trespass
\* is reported against the plan that committed it.  The entry must have a
\* body if it is not a decline: without one the diagnostics have no row.
DemandsAccounted ==
  Aggregated =>
    \A x \in Items(plans) :
      IF Entitled(x)
      THEN (x.entry.kind = "declined" \/ x.entry.bodies # {}) =>
             \A d \in x.entry.demands :
               \/ /\ \E g \in published.entries : x.entry \in g.entries
                  /\ Left(x.entry) = "whole"
               \/ \E m \in diags : d \in m.demands
               \/ \E m \in diags : /\ m.code = 1205
                                   /\ m.family = x.entry.family
                                   /\ m.region = x.entry.region
      ELSE Diag(1206, x.plan, x.entry.family, x.entry.region, {}, {}) \in diags

\* What is printed on one layer of one object is what the entitled entries
\* of that layer and object alone would have given: neither a trespass nor
\* a body of another object or layer gives it support or takes it away.
CellsDoNotInterfere ==
  Aggregated =>
    \A c \in Cell :
      {g \in published.entries : CellOf(g.key.region) = c}
        = Retained({x \in Items(plans) : /\ Entitled(x)
                                         /\ CellOf(x.entry.region) = c})

\* Two planners contribute to one merged entry entries that compare_entries
\* does not tell apart.
Tied(X) ==
  \E x, y \in OfKind(X, "good") :
    /\ x.plan # y.plan
    /\ Key(x.entry) = Key(y.entry)
    /\ Rank(x.entry) = Rank(y.entry)

\* A merged entry but for the order in which it lists its geometry.
Unlisted(G) == {[key |-> g.key, entries |-> g.entries] : g \in G}

\* What is published does not depend on the order in which the planners ran,
\* except that a merged entry lists tied entries as they arrived.
PlanOrderIndependent ==
  Aggregated =>
    \A order \in Bijection(DOMAIN plans, DOMAIN plans) :
      LET P == [i \in DOMAIN plans |-> plans[order[i]]] IN
      /\ published.raft = Raft(P)
      /\ Unlisted(published.entries) = Unlisted(Retained(Items(P)))
      /\ ~Tied(Items(plans)) => published.entries = Retained(Items(P))

=============================================================================
