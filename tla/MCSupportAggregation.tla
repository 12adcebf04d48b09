------------------------ MODULE MCSupportAggregation ------------------------
EXTENDS SupportAggregation, TLC

CONSTANTS f1, f2, r1, r2, r3, c1, c2

MCPlanners == <<"p1", "p2", "p3">>

MCClaims(p) == CASE p = "p1" -> {f1} [] p = "p2" -> {f2} [] OTHER -> {f1, f2}

MCRaftOf(p) == CASE p = "p1" -> 2 [] p = "p2" -> None [] OTHER -> 1

\* Two regions of one object and layer, and one of another.
MCCellOf(r) == IF r = r3 THEN c2 ELSE c1

\* compare_entries of entries in one region and family: the least body, or
\* else the least demand, and then the demands.
MCRank(e) ==
  LET least(S) == CASE S = {} -> 0 [] 1 \in S -> 1 [] 2 \in S -> 2 [] OTHER -> 3
  IN 4 * least(IF e.bodies # {} THEN e.bodies ELSE e.demands) + least(e.demands)

Entry(region, family, plane, bodies, demands, kind, wide, clip) ==
  [region |-> region, family |-> family, plane |-> plane, bodies |-> bodies,
   demands |-> demands, kind |-> kind, wide |-> wide, clip |-> clip]

\* Every verdict and every extent; entries of two planners that tie and that
\* do not; a decline that names its demand only, and one that names nothing.
MCEntries == {Entry(r1, f1, 0, {1}, {1}, "good", TRUE, "trimmed"),
              Entry(r2, f2, 0, {1}, {1}, "good", TRUE, "trimmed"),
              Entry(r3, f2, 0, {2}, {1, 2}, "good", TRUE, "whole"),
              Entry(r1, f1, 0, {1}, {1}, "good", FALSE, "whole"),
              Entry(r1, f1, 0, {2}, {2}, "good", FALSE, "gone"),
              Entry(r1, f1, 1, {2}, {3}, "good", FALSE, "whole"),
              Entry(r1, f1, 0, {1, 2}, {2}, "rejected", TRUE, "whole"),
              Entry(r2, f2, 0, {2}, {1}, "declined", TRUE, "whole"),
              Entry(r1, f1, 0, {}, {2}, "declined", TRUE, "whole"),
              Entry(r1, f1, 0, {}, {}, "declined", TRUE, "whole")}

=============================================================================
