CONSTANTS
    f1 = f1
    f2 = f2
    r1 = r1
    r2 = r2
    r3 = r3
    c1 = c1
    c2 = c2
    None = None
    Family = {f1, f2}
    Region = {r1, r2, r3}
    Cell = {c1, c2}
    CellOf <- MCCellOf
    Planners <- MCPlanners
    Claims <- MCClaims
    RaftOf <- MCRaftOf
    Rank <- MCRank
    Entries <- MCEntries
    MaxEntries = 1
SPECIFICATION Spec
INVARIANT DemandsAccounted
INVARIANT CellsDoNotInterfere
INVARIANT PlanOrderIndependent
