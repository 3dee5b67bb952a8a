SPECIFICATION Spec
CONSTANTS
    Crawls = {a, b}
    c1 = c1
    c2 = c2
    c3 = c3
    t1 = t1
    t2 = t2
    NoRow = NoRow
    Contents <- MCContents
    Targets <- MCTargets
    LinksOf <- MCLinksOf
    ForceReindex = FALSE
    MaxChanges = 1
    MaxFaults = 1
INVARIANTS
    TypeOK
    VectorLagsOnlyInFlight
    LinksLagOnlyInFlight
PROPERTIES
    IndexCatchesUp
    GoneIsRemoved
