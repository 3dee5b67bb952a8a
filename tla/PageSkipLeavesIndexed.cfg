SPECIFICATION SafeSpec
CONSTANTS
    Crawls = {a}
    c1 = c1
    c2 = c2
    c3 = c3
    t1 = t1
    t2 = t2
    NoRow = NoRow
    Contents <- MCContents
    Targets <- MCTargets
    LinksOf <- MCLinksOf
    ForceReindex = TRUE
    MaxChanges = 0
    MaxFaults = 1
PROPERTIES
    SkipLeavesIndexed
