SPECIFICATION SafeSpec
CONSTANTS
    r = r
    s = s
    t = t
    Searches <- MCSearches
    Asks <- MCAsks
    Versions <- MCVersions
    Indexed <- MCIndexed
    Quoted = {}
    HashOf <- MCHashOf
    Bits = 4
    MaxFlight = 1
    MaxRoot = 2
    ItemsPerPage = 1
    MaxChanges = 0
INVARIANTS
    FilterIsApplied
CHECK_DEADLOCK FALSE
