SPECIFICATION Spec
CONSTANTS
    c1 = c1
    c2 = c2
    A = A
    B = B
    page = page
    other = other
    NoRow = NoRow
    NoUrl = NoUrl
    Crawlers = {c1, c2}
    Procs = {A, B}
    Placements <- MCPlacements
    Urls = {page, other}
    Norm <- MCNorm
    Seeds = {}
    Batch = 2
    Few = 2
    Levels = 2
    Sampled = {1}
    MaxAgeings = 1
    MaxFaults = 2
INVARIANTS
    TypeOK
    ClaimIsExclusive
PROPERTIES
    NotRecrawledEarly
    DueIsCrawled
