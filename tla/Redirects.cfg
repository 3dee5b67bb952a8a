SPECIFICATION Spec
CONSTANTS
    Crawls = {c, d}
    Urls = {u, v}
    NoUrl = NoUrl
INVARIANTS
    TypeOK
    OnlyVettedRequested
    LoopIsBounded
PROPERTIES
    CrawlEnds
