SPECIFICATION SafeSpec
CONSTANTS
    Calls = {c1, c2, c3}
    MaxConn = 2
    MaxSeeds = 0
    MaxRows = 1
    MaxFound = 0
    MaxFaults = 0
PROPERTIES
    EndedByLastCrawl
