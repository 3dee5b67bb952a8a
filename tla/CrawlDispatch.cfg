SPECIFICATION Spec
CONSTANTS
    Calls = {c1, c2, c3, c4}
    MaxConn = 2
    MaxSeeds = 1
    MaxRows = 0
    MaxFound = 1
    MaxFaults = 1
INVARIANTS
    TypeOK
    CounterExact
    AtMostMaxConn
PROPERTIES
    PoolSpec
    PromptEnd
