SPECIFICATION Spec
CONSTANTS
    a1 = a1
    a2 = a2
    b1 = b1
    A = A
    B = B
    gemlog = gemlog
    private = private
    NoFile = NoFile
    NoPolicy = NoPolicy
    Calls = {a1, b1}
    Procs = {A, B}
    ProcOf <- MCProcOf
    Paths = {private}
    TimeoutLimit = 1
    MaxChanges = 1
    MaxFaults = 2
INVARIANTS
    TypeOK
    VerdictsWereServed
    LastRefreshIsStored
PROPERTIES
    PolicyCatchesUp
