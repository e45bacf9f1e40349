CONSTANTS
    Keys = {kExec, k1}
    ExecutorKey = kExec
    Values <- MCValues
    AddrLen = 1
    ValueLen = 2
SPECIFICATION Spec
INVARIANT StoredDecodes
PROPERTY ImplementsRegister
