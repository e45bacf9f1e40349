CONSTANTS
    w1 = w1  w2 = w2
    g = g  a1 = a1  a2 = a2  a3 = a3  b2 = b2  b3 = b3
    sA = sA  sB = sB  sNone = sNone
    Workers <- MCWorkers
    Blocks <- MCBlocks
    Parent <- MCParent
    Number <- MCNumber
    Beta <- MCBeta
    Seeds <- MCSeeds
    EmptySeed = sNone
    EpochInterval = 2
    Requests <- MCRequests
    Absent = Absent
SPECIFICATION Spec
INVARIANT NoConcurrentMapAccess
