CONSTANTS
    b1 = b1  b2 = b2
    Absent = Absent
    BlockIDs <- MCBlockIDs
    Qualities <- MCQualities
SPECIFICATION Spec
INVARIANT LoadReturnsSaved
