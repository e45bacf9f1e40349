CONSTANTS
    n1 = n1
    n2 = n2
    n3 = n3
    e1 = e1
    e2 = e2
    i1 = i1
    ZeroAddress = ZeroAddress
    ZeroBytes32 = ZeroBytes32
    Nil = Nil
    NodeMasters <- MCNodeMasters
    Endorsors <- MCEndorsors
    Identities <- MCIdentities
    Keys = {kExec, kEnd}
    ExecutorKey = kExec
    KeyProposerEndorsement = kEnd
    Values = {0, 1}
    AddrLen = 1
    ValueLen = 1
    Balances = {0, 1}
    MaxProposers = 2
SPECIFICATION ESpec
INVARIANTS
    TypeOK
    ListIntegrity
    LinkedAsOrdered
    CandidatesAreEndorsed
