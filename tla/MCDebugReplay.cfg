CONSTANTS
    b1 = b1  b2 = b2  bx = bx  t1 = t1  t2 = t2  t3 = t3
    Blocks <- MCBlocks
    TxIDs <- MCTxIDs
    TxsOf <- MCTxsOf
    Clauses <- MCClauses
    ChainOf <- MCChainOf
    Requests <- MCRequests
SPECIFICATION Spec
INVARIANTS ReplayPositioned EarlyRevertedMeansReverted
CHECK_DEADLOCK FALSE
