--------------------------- MODULE MCDebugReplay ---------------------------
(***************************************************************************)
(* Two blocks on one chain: b1 with one transaction, its child b2 with     *)
(* two.  Every transaction has two clauses.  Requests name b1, b2 or an    *)
(* unknown block, a transaction by index (0..2, one past the end          *)
(* included) or by ID, a clause 0..2, and trace or storage.               *)
(***************************************************************************)
EXTENDS DebugReplay

CONSTANTS b1, b2, bx, t1, t2, t3

MCBlocks == {b1, b2}
MCTxIDs == {t1, t2, t3}
MCTxsOf == [b \in MCBlocks |-> IF b = b1 THEN <<t1>> ELSE <<t2, t3>>]
MCClauses == [t \in MCTxIDs |-> 2]
MCChainOf == [b \in MCBlocks |-> IF b = b1 THEN {b1} ELSE {b1, b2}]

MCRefs == [kind: {"index"}, index: 0..2] \cup [kind: {"id"}, id: MCTxIDs]

MCRequests == [block: {b1, b2, bx}, ref: MCRefs, clause: 0..2,
               kind: {"trace", "storage"}]

=============================================================================
