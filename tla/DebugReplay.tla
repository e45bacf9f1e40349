---------------------------- MODULE DebugReplay ----------------------------
(***************************************************************************)
(* Replaying a block up to one clause for the debug API                    *)
(* (api/debug/debug.go: parseTarget, handleTxEnv, traceTransaction and     *)
(* debugStorage).                                                          *)
(*                                                                         *)
(* A request names a block, a transaction of it (by index, or by ID), a    *)
(* clause index and what to do there: trace that clause, or build the      *)
(* storage trie of the state just before it.  handleTxEnv executes the     *)
(* block's transactions one clause at a time until the requested clause    *)
(* is next, and returns the runtime and transaction executor positioned    *)
(* there.                                                                  *)
(*                                                                         *)
(* The runtime is not under src/.  Its transaction executor is modelled    *)
(* by what handleTxEnv relies on: HasNextClause is true while clauses are  *)
(* left and none has reverted (otherwise the handler's "early reverted"    *)
(* error path could not happen), and each NextClause, PrepareTransaction,  *)
(* Finalize and storage lookup either succeeds or fails with an error.     *)
(* Whether a clause reverts is the executor's choice.  The target string   *)
(* is taken as already split and well formed: its parse errors are         *)
(* formatting, left out.  The handler is sequential: one request, one      *)
(* step per loop iteration.                                                *)
(***************************************************************************)
EXTENDS Naturals, Sequences, FiniteSets

CONSTANTS
    Blocks,       \* IDs of the blocks in the repository
    TxIDs,        \* transaction IDs
    TxsOf,        \* block -> its transactions, in order
    Clauses,      \* transaction -> its number of clauses
    ChainOf,      \* block -> the blocks of its chain, itself included
    Requests      \* the requests a client may send

ASSUME DebugReplayAssumption ==
    /\ TxsOf \in [Blocks -> Seq(TxIDs)]
    /\ Clauses \in [TxIDs -> Nat]
    /\ ChainOf \in [Blocks -> SUBSET Blocks]
    /\ \A b \in Blocks : b \in ChainOf[b]
    /\ \A r \in Requests :
          /\ r.clause \in Nat
          /\ r.kind \in {"trace", "storage"}
          /\ r.ref.kind = "index" => r.ref.index \in Nat

VARIABLES
    req,        \* the request: block, ref (by index or by ID), clause, kind
    pc,         \* "parse", "env", "tx", "clause", "finalize", "trace",
                \* "storage" or "done"
    txIndex,    \* the transaction index parseTarget resolved
    i,          \* handleTxEnv's transaction loop index
    counter,    \* handleTxEnv's clauseCounter
    done,       \* clauses the executor has run in the current transaction
    reverted,   \* a clause of the current transaction reverted
    ran,        \* <<tx index, clause index>> of every clause executed
    revertedAt, \* the clauses among them that reverted
    finalized,  \* the transaction indices finalized
    result      \* the outcome of the request

vars == <<req, pc, txIndex, i, counter, done, reverted, ran, revertedAt,
          finalized, result>>

-----------------------------------------------------------------------------

\* The transaction at a 0-based index of a block.
TxAt(b, k) == TxsOf[b][k + 1]

\* Chain.GetTransactionMeta on the chain ending at block b: the block on
\* that chain holding transaction id, and its index there.
Metas(b, id) ==
    IF b \in Blocks
    THEN {m \in UNION {{c} \X (0..(Len(TxsOf[c]) - 1)) : c \in ChainOf[b]} :
             TxAt(m[1], m[2]) = id}
    ELSE {}

\* TransactionExecutor.HasNextClause.
HasNextClause == /\ ~reverted
                 /\ done < Clauses[TxAt(req.block, i)]

\* Ends the request with an outcome.
Finish(r) == /\ result' = r
             /\ pc' = "done"

\* parseTarget: a numeric second part is the index; a transaction ID is
\* looked up on the chain of the block, and its index in the block that
\* holds it is taken.
Parse ==
    /\ pc = "parse"
    /\ IF req.ref.kind = "index"
       THEN txIndex' = req.ref.index /\ pc' = "env" /\ UNCHANGED result
       ELSE IF Metas(req.block, req.ref.id) = {}
            THEN Finish("transaction not found") /\ UNCHANGED txIndex
            ELSE /\ txIndex' = (CHOOSE m \in Metas(req.block, req.ref.id) : TRUE)[2]
                 /\ pc' = "env"
                 /\ UNCHANGED result
    /\ UNCHANGED <<req, i, counter, done, reverted, ran, revertedAt, finalized>>

\* handleTxEnv up to the loop: the block, the two range checks, and the
\* replay runtime.
GetEnv ==
    /\ pc = "env"
    /\ \/ req.block \notin Blocks /\ Finish("block not found") /\ UNCHANGED i
       \/ /\ req.block \in Blocks
          /\ txIndex >= Len(TxsOf[req.block])
          /\ Finish("tx index out of range") /\ UNCHANGED i
       \/ /\ req.block \in Blocks
          /\ txIndex < Len(TxsOf[req.block])
          /\ req.clause >= Clauses[TxAt(req.block, txIndex)]
          /\ Finish("clause index out of range") /\ UNCHANGED i
       \/ /\ req.block \in Blocks
          /\ txIndex < Len(TxsOf[req.block])
          /\ req.clause < Clauses[TxAt(req.block, txIndex)]
          /\ \/ Finish("error") /\ UNCHANGED i
             \/ pc' = "tx" /\ i' = 0 /\ UNCHANGED result
    /\ UNCHANGED <<req, txIndex, counter, done, reverted, ran, revertedAt,
                   finalized>>

\* A handleTxEnv whose loop breaks one transaction early (`i >= txIndex`).
TxLoopBreakingEarly ==
    /\ pc = "tx"
    /\ IF i >= Len(TxsOf[req.block]) \/ i >= txIndex
       THEN Finish("early reverted") /\ UNCHANGED <<counter, done, reverted>>
       ELSE \/ Finish("error") /\ UNCHANGED <<counter, done, reverted>>
            \/ /\ pc' = "clause"
               /\ counter' = 0 /\ done' = 0 /\ reverted' = FALSE
               /\ UNCHANGED result
    /\ UNCHANGED <<req, txIndex, i, ran, revertedAt, finalized>>

\* `for i, tx := range txs { if i > txIndex { break } ...`: past the last
\* transaction or past the target the loop ends with "early reverted";
\* otherwise PrepareTransaction, and clauseCounter starts at 0.
TxLoop ==
    /\ pc = "tx"
    /\ IF i >= Len(TxsOf[req.block]) \/ i > txIndex
       THEN Finish("early reverted") /\ UNCHANGED <<counter, done, reverted>>
       ELSE \/ Finish("error") /\ UNCHANGED <<counter, done, reverted>>
            \/ /\ pc' = "clause"
               /\ counter' = 0 /\ done' = 0 /\ reverted' = FALSE
               /\ UNCHANGED result
    /\ UNCHANGED <<req, txIndex, i, ran, revertedAt, finalized>>

\* The clause loop testing only the clause index against clauseCounter.
ClauseLoopIgnoringTx ==
    /\ pc = "clause"
    /\ IF ~HasNextClause
       THEN pc' = "finalize" /\ UNCHANGED <<result, counter, done, reverted, ran, revertedAt>>
       ELSE IF req.clause = counter
            THEN pc' = req.kind /\ UNCHANGED <<result, counter, done, reverted, ran, revertedAt>>
            ELSE \/ Finish("error") /\ UNCHANGED <<counter, done, reverted, ran, revertedAt>>
                 \/ /\ done' = done + 1
                    /\ counter' = counter + 1
                    /\ ran' = ran \cup {<<i, counter>>}
                    /\ \/ reverted' = TRUE /\ revertedAt' = revertedAt \cup {<<i, counter>>}
                       \/ UNCHANGED <<reverted, revertedAt>>
                    /\ UNCHANGED <<pc, result>>
    /\ UNCHANGED <<req, txIndex, i, finalized>>

\* `for txExec.HasNextClause()`: at the requested clause handleTxEnv
\* returns the runtime positioned before it; otherwise NextClause runs the
\* clause (it may revert, or fail) and clauseCounter moves on.
ClauseLoop ==
    /\ pc = "clause"
    /\ IF ~HasNextClause
       THEN pc' = "finalize" /\ UNCHANGED <<result, counter, done, reverted, ran, revertedAt>>
       ELSE IF txIndex = i /\ req.clause = counter
            THEN pc' = req.kind /\ UNCHANGED <<result, counter, done, reverted, ran, revertedAt>>
            ELSE \/ Finish("error") /\ UNCHANGED <<counter, done, reverted, ran, revertedAt>>
                 \/ /\ done' = done + 1
                    /\ counter' = counter + 1
                    /\ ran' = ran \cup {<<i, counter>>}
                    /\ \/ reverted' = TRUE /\ revertedAt' = revertedAt \cup {<<i, counter>>}
                       \/ UNCHANGED <<reverted, revertedAt>>
                    /\ UNCHANGED <<pc, result>>
    /\ UNCHANGED <<req, txIndex, i, finalized>>

\* txExec.Finalize, then the check of the request's context: either may
\* end the request, otherwise the next transaction.
Finalize ==
    /\ pc = "finalize"
    /\ \/ Finish("error") /\ UNCHANGED <<i, finalized>>
       \/ Finish("cancelled") /\ finalized' = finalized \cup {i} /\ UNCHANGED i
       \/ /\ finalized' = finalized \cup {i}
          /\ i' = i + 1
          /\ pc' = "tx"
          /\ UNCHANGED result
    /\ UNCHANGED <<req, txIndex, counter, done, reverted, ran, revertedAt>>

\* traceTransaction: the requested clause runs under the tracer.
Trace ==
    /\ pc = "trace"
    /\ \/ Finish("error") /\ UNCHANGED ran
       \/ Finish("traced") /\ ran' = ran \cup {<<i, counter>>}
    /\ UNCHANGED <<req, txIndex, i, counter, done, reverted, revertedAt, finalized>>

\* debugStorage: the storage trie of the state reached.
Storage ==
    /\ pc = "storage"
    /\ \/ Finish("error")
       \/ Finish("storage")
    /\ UNCHANGED <<req, txIndex, i, counter, done, reverted, ran, revertedAt,
                   finalized>>

-----------------------------------------------------------------------------

Init ==
    /\ req \in Requests
    /\ pc = "parse"
    /\ txIndex = 0
    /\ i = 0
    /\ counter = 0
    /\ done = 0
    /\ reverted = FALSE
    /\ ran = {}
    /\ revertedAt = {}
    /\ finalized = {}
    /\ result = "none"

Next ==
    \/ Parse
    \/ GetEnv
    \/ TxLoop
    \/ ClauseLoop
    \/ Finalize
    \/ Trace
    \/ Storage

Spec == Init /\ [][Next]_vars

-----------------------------------------------------------------------------
(* Properties.                                                             *)

\* The transaction the request names, when it names one by ID.
RequestedTx == req.ref.id

\* When handleTxEnv hands back a runtime, the block has been replayed
\* exactly up to the requested clause: every earlier transaction ran and
\* was finalized, the target transaction ran exactly the clauses before
\* the requested one, none of them reverted, and nothing after it ran.
ReplayPositioned ==
    pc \in {"trace", "storage"} =>
        /\ finalized = 0..(txIndex - 1)
        /\ {r[2] : r \in {r \in ran : r[1] = txIndex}} = 0..(req.clause - 1)
        /\ \A r \in ran : r[1] <= txIndex
        /\ \A r \in revertedAt : r[1] # txIndex

\* The "early reverted" error is given only when a clause of the target
\* transaction before the requested one reverted, so that the requested
\* clause is never reached.
EarlyRevertedMeansReverted ==
    result = "early reverted" =>
        \E c \in 0..(req.clause - 1) : <<txIndex, c>> \in revertedAt

\* A target given as block/transaction ID/clause traces that transaction:
\* the runtime handleTxEnv positions is before a clause of the transaction
\* with the requested ID.
TracesRequestedTx ==
    pc \in {"trace", "storage"} /\ req.ref.kind = "id" =>
        TxAt(req.block, txIndex) = RequestedTx

=============================================================================
