------------------------- MODULE DebugReplayProofs -------------------------
(***************************************************************************)
(* Proofs that handleTxEnv positions the runtime where the request asks,   *)
(* and reports "early reverted" only after a revert, for every chain and   *)
(* every request.                                                          *)
(***************************************************************************)
EXTENDS DebugReplay, TLAPS

\* The transactions of the requested block, the clauses of its k-th
\* transaction, and the clause indices run in it.
TxCount == Len(TxsOf[req.block])
NClauses(k) == Clauses[TxAt(req.block, k)]
RanIn(S, k) == {r[2] : r \in {r \in S : r[1] = k}}
RanOf(k) == RanIn(ran, k)

Pcs == {"parse", "env", "tx", "clause", "finalize", "trace", "storage", "done"}

TypeInv ==
    /\ req \in Requests
    /\ pc \in Pcs
    /\ txIndex \in Nat /\ i \in Nat /\ counter \in Nat /\ done \in Nat
    /\ reverted \in BOOLEAN
    /\ ran \subseteq Nat \X Nat
    /\ revertedAt \subseteq Nat \X Nat
    /\ finalized \subseteq Nat

\* Before the loop nothing has run, and a request has no result until it
\* is done.
Fresh ==
    /\ pc \in {"parse", "env"} => ran = {} /\ revertedAt = {} /\ finalized = {}
    /\ pc # "done" => result = "none"

\* Past handleTxEnv's checks, the block exists and the target is in range.
InRange ==
    pc \in {"tx", "clause", "finalize", "trace", "storage"} =>
        /\ req.block \in Blocks
        /\ txIndex < TxCount
        /\ req.clause < NClauses(txIndex)

\* At the head of the transaction loop: the earlier transactions are
\* finalized, nothing of transaction i or later ran, and the loop is past
\* the target only if a clause of the target before the requested one
\* reverted.
AtTx ==
    pc = "tx" =>
        /\ finalized = 0..(i - 1)
        /\ i <= txIndex + 1
        /\ \A r \in ran \cup revertedAt : r[1] < i
        /\ i = txIndex + 1 =>
              \E c \in 0..(req.clause - 1) : <<txIndex, c>> \in revertedAt

\* Inside transaction i: the clauses 0 .. counter - 1 of it ran, a revert
\* among them is recorded, and in the target the counter has not passed
\* the requested clause.
InTx ==
    pc \in {"clause", "finalize", "trace", "storage"} =>
        /\ finalized = 0..(i - 1)
        /\ i <= txIndex
        /\ \A r \in ran \cup revertedAt : r[1] <= i
        /\ RanOf(i) = 0..(counter - 1)
        /\ counter = done
        /\ ~reverted => \A r \in revertedAt : r[1] # i
        /\ reverted => \E c \in 0..(counter - 1) : <<i, c>> \in revertedAt
        /\ i = txIndex => counter <= req.clause

\* The clause loop ends only when the executor has no clause left.
AtFinalize == pc = "finalize" => reverted \/ done >= NClauses(i)

\* The runtime handed back is at the requested clause of the target.
AtTarget ==
    pc \in {"trace", "storage"} =>
        i = txIndex /\ counter = req.clause /\ ~reverted

IInv ==
    /\ TypeInv /\ Fresh /\ InRange /\ AtTx /\ InTx /\ AtFinalize /\ AtTarget
    /\ EarlyRevertedMeansReverted

-----------------------------------------------------------------------------
(* Facts about the clauses run.                                            *)

LEMMA RanAdd ==
    \A S, k, c : RanIn(S \cup {<<k, c>>}, k) = RanIn(S, k) \cup {c}
<1> SUFFICES ASSUME NEW S, NEW k, NEW c
             PROVE  {r[2] : r \in {r \in S \cup {<<k, c>>} : r[1] = k}}
                      = {r[2] : r \in {r \in S : r[1] = k}} \cup {c}
    BY DEF RanIn
<1> DEFINE A == {r \in S : r[1] = k}
<1>1. {r \in S \cup {<<k, c>>} : r[1] = k} = A \cup {<<k, c>>}
    OBVIOUS
<1>2. {r[2] : r \in A \cup {<<k, c>>}} = {r[2] : r \in A} \cup {c}
    <2>1. ASSUME NEW x
          PROVE  x \in {r[2] : r \in A \cup {<<k, c>>}}
                   <=> x \in {r[2] : r \in A} \cup {c}
        <3>1. x \in {r[2] : r \in A \cup {<<k, c>>}}
                <=> \E r \in A \cup {<<k, c>>} : x = r[2]
            OBVIOUS
        <3>2. (\E r \in A \cup {<<k, c>>} : x = r[2])
                <=> (\E r \in A : x = r[2]) \/ x = c
            <4>1. <<k, c>>[2] = c
                OBVIOUS
            <4>2. QED
                BY <4>1, Zenon
        <3>3. x \in {r[2] : r \in A} <=> \E r \in A : x = r[2]
            OBVIOUS
        <3>4. QED
            BY <3>1, <3>2, <3>3
    <2>2. QED
        BY <2>1, Zenon
<1>3. QED
    BY <1>1, <1>2

LEMMA RanNone ==
    ASSUME NEW S \in SUBSET (Nat \X Nat), NEW k \in Nat,
           \A r \in S : r[1] < k
    PROVE  {r[2] : r \in {r \in S : r[1] = k}} = {}
OBVIOUS

\* parseTarget resolves a transaction ID to an index in a block.
LEMMA MetaIndex ==
    ASSUME NEW b, NEW id, Metas(b, id) # {}
    PROVE  (CHOOSE m \in Metas(b, id) : TRUE)[2] \in Nat
<1>1. PICK mt \in Metas(b, id) : mt = CHOOSE m \in Metas(b, id) : TRUE
    OBVIOUS
<1>2. \E c \in ChainOf[b] : mt \in {c} \X (0..(Len(TxsOf[c]) - 1))
    BY <1>1 DEF Metas
<1>3. QED
    BY <1>1, <1>2

\* A step that ends the request with an outcome other than "early
\* reverted" keeps the invariant, whatever it did before.
LEMMA FinishIInv ==
    ASSUME TypeInv', pc' = "done", result' # "early reverted"
    PROVE  IInv'
BY DEF IInv, Fresh, InRange, AtTx, InTx, AtFinalize, AtTarget,
       EarlyRevertedMeansReverted

-----------------------------------------------------------------------------
(* The invariant holds initially and is kept by every step.                *)

LEMMA InitIInv == Init => IInv
<1> SUFFICES ASSUME Init PROVE IInv
    OBVIOUS
<1>1. TypeInv
    BY DEF Init, TypeInv, Pcs
<1>2. pc = "parse" /\ result = "none" /\ ran = {} /\ revertedAt = {}
      /\ finalized = {}
    BY DEF Init
<1>3. QED
    BY <1>1, <1>2 DEF IInv, Fresh, InRange, AtTx, InTx, AtFinalize, AtTarget,
       EarlyRevertedMeansReverted

LEMMA ParseIInv == IInv /\ Parse => IInv'
<1> SUFFICES ASSUME IInv, Parse PROVE IInv'
    OBVIOUS
<1>1. CASE req.ref.kind = "index"
    <2>1. req.ref.index \in Nat
        BY <1>1, DebugReplayAssumption DEF IInv, TypeInv
    <2>2. pc' = "env" /\ txIndex' = req.ref.index /\ UNCHANGED result
        BY <1>1 DEF Parse
    <2>3. QED
        BY <2>1, <2>2 DEF Parse, IInv, TypeInv, Pcs, Fresh, InRange, AtTx,
           InTx, AtFinalize, AtTarget, EarlyRevertedMeansReverted
<1>2. CASE req.ref.kind # "index" /\ Metas(req.block, req.ref.id) = {}
    BY <1>2, FinishIInv DEF Parse, Finish, IInv, TypeInv, Pcs
<1>3. CASE req.ref.kind # "index" /\ Metas(req.block, req.ref.id) # {}
    <2>1. txIndex' \in Nat /\ pc' = "env" /\ UNCHANGED result
        BY <1>3, MetaIndex DEF Parse
    <2>2. QED
        BY <2>1 DEF Parse, IInv, TypeInv, Pcs, Fresh, InRange, AtTx, InTx,
           AtFinalize, AtTarget, EarlyRevertedMeansReverted
<1>4. QED
    BY <1>1, <1>2, <1>3

LEMMA GetEnvIInv == IInv /\ GetEnv => IInv'
<1> SUFFICES ASSUME IInv, GetEnv PROVE IInv'
    OBVIOUS
<1>1. i' \in Nat /\ UNCHANGED <<req, txIndex, counter, done, reverted, ran,
                                revertedAt, finalized>>
    <2>1. i' = i \/ i' = 0
        BY DEF GetEnv
    <2>2. i' \in Nat
        BY <2>1 DEF IInv, TypeInv
    <2>3. UNCHANGED <<req, txIndex, counter, done, reverted, ran, revertedAt,
                      finalized>>
        BY DEF GetEnv
    <2>4. QED
        BY <2>2, <2>3
<1>2. CASE pc' = "done"
    <2>1. result' \in {"block not found", "tx index out of range",
                       "clause index out of range", "error"}
        BY <1>2 DEF GetEnv, Finish
    <2>2. TypeInv'
        BY <1>1, <1>2 DEF IInv, TypeInv, Pcs
    <2>3. QED
        BY <1>2, <2>1, <2>2, FinishIInv
<1>3. CASE pc' # "done"
    <2>1. /\ req.block \in Blocks
          /\ txIndex < Len(TxsOf[req.block])
          /\ req.clause < Clauses[TxAt(req.block, txIndex)]
          /\ pc' = "tx" /\ i' = 0 /\ UNCHANGED result
        BY <1>3 DEF GetEnv, Finish
    <2>2. ran = {} /\ revertedAt = {} /\ finalized = {} /\ result = "none"
        BY DEF GetEnv, IInv, Fresh
    <2>3. TypeInv'
        BY <1>1, <2>1 DEF IInv, TypeInv, Pcs
    <2>4. InRange'
        BY <1>1, <2>1 DEF InRange, TxCount, NClauses
    <2>5. AtTx'
        BY <1>1, <2>1, <2>2 DEF IInv, TypeInv, AtTx
    <2>6. QED
        BY <1>1, <2>1, <2>2, <2>3, <2>4, <2>5 DEF IInv, Fresh, InTx,
           AtFinalize, AtTarget, EarlyRevertedMeansReverted
<1>4. QED
    BY <1>2, <1>3

\* The clause count of a transaction of the block is a number.
LEMMA NClausesNat ==
    ASSUME NEW b \in Blocks, NEW k \in Nat, k < Len(TxsOf[b])
    PROVE  Clauses[TxAt(b, k)] \in Nat
<1>1. TxsOf[b] \in Seq(TxIDs)
    BY DebugReplayAssumption
<1>2. TxsOf[b][k + 1] \in TxIDs
    BY <1>1
<1>3. QED
    BY <1>2, DebugReplayAssumption DEF TxAt

LEMMA TxLoopIInv == IInv /\ TxLoop => IInv'
<1> SUFFICES ASSUME IInv, TxLoop PROVE IInv'
    OBVIOUS
<1>0. pc = "tx" /\ UNCHANGED <<req, txIndex, i, ran, revertedAt, finalized>>
    BY DEF TxLoop
<1>1. CASE i >= Len(TxsOf[req.block]) \/ i > txIndex
    <2>1. /\ pc' = "done" /\ result' = "early reverted"
          /\ UNCHANGED <<counter, done, reverted>>
        BY <1>1 DEF TxLoop, Finish
    <2>2. i = txIndex + 1
        BY <1>0, <1>1 DEF IInv, AtTx, InRange, TxCount, TypeInv
    <2>3. \E c \in 0..(req.clause - 1) : <<txIndex, c>> \in revertedAt
        BY <1>0, <2>2 DEF IInv, AtTx
    <2>4. TypeInv'
        BY <1>0, <2>1 DEF IInv, TypeInv, Pcs
    <2>5. QED
        BY <1>0, <2>1, <2>3, <2>4 DEF IInv, Fresh, InRange, AtTx, InTx,
           AtFinalize, AtTarget, EarlyRevertedMeansReverted
<1>2. CASE ~(i >= Len(TxsOf[req.block]) \/ i > txIndex)
    <2>1. CASE pc' = "done"
        <3>1. result' = "error" /\ UNCHANGED <<counter, done, reverted>>
            BY <1>2, <2>1 DEF TxLoop, Finish
        <3>2. TypeInv'
            BY <1>0, <2>1, <3>1 DEF IInv, TypeInv, Pcs
        <3>3. QED
            BY <2>1, <3>1, <3>2, FinishIInv
    <2>2. CASE pc' # "done"
        <3>1. /\ pc' = "clause" /\ counter' = 0 /\ done' = 0
              /\ reverted' = FALSE /\ UNCHANGED result
            BY <1>2, <2>2 DEF TxLoop, Finish
        <3>2. TypeInv'
            BY <1>0, <3>1 DEF IInv, TypeInv, Pcs
        <3>3. \A r \in ran \cup revertedAt : r[1] < i
            BY <1>0 DEF IInv, AtTx
        <3>4. RanOf(i)' = {}
            BY <1>0, <3>3, RanNone DEF IInv, TypeInv, RanOf, RanIn
        <3>5. InTx'
            <4>1. finalized' = 0..(i' - 1) /\ i' <= txIndex'
                BY <1>0, <1>2 DEF IInv, TypeInv, AtTx
            <4>2. \A r \in ran' \cup revertedAt' : r[1] <= i' /\ r[1] # i'
                BY <1>0, <3>3 DEF IInv, TypeInv
            <4>3. RanOf(i)' = 0..(counter' - 1)
                BY <3>1, <3>4
            <4>4. req.clause \in Nat
                BY <1>0, DebugReplayAssumption DEF IInv, TypeInv
            <4>5. QED
                BY <1>0, <3>1, <4>1, <4>2, <4>3, <4>4 DEF InTx
        <3>6. QED
            BY <1>0, <3>1, <3>2, <3>5 DEF IInv, Fresh, InRange, TxCount,
               NClauses, AtTx, AtFinalize, AtTarget, EarlyRevertedMeansReverted
    <2>3. QED
        BY <2>1, <2>2
<1>3. QED
    BY <1>1, <1>2

LEMMA ClauseLoopIInv == IInv /\ ClauseLoop => IInv'
<1> SUFFICES ASSUME IInv, ClauseLoop PROVE IInv'
    OBVIOUS
<1>0. /\ pc = "clause" /\ UNCHANGED <<req, txIndex, i, finalized>>
      /\ req.block \in Blocks /\ txIndex < Len(TxsOf[req.block])
      /\ i <= txIndex /\ req.clause \in Nat /\ req.kind \in {"trace", "storage"}
    BY DebugReplayAssumption DEF ClauseLoop, IInv, TypeInv, InRange, TxCount,
       InTx
<1>1. CASE ~HasNextClause
    <2>1. /\ pc' = "finalize"
          /\ UNCHANGED <<result, counter, done, reverted, ran, revertedAt>>
        BY <1>1 DEF ClauseLoop
    <2>2. NClauses(i) \in Nat
        BY <1>0, NClausesNat DEF IInv, TypeInv, NClauses
    <2>3. AtFinalize'
        BY <1>0, <1>1, <2>1, <2>2 DEF HasNextClause, AtFinalize, NClauses,
           IInv, TypeInv
    <2>4. QED
        BY <1>0, <2>1, <2>3 DEF IInv, TypeInv, Pcs, Fresh, InRange, TxCount,
           NClauses, AtTx, InTx, RanOf, RanIn, AtTarget, EarlyRevertedMeansReverted
<1>2. CASE HasNextClause /\ txIndex = i /\ req.clause = counter
    <2>1. /\ pc' = req.kind
          /\ UNCHANGED <<result, counter, done, reverted, ran, revertedAt>>
        BY <1>2 DEF ClauseLoop
    <2>2. ~reverted
        BY <1>2 DEF HasNextClause
    <2>3. QED
        BY <1>0, <1>2, <2>1, <2>2 DEF IInv, TypeInv, Pcs, Fresh, InRange,
           TxCount, NClauses, AtTx, InTx, RanOf, RanIn, AtFinalize, AtTarget,
           EarlyRevertedMeansReverted
<1>3. CASE HasNextClause /\ ~(txIndex = i /\ req.clause = counter)
    <2>1. CASE pc' = "done"
        <3>1. result' = "error"
              /\ UNCHANGED <<counter, done, reverted, ran, revertedAt>>
            BY <1>3, <2>1 DEF ClauseLoop, Finish
        <3>2. TypeInv'
            BY <1>0, <3>1, <2>1 DEF IInv, TypeInv, Pcs
        <3>3. QED
            BY <2>1, <3>1, <3>2, FinishIInv
    <2>2. CASE pc' # "done"
        <3>1. /\ done' = done + 1 /\ counter' = counter + 1
              /\ ran' = ran \cup {<<i, counter>>}
              /\ \/ reverted' = TRUE
                    /\ revertedAt' = revertedAt \cup {<<i, counter>>}
                 \/ UNCHANGED <<reverted, revertedAt>>
              /\ UNCHANGED <<pc, result>>
            BY <1>3, <2>2 DEF ClauseLoop, Finish
        <3>2. ~reverted
            BY <1>3 DEF HasNextClause
        <3>3. /\ finalized = 0..(i - 1)
              /\ \A r \in ran \cup revertedAt : r[1] <= i
              /\ RanOf(i) = 0..(counter - 1)
              /\ counter = done
              /\ \A r \in revertedAt : r[1] # i
              /\ i = txIndex => counter < req.clause
            BY <1>0, <1>3, <3>2 DEF IInv, InTx, TypeInv
        <3>4. RanOf(i)' = 0..(counter' - 1)
            <4>1. RanOf(i)' = RanOf(i) \cup {counter}
                <5>1. RanOf(i)' = RanIn(ran \cup {<<i, counter>>}, i)
                    BY <1>0, <3>1 DEF RanOf, RanIn
                <5>2. RanIn(ran \cup {<<i, counter>>}, i) = RanIn(ran, i) \cup {counter}
                    BY RanAdd
                <5>3. QED
                    BY <5>1, <5>2 DEF RanOf
            <4>2. QED
                BY <3>1, <3>3, <4>1 DEF IInv, TypeInv
        <3>5. TypeInv'
            <4>1. <<i, counter>> \in Nat \X Nat
                BY DEF IInv, TypeInv
            <4>2. revertedAt' \subseteq Nat \X Nat /\ reverted' \in BOOLEAN
                BY <3>1, <4>1 DEF IInv, TypeInv
            <4>3. QED
                BY <1>0, <3>1, <4>1, <4>2 DEF IInv, TypeInv
        <3>6. /\ \A r \in ran' \cup revertedAt' : r[1] <= i'
              /\ ~reverted' => \A r \in revertedAt' : r[1] # i'
              /\ reverted' => \E c \in 0..(counter' - 1) : <<i', c>> \in revertedAt'
            BY <1>0, <3>1, <3>2, <3>3 DEF IInv, TypeInv
        <3>7. InTx'
            BY <1>0, <3>1, <3>3, <3>4, <3>6 DEF InTx, IInv, TypeInv
        <3>8. QED
            BY <1>0, <3>1, <3>5, <3>7 DEF IInv, Fresh, InRange, TxCount,
               NClauses, AtTx, AtFinalize, AtTarget, EarlyRevertedMeansReverted
    <2>3. QED
        BY <2>1, <2>2
<1>4. QED
    BY <1>1, <1>2, <1>3

LEMMA FinalizeIInv == IInv /\ Finalize => IInv'
<1> SUFFICES ASSUME IInv, Finalize PROVE IInv'
    OBVIOUS
<1>0. /\ pc = "finalize"
      /\ UNCHANGED <<req, txIndex, counter, done, reverted, ran, revertedAt>>
    BY DEF Finalize
<1>1. CASE pc' = "done"
    <2>1. /\ result' \in {"error", "cancelled"}
          /\ finalized' \subseteq finalized \cup {i}
        BY <1>1 DEF Finalize, Finish
    <2>2. TypeInv'
        BY <1>0, <1>1, <2>1 DEF Finalize, Finish, IInv, TypeInv, Pcs
    <2>3. QED
        BY <1>1, <2>1, <2>2, FinishIInv
<1>2. CASE pc' # "done"
    <2>1. /\ finalized' = finalized \cup {i}
          /\ i' = i + 1
          /\ pc' = "tx"
          /\ UNCHANGED result
        BY <1>2 DEF Finalize, Finish
    <2>2. /\ finalized = 0..(i - 1)
          /\ i <= txIndex
          /\ \A r \in ran \cup revertedAt : r[1] <= i
          /\ counter = done
          /\ reverted => \E c \in 0..(counter - 1) : <<i, c>> \in revertedAt
          /\ i = txIndex => counter <= req.clause
        BY <1>0 DEF IInv, InTx
    <2>3. TypeInv'
        BY <1>0, <2>1 DEF IInv, TypeInv, Pcs
    <2>4. i = txIndex => \E c \in 0..(req.clause - 1) : <<txIndex, c>> \in revertedAt
        <3>1. SUFFICES ASSUME i = txIndex
                       PROVE  \E c \in 0..(req.clause - 1) : <<txIndex, c>> \in revertedAt
            OBVIOUS
        <3>2. /\ req.clause < NClauses(i) /\ NClauses(i) \in Nat
              /\ req.clause \in Nat
            <4>1. /\ req.block \in Blocks /\ txIndex < Len(TxsOf[req.block])
                  /\ req.clause < NClauses(txIndex) /\ req \in Requests
                  /\ txIndex \in Nat
                BY <1>0 DEF IInv, InRange, TxCount, TypeInv
            <4>2. Clauses[TxAt(req.block, txIndex)] \in Nat
                BY <4>1, NClausesNat
            <4>3. QED
                BY <3>1, <4>1, <4>2, DebugReplayAssumption DEF NClauses
        <3>3. reverted
            BY <1>0, <2>2, <3>1, <3>2 DEF IInv, AtFinalize, TypeInv
        <3>4. QED
            BY <2>2, <3>1, <3>2, <3>3 DEF IInv, TypeInv
    <2>5. AtTx'
        BY <1>0, <2>1, <2>2, <2>4 DEF AtTx, IInv, TypeInv
    <2>6. QED
        BY <1>0, <2>1, <2>3, <2>5 DEF IInv, Fresh, InRange, TxCount,
           NClauses, InTx, AtFinalize, AtTarget, EarlyRevertedMeansReverted
<1>3. QED
    BY <1>1, <1>2

LEMMA TraceIInv == IInv /\ Trace => IInv'
<1> SUFFICES ASSUME IInv, Trace PROVE IInv'
    OBVIOUS
<1>1. /\ pc' = "done" /\ result' \in {"error", "traced"}
      /\ ran' \subseteq ran \cup {<<i, counter>>}
      /\ UNCHANGED <<req, txIndex, i, counter, done, reverted, revertedAt, finalized>>
    BY DEF Trace, Finish
<1>2. TypeInv'
    BY <1>1 DEF IInv, TypeInv, Pcs
<1>3. QED
    BY <1>1, <1>2, FinishIInv

LEMMA StorageIInv == IInv /\ Storage => IInv'
<1> SUFFICES ASSUME IInv, Storage PROVE IInv'
    OBVIOUS
<1>1. /\ pc' = "done" /\ result' \in {"error", "storage"}
      /\ UNCHANGED <<req, txIndex, i, counter, done, reverted, ran, revertedAt,
                     finalized>>
    BY DEF Storage, Finish
<1>2. TypeInv'
    BY <1>1 DEF IInv, TypeInv, Pcs
<1>3. QED
    BY <1>1, <1>2, FinishIInv

LEMMA NextIInv == IInv /\ [Next]_vars => IInv'
<1> SUFFICES ASSUME IInv, [Next]_vars PROVE IInv'
    OBVIOUS
<1>1. CASE Parse
    BY <1>1, ParseIInv
<1>2. CASE GetEnv
    BY <1>2, GetEnvIInv
<1>3. CASE TxLoop
    BY <1>3, TxLoopIInv
<1>4. CASE ClauseLoop
    BY <1>4, ClauseLoopIInv
<1>5. CASE Finalize
    BY <1>5, FinalizeIInv
<1>6. CASE Trace
    BY <1>6, TraceIInv
<1>7. CASE Storage
    BY <1>7, StorageIInv
<1>8. CASE UNCHANGED vars
    BY <1>8 DEF vars, IInv, TypeInv, Fresh, InRange, TxCount, NClauses, AtTx,
       InTx, RanOf, RanIn, AtFinalize, AtTarget, EarlyRevertedMeansReverted
<1>9. QED
    BY <1>1, <1>2, <1>3, <1>4, <1>5, <1>6, <1>7, <1>8 DEF Next

-----------------------------------------------------------------------------
(* The theorems.                                                           *)

\* handleTxEnv hands a runtime to traceTransaction or debugStorage only
\* when every earlier transaction of the block was finalized, exactly the
\* clauses before the requested one of the target ran, none of them
\* reverted, and nothing after the target ran: for every chain, every
\* block and every request (ReplayPositioned, checked by debug_replay).
THEOREM ReplayPositionedProof == Spec => []ReplayPositioned
<1>1. IInv => ReplayPositioned
    <2> SUFFICES ASSUME IInv, pc \in {"trace", "storage"}
                 PROVE  /\ finalized = 0..(txIndex - 1)
                        /\ {r[2] : r \in {r \in ran : r[1] = txIndex}}
                             = 0..(req.clause - 1)
                        /\ \A r \in ran : r[1] <= txIndex
                        /\ \A r \in revertedAt : r[1] # txIndex
        BY DEF ReplayPositioned
    <2>1. i = txIndex /\ counter = req.clause /\ ~reverted
        BY DEF IInv, AtTarget
    <2>2. QED
        BY <2>1 DEF IInv, InTx, RanOf, RanIn
<1>2. QED
    BY <1>1, InitIInv, NextIInv, PTL DEF Spec

\* handleTxEnv returns "early reverted" only after a clause of the target
\* before the requested one reverted, for every chain and request
\* (EarlyRevertedMeansReverted, checked by debug_replay).
THEOREM EarlyRevertedProof == Spec => []EarlyRevertedMeansReverted
<1>1. IInv => EarlyRevertedMeansReverted
    BY DEF IInv
<1>2. QED
    BY <1>1, InitIInv, NextIInv, PTL DEF Spec

=============================================================================
