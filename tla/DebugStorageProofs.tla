------------------------- MODULE DebugStorageProofs -------------------------
(***************************************************************************)
(* Proofs that a client paging through a storage trie with                *)
(* storageRangeAt (api/debug/debug.go) and following NextKey receives     *)
(* every key once, for every storage and every page size.                  *)
(***************************************************************************)
EXTENDS DebugStorage, TLAPS

TypeInv ==
    /\ keys \subseteq KeySpace
    /\ start \in KeySpace \cup {None}
    /\ cursor \in KeySpace \cup {None}
    /\ nextKey \in KeySpace \cup {None}
    /\ pc \in {"call", "loop", "after", "merge", "done"}

\* A key at or after keyStart.
AtOrAfter(k) == start # None => k >= start

\* The keys before keyStart: those the earlier pages held.
Before == {k \in keys : start # None /\ k < start}

\* The keys from keyStart up to the iterator's key.
UpTo(c) == {k \in keys : AtOrAfter(k) /\ c # None /\ k <= c}

\* The client has received exactly the keys before keyStart; inside a call
\* the page holds the keys from keyStart to the iterator; once NextKey is
\* set the page holds the keys from keyStart to just before NextKey, and a
\* nil NextKey comes only with every key from keyStart on.
Paged ==
    /\ pc \in {"call", "loop", "after", "merge"} => collected = Before
    /\ pc \in {"loop", "after"} => page = UpTo(cursor) /\ nextKey = None
    /\ pc = "merge" =>
          /\ page = {k \in keys : AtOrAfter(k) /\ (nextKey # None => k < nextKey)}
          /\ nextKey # None => nextKey \in keys /\ AtOrAfter(nextKey)
    /\ pc = "done" => collected = keys

IInv == TypeInv /\ Paged

-----------------------------------------------------------------------------

\* The key it.Next() moves to is the least key still ahead.
LEMMA NextOfLeast ==
    ASSUME TypeInv, HasNext
    PROVE  /\ NextOf \in Ahead
           /\ \A k \in Ahead : NextOf <= k
<1>1. Ahead \in SUBSET KeySpace /\ Ahead # {}
    BY DEF TypeInv, Ahead, HasNext
<1>2. \E m \in Ahead : \A k \in Ahead : m <= k
    BY <1>1, DebugStorageAssumption
<1>3. QED
    BY <1>2 DEF NextOf, Min

LEMMA InitIInv == Init => IInv
BY DebugStorageAssumption DEF Init, IInv, TypeInv, Paged, Before, UpTo

LEMMA CallIInv == IInv /\ Call => IInv'
BY DEF Call, IInv, TypeInv, Paged, Before, UpTo, AtOrAfter

LEMMA LoopBodyIInv == IInv /\ LoopBody => IInv'
<1> SUFFICES ASSUME IInv, LoopBody PROVE IInv'
    OBVIOUS
<1>1. NextOf \in Ahead /\ \A k \in Ahead : NextOf <= k
    BY NextOfLeast DEF LoopBody, IInv
<1>2. /\ keys \subseteq Nat /\ None \notin keys
      /\ cursor # None => cursor \in Nat
      /\ start # None => start \in Nat
      /\ NextOf \in keys /\ NextOf \in Nat /\ NextOf # None
    BY <1>1, DebugStorageAssumption DEF IInv, TypeInv, Ahead
<1>3. UpTo(NextOf) = UpTo(cursor) \cup {NextOf}
    <2>1. ASSUME NEW k PROVE k \in UpTo(NextOf) <=> k \in UpTo(cursor) \cup {NextOf}
        <3>1. CASE k \in keys /\ AtOrAfter(k)
            <4>1. k \in Nat
                BY <1>2, <3>1
            <4>2. cursor # None /\ k > cursor => NextOf <= k
                BY <1>1, <3>1 DEF Ahead, AtOrAfter
            <4>3. cursor # None => NextOf > cursor
                BY <1>1 DEF Ahead
            <4>4. cursor = None => NextOf <= k
                BY <1>1, <3>1 DEF Ahead, AtOrAfter
            <4>5. QED
                BY <1>1, <1>2, <3>1, <4>1, <4>2, <4>3, <4>4 DEF UpTo
        <3>2. CASE ~(k \in keys /\ AtOrAfter(k))
            BY <1>1, <3>2 DEF UpTo, Ahead, AtOrAfter
        <3>3. QED
            BY <3>1, <3>2
    <2>2. QED
        BY <2>1
<1>4. TypeInv'
    BY <1>1 DEF LoopBody, IInv, TypeInv, Ahead
<1>5. Paged'
    BY <1>3 DEF LoopBody, IInv, Paged, Before, UpTo, AtOrAfter
<1>6. QED
    BY <1>4, <1>5 DEF IInv

LEMMA LoopExitIInv == IInv /\ LoopExit => IInv'
BY DEF LoopExit, IInv, TypeInv, Paged, Before, UpTo, AtOrAfter

LEMMA AfterIInv == IInv /\ After => IInv'
<1> SUFFICES ASSUME IInv, After PROVE IInv'
    OBVIOUS
<1>0. /\ pc = "after" /\ pc' = "merge" /\ page = UpTo(cursor)
      /\ nextKey = None /\ collected = Before
      /\ UNCHANGED <<keys, start, page, collected>>
    BY DEF After, IInv, Paged
<1>1. /\ keys \subseteq Nat /\ None \notin keys
      /\ cursor # None => cursor \in Nat
      /\ start # None => start \in Nat
    BY DebugStorageAssumption DEF IInv, TypeInv
<1>2. CASE HasNext
    <2>1. NextOf \in Ahead /\ \A k \in Ahead : NextOf <= k
        BY <1>2, NextOfLeast DEF IInv
    <2>2. cursor' = NextOf /\ nextKey' = NextOf
        BY <1>2 DEF After
    <2>3. UpTo(cursor) = {k \in keys : AtOrAfter(k) /\ k < NextOf}
        <3>1. NextOf \in keys /\ NextOf \in Nat /\ AtOrAfter(NextOf)
              /\ (cursor # None => NextOf > cursor)
            BY <1>1, <2>1 DEF Ahead, AtOrAfter
        <3>2. ASSUME NEW k \in keys, AtOrAfter(k)
              PROVE  (cursor # None /\ k <= cursor) <=> k < NextOf
            <4>1. k \in Nat
                BY <1>1
            <4>2. (cursor = None \/ k > cursor) => NextOf <= k
                BY <2>1, <3>2 DEF Ahead, AtOrAfter
            <4>3. QED
                BY <1>1, <3>1, <4>1, <4>2
        <3>3. QED
            BY <3>2 DEF UpTo
    <2>4. NextOf \in keys /\ NextOf \in KeySpace /\ NextOf # None /\ AtOrAfter(NextOf)
        <3>1. NextOf \in keys /\ AtOrAfter(NextOf)
            BY <2>1 DEF Ahead, AtOrAfter
        <3>2. NextOf \in KeySpace
            BY <3>1 DEF IInv, TypeInv
        <3>3. QED
            BY <3>1, <3>2, DebugStorageAssumption
    <2>5. TypeInv'
        BY <1>0, <2>2, <2>4 DEF IInv, TypeInv
    <2>6. Paged'
        <3>1. page' = {k \in keys' : AtOrAfter(k)' /\ (nextKey' # None => k < nextKey')}
            BY <1>0, <2>2, <2>3, <2>4 DEF AtOrAfter
        <3>2. nextKey' \in keys' /\ AtOrAfter(nextKey)'
            BY <1>0, <2>2, <2>4 DEF AtOrAfter
        <3>3. QED
            BY <1>0, <3>1, <3>2 DEF Paged, Before
    <2>7. QED
        BY <2>5, <2>6 DEF IInv
<1>3. CASE ~HasNext
    <2>1. UNCHANGED <<cursor, nextKey>>
        BY <1>3 DEF After
    <2>2. UpTo(cursor) = {k \in keys : AtOrAfter(k)}
        <3>1. ASSUME NEW k \in keys, AtOrAfter(k) PROVE cursor # None /\ k <= cursor
            <4>1. k \notin Ahead
                BY <1>3 DEF HasNext
            <4>2. QED
                BY <1>1, <3>1, <4>1 DEF Ahead, AtOrAfter
        <3>2. QED
            BY <3>1 DEF UpTo
    <2>3. QED
        BY <1>0, <2>1, <2>2 DEF IInv, TypeInv, Paged, Before, AtOrAfter
<1>4. QED
    BY <1>2, <1>3

LEMMA MergeIInv == IInv /\ Merge => IInv'
<1> SUFFICES ASSUME IInv, Merge PROVE IInv'
    OBVIOUS
<1>0. /\ collected' = collected \cup page /\ collected = Before
      /\ page = {k \in keys : AtOrAfter(k) /\ (nextKey # None => k < nextKey)}
      /\ nextKey # None => nextKey \in keys /\ AtOrAfter(nextKey)
      /\ UNCHANGED <<keys, cursor, page, nextKey>>
    BY DEF Merge, IInv, Paged
<1>1. /\ keys \subseteq Nat
      /\ start # None => start \in Nat
    BY DebugStorageAssumption DEF IInv, TypeInv
<1>2. CASE nextKey = None
    <2>1. pc' = "done" /\ UNCHANGED start
        BY <1>2 DEF Merge
    <2>2. collected' = keys
        <3>1. ASSUME NEW k \in keys PROVE k \in Before \/ AtOrAfter(k)
            BY <1>1, <3>1 DEF Before, AtOrAfter
        <3>2. QED
            BY <1>0, <1>2, <3>1 DEF Before
    <2>3. QED
        BY <1>0, <2>1, <2>2 DEF IInv, TypeInv, Paged
<1>3. CASE nextKey # None
    <2>1. pc' = "call" /\ start' = nextKey
        BY <1>3 DEF Merge
    <2>2. nextKey \in Nat
        BY <1>0, <1>1, <1>3
    <2>3. collected' = {k \in keys : k < nextKey}
        <3>1. ASSUME NEW k \in keys
              PROVE  k \in Before \/ (AtOrAfter(k) /\ k < nextKey) <=> k < nextKey
            BY <1>0, <1>1, <1>3, <2>2 DEF Before, AtOrAfter
        <3>2. QED
            BY <1>0, <1>3, <3>1 DEF Before
    <2>4. QED
        BY <1>0, <1>3, <2>1, <2>3 DEF IInv, TypeInv, Paged, Before
<1>4. QED
    BY <1>2, <1>3

LEMMA NextIInv == IInv /\ [Next]_vars => IInv'
<1> SUFFICES ASSUME IInv, [Next]_vars PROVE IInv'
    OBVIOUS
<1>1. CASE UNCHANGED vars
    BY <1>1 DEF vars, IInv, TypeInv, Paged, Before, UpTo, AtOrAfter
<1>2. QED
    BY <1>1, CallIInv, LoopBodyIInv, LoopExitIInv, AfterIInv, MergeIInv DEF Next

-----------------------------------------------------------------------------
(* The theorems.                                                           *)

\* A client that follows NextKey until it is nil has received every key of
\* the storage: storageRangeAt never skips a key at a page boundary,
\* whatever the storage and maxResult (PagingComplete, checked by
\* debug_paging).
THEOREM PagingCompleteProof == Spec => []PagingComplete
<1>1. IInv => PagingComplete
    BY DEF IInv, Paged, PagingComplete
<1>2. QED
    BY <1>1, InitIInv, NextIInv, PTL DEF Spec

\* No page repeats a key the client already has: every page starts at the
\* NextKey of the one before it (PagesDisjoint, checked by debug_paging).
THEOREM PagesDisjointProof == Spec => []PagesDisjoint
<1>1. IInv => PagesDisjoint
    <2> SUFFICES ASSUME IInv, pc = "merge" PROVE page \cap collected = {}
        BY DEF PagesDisjoint
    <2>1. keys \subseteq Nat /\ (start # None => start \in Nat)
        BY DebugStorageAssumption DEF IInv, TypeInv
    <2>2. \A k \in page : AtOrAfter(k)
        BY DEF IInv, Paged
    <2>3. collected = Before
        BY DEF IInv, Paged
    <2>4. ASSUME NEW k \in page, k \in collected PROVE FALSE
        <3>1. k \in keys /\ start # None /\ k < start
            BY <2>3, <2>4 DEF Before
        <3>2. k >= start
            BY <2>2, <2>4, <3>1 DEF AtOrAfter
        <3>3. QED
            BY <2>1, <3>1, <3>2
    <2>5. QED
        BY <2>4
<1>2. QED
    BY <1>1, InitIInv, NextIInv, PTL DEF Spec

=============================================================================
