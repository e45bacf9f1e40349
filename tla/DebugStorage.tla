---------------------------- MODULE DebugStorage ----------------------------
(***************************************************************************)
(* Paging through a contract's storage with the debug API                  *)
(* (api/debug/debug.go, storageRangeAt, and the StorageRangeResult of      *)
(* api/debug/types.go).                                                    *)
(*                                                                         *)
(* A client asks for at most maxResult entries from keyStart on, and then  *)
(* asks again from the NextKey it was given until NextKey is nil.  The     *)
(* storage is the trie of a fixed past state, so it does not change        *)
(* between the calls.  Trie keys are hashed keys and are visited in key    *)
(* order: here they are numbers.  storageRangeAt is modelled step by step, *)
(* because what it returns depends on which calls of it.Next() the loop   *)
(* condition `i < maxResult && it.Next()` makes, and in what order.        *)
(***************************************************************************)
EXTENDS Naturals, FiniteSetsExt

CONSTANTS
    KeySpace,     \* the keys a storage trie may hold (a finite set of Nat)
    MaxResults,   \* the maxResult values a client may ask for
    None          \* nil: no keyStart, no NextKey, iterator not started

ASSUME DebugStorageAssumption ==
    /\ KeySpace \subseteq Nat
    /\ MaxResults \subseteq Nat
    /\ None \notin KeySpace
    \* The keys are well ordered, as trie keys are: every nonempty set of
    \* them has a least one, the key it.Next() moves to.  (True of every
    \* subset of Nat; stated here because its proof is an induction.)
    /\ \A S \in SUBSET KeySpace : S # {} => \E m \in S : \A k \in S : m <= k

VARIABLES
    keys,       \* the keys of the storage trie
    maxResult,  \* the client's maxResult
    start,      \* the client's keyStart (None for "")
    pc,         \* "call", "loop", "after", "merge" or "done"
    i,          \* the loop counter of storageRangeAt
    cursor,     \* the key the iterator is at (None before its first Next)
    page,       \* the keys in result.Storage
    nextKey,    \* result.NextKey
    collected   \* the keys the client has received so far

vars == <<keys, maxResult, start, pc, i, cursor, page, nextKey, collected>>

-----------------------------------------------------------------------------

\* The keys the iterator started at `start` has still to visit.
Ahead == {k \in keys : /\ start # None => k >= start
                       /\ cursor # None => k > cursor}

\* it.Next() finds another key.
HasNext == Ahead # {}

\* The key it.Next() moves to.
NextOf == Min(Ahead)

\* A storageRangeAt that keeps the previous page's entries.
CallKeepingPage ==
    /\ pc = "call"
    /\ cursor' = None
    /\ i' = 0
    /\ nextKey' = None
    /\ pc' = "loop"
    /\ UNCHANGED <<keys, maxResult, start, page, collected>>

\* storageRangeAt(t, start, maxResult): a new iterator at start, an empty
\* result.
Call ==
    /\ pc = "call"
    /\ cursor' = None
    /\ i' = 0
    /\ page' = {}
    /\ nextKey' = None
    /\ pc' = "loop"
    /\ UNCHANGED <<keys, maxResult, start, collected>>

\* One iteration: i < maxResult holds and it.Next() finds a key, whose
\* entry goes into the result.
LoopBody ==
    /\ pc = "loop"
    /\ i < maxResult
    /\ HasNext
    /\ cursor' = NextOf
    /\ page' = page \cup {NextOf}
    /\ i' = i + 1
    /\ UNCHANGED <<keys, maxResult, start, pc, nextKey, collected>>

\* The loop condition `it.Next() && i < maxResult`, the wrong way round:
\* the last call of it.Next() moves the iterator past a key that the loop
\* then does not take.
LoopExitAdvancing ==
    /\ pc = "loop"
    /\ i >= maxResult \/ ~HasNext
    /\ cursor' = IF HasNext THEN NextOf ELSE cursor
    /\ pc' = "after"
    /\ UNCHANGED <<keys, maxResult, start, i, page, nextKey, collected>>

\* The loop ends: either i < maxResult is false, and it.Next() is not
\* called, or it.Next() finds nothing.
LoopExit ==
    /\ pc = "loop"
    /\ i >= maxResult \/ ~HasNext
    /\ pc' = "after"
    /\ UNCHANGED <<keys, maxResult, start, i, cursor, page, nextKey, collected>>

\* A NextKey that names the last key of the result instead of the first
\* key after it.
AfterLastKey ==
    /\ pc = "after"
    /\ IF HasNext
       THEN nextKey' = IF cursor = None THEN NextOf ELSE cursor
       ELSE UNCHANGED nextKey
    /\ pc' = "merge"
    /\ UNCHANGED <<keys, maxResult, start, i, cursor, page, collected>>

\* `if it.Next() { result.NextKey = &next }`: NextKey is the first key not
\* in the result, nil when the iterator is at its end.
After ==
    /\ pc = "after"
    /\ IF HasNext
       THEN cursor' = NextOf /\ nextKey' = NextOf
       ELSE UNCHANGED <<cursor, nextKey>>
    /\ pc' = "merge"
    /\ UNCHANGED <<keys, maxResult, start, i, page, collected>>

\* The client keeps the page and asks for the next one from NextKey, or
\* stops at a nil NextKey.
Merge ==
    /\ pc = "merge"
    /\ collected' = collected \cup page
    /\ IF nextKey = None
       THEN pc' = "done" /\ UNCHANGED start
       ELSE pc' = "call" /\ start' = nextKey
    /\ UNCHANGED <<keys, maxResult, i, cursor, page, nextKey>>

-----------------------------------------------------------------------------

Init ==
    /\ keys \in SUBSET KeySpace
    /\ maxResult \in MaxResults
    /\ start = None
    /\ pc = "call"
    /\ i = 0
    /\ cursor = None
    /\ page = {}
    /\ nextKey = None
    /\ collected = {}

Next ==
    \/ Call
    \/ LoopBody
    \/ LoopExit
    \/ After
    \/ Merge

Spec == Init /\ [][Next]_vars /\ WF_vars(Next)

-----------------------------------------------------------------------------
(* Properties.                                                             *)

TypeOK ==
    /\ keys \subseteq KeySpace
    /\ maxResult \in MaxResults
    /\ start \in KeySpace \cup {None}
    /\ pc \in {"call", "loop", "after", "merge", "done"}
    /\ i \in 0..Cardinality(KeySpace)
    /\ cursor \in KeySpace \cup {None}
    /\ page \subseteq keys
    /\ nextKey \in KeySpace \cup {None}
    /\ collected \subseteq keys

\* types.go: NextKey is nil only when the result holds the last key; so a
\* client that follows NextKey until it is nil has received every key of
\* the storage, none skipped at a page boundary.
PagingComplete == pc = "done" => collected = keys

\* No entry is returned twice: every page the client receives holds only
\* keys it has not received before.
PagesDisjoint == pc = "merge" => page \cap collected = {}

\* A client that follows NextKey reaches the end of the storage.
PagingEnds == <>(pc = "done")

=============================================================================
