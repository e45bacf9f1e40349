------------------------- MODULE CachedObjectProofs -------------------------
(***************************************************************************)
(* Proofs about the account cache: every successful read returns the       *)
(* object's own storage value or code, for any objects, tries and codes.   *)
(*                                                                         *)
(* ReadsCorrect alone is not inductive: a hit returns what the cache       *)
(* holds, so the invariant must also say that the caches hold only true    *)
(* values (CachesFaithful), and the type facts that make the function      *)
(* applications meaningful.                                                *)
(***************************************************************************)
EXTENDS CachedObject, TLAPS

IInv == TypeOK /\ CachesFaithful /\ ReadsCorrect

\* The expected value of a storage read is a stored value, of a code read
\* a code or nil.
LEMMA ExpectedType ==
    ASSUME NEW o \in Objects, NEW k \in Keys
    PROVE  /\ Expected(o, "storage", k) \in Values
           /\ Expected(o, "code", Nil) \in Codes \cup {Nil}
BY CachedObjectAssumption DEF Expected, Values, Codes

\* Nil is a value a read may return.
LEMMA NilValue == Nil \in Values
BY DEF Values

\* A read that returns a value of the right kind keeps `last` well typed.
LEMMA ReturnType ==
    ASSUME TypeOK, NEW o \in Objects, NEW w \in {"storage", "code"},
           NEW k \in Keys \cup {Nil}, NEW ok \in BOOLEAN, NEW v \in Values \cup Codes,
           Return(o, w, k, ok, v)
    PROVE  last' \in [obj: Objects, what: {"none", "storage", "code"},
                      key: Keys \cup {Nil}, ok: BOOLEAN, val: Values \cup Codes,
                      tick: BOOLEAN]
BY DEF Return, TypeOK

\* The trie flag stays Boolean.
LEMMA OpenTrieType ==
    ASSUME TypeOK, NEW o \in Objects, OpenTrie(o)
    PROVE  trie' \in [Objects -> BOOLEAN]
BY DEF OpenTrie, TypeOK

LEMMA InitIInv == Init => IInv
<1> SUFFICES ASSUME Init PROVE IInv
    OBVIOUS
<1>1. TypeOK
    BY NilValue, CachedObjectAssumption DEF Init, TypeOK
<1>2. CachesFaithful
    BY DEF Init, CachesFaithful, Cached
<1>3. ReadsCorrect
    BY DEF Init, ReadsCorrect
<1>4. QED
    BY <1>1, <1>2, <1>3 DEF IInv

\* A hit returns what the storage cache holds, which is true.
LEMMA StorageHitIInv ==
    ASSUME IInv, NEW o \in Objects, NEW k \in Keys, StorageHit(o, k)
    PROVE  IInv'
<1>1. storage[o][k] = Expected(o, "storage", k)
    BY DEF StorageHit, IInv, CachesFaithful
<1>2. storage[o][k] \in Values
    BY <1>1, ExpectedType
<1>3. TypeOK'
    BY <1>2 DEF StorageHit, Return, IInv, TypeOK
<1>4. CachesFaithful'
    BY DEF StorageHit, IInv, CachesFaithful, Cached
<1>5. ReadsCorrect'
    BY <1>1 DEF StorageHit, Return, ReadsCorrect
<1>6. QED
    BY <1>3, <1>4, <1>5 DEF IInv

\* A load caches only the value of the object's own trie.
LEMMA StorageLoadIInv ==
    ASSUME IInv, NEW o \in Objects, NEW k \in Keys, StorageLoad(o, k)
    PROVE  IInv'
<1> USE CachedObjectAssumption
<1>0. /\ TypeOK
      /\ trie' \in [Objects -> BOOLEAN]
      /\ UNCHANGED <<code, codeCache>>
    BY OpenTrieType DEF StorageLoad, IInv
<1>1. StorageMap(o) \in [Keys -> Values \cup {Miss}]
    BY DEF StorageMap, IInv, TypeOK
<1>2. \A j \in Keys : StorageMap(o)[j] # Miss => StorageMap(o)[j] = Expected(o, "storage", j)
    BY DEF StorageMap, IInv, CachesFaithful, Cached
<1>3. ASSUME NEW m \in [Keys -> Values \cup {Miss}],
             \A j \in Keys : m[j] # Miss => m[j] = Expected(o, "storage", j),
             storage' = [storage EXCEPT ![o] = m],
             NEW ok \in BOOLEAN, NEW v \in Values,
             Return(o, "storage", k, ok, v),
             ok => v = Expected(o, "storage", k)
      PROVE  IInv'
    <2>1. TypeOK'
        <3>1. storage' \in [Objects -> [Keys -> Values \cup {Miss}] \cup {Miss}]
            BY <1>3 DEF IInv, TypeOK
        <3>2. last' \in [obj: Objects, what: {"none", "storage", "code"},
                         key: Keys \cup {Nil}, ok: BOOLEAN, val: Values \cup Codes,
                         tick: BOOLEAN]
            BY <1>0, <1>3, ReturnType
        <3>3. QED
            BY <1>0, <3>1, <3>2 DEF IInv, TypeOK
    <2>2. CachesFaithful'
        BY <1>0, <1>3 DEF IInv, TypeOK, CachesFaithful, Cached
    <2>3. ReadsCorrect'
        BY <1>3 DEF Return, ReadsCorrect
    <2>4. QED
        BY <2>1, <2>2, <2>3 DEF IInv
<1>4. CASE Root[o] = NoRoot
    <2>1. Nil = Expected(o, "storage", k)
        BY <1>4 DEF Expected
    <2>2. QED
        BY <1>1, <1>2, <1>3, <1>4, <2>1, NilValue DEF StorageLoad
<1>5. CASE Root[o] # NoRoot
    <2>1. Content[Root[o]][k] = Expected(o, "storage", k) /\ Content[Root[o]][k] \in Values
        BY <1>5, ExpectedType DEF Expected
    <2>2. [StorageMap(o) EXCEPT ![k] = Content[Root[o]][k]] \in [Keys -> Values \cup {Miss}]
        BY <1>1, <2>1
    <2>3. \A j \in Keys : [StorageMap(o) EXCEPT ![k] = Content[Root[o]][k]][j] # Miss =>
             [StorageMap(o) EXCEPT ![k] = Content[Root[o]][k]][j] = Expected(o, "storage", j)
        BY <1>1, <1>2, <2>1
    <2>4. QED
        BY <1>1, <1>2, <1>3, <1>5, <2>1, <2>2, <2>3, NilValue DEF StorageLoad
<1>6. QED
    BY <1>4, <1>5

\* GetCode returns and caches only the code of the object's own hash.
LEMMA GetCodeIInv ==
    ASSUME IInv, NEW o \in Objects, GetCode(o)
    PROVE  IInv'
<1> USE CachedObjectAssumption
<1>0. TypeOK /\ UNCHANGED <<trie, storage>>
    BY DEF GetCode, IInv
<1>1. ASSUME NEW c \in Codes \cup {Nil},
             c # Nil => c = Expected(o, "code", Nil),
             code' = [code EXCEPT ![o] = c] \/ code' = code,
             NEW h \in Hashes \cup {NoHash}, NEW ch \in Codes \cup {Miss},
             ch # Miss => h \in Hashes /\ ch = CodeOf[h],
             codeCache' = [codeCache EXCEPT ![h] = ch] \/ codeCache' = codeCache,
             NEW ok \in BOOLEAN, NEW v \in Codes \cup {Nil},
             Return(o, "code", Nil, ok, v),
             ok => v = Expected(o, "code", Nil)
      PROVE  IInv'
    <2>1. v \in Values \cup Codes
        BY <1>1, NilValue
    <2>2. TypeOK'
        <3>1. last' \in [obj: Objects, what: {"none", "storage", "code"},
                         key: Keys \cup {Nil}, ok: BOOLEAN, val: Values \cup Codes,
                         tick: BOOLEAN]
            BY <1>0, <1>1, <2>1 DEF Return, TypeOK
        <3>2. QED
            BY <1>0, <1>1, <3>1 DEF IInv, TypeOK
    <2>3. CachesFaithful'
        BY <1>0, <1>1 DEF IInv, TypeOK, CachesFaithful, Cached
    <2>4. ReadsCorrect'
        BY <1>1 DEF Return, ReadsCorrect
    <2>5. QED
        BY <2>2, <2>3, <2>4 DEF IInv
<1>2. CASE code[o] # Nil
    <2>1. code[o] = Expected(o, "code", Nil) /\ code[o] \in Codes
        BY <1>2 DEF IInv, CachesFaithful, TypeOK
    <2>2. QED
        BY <1>1, <1>2, <2>1 DEF GetCode, IInv, TypeOK
<1>3. CASE code[o] = Nil /\ Hash[o] = NoHash
    <2>1. Nil = Expected(o, "code", Nil)
        BY <1>3 DEF Expected
    <2>2. QED
        BY <1>1, <1>3, <2>1 DEF GetCode, IInv, TypeOK
<1>4. CASE code[o] = Nil /\ Hash[o] # NoHash
    <2>1. Hash[o] \in Hashes /\ CodeKey(o) = Hash[o]
        BY <1>4 DEF CodeKey
    <2>2. CodeOf[Hash[o]] = Expected(o, "code", Nil) /\ CodeOf[Hash[o]] \in Codes
        BY <1>4, <2>1 DEF Expected, Codes
    <2>3. CASE codeCache[CodeKey(o)] # Miss
        <3>1. codeCache[Hash[o]] = CodeOf[Hash[o]]
            BY <2>1, <2>3 DEF IInv, CachesFaithful
        <3>2. QED
            BY <1>1, <1>4, <2>1, <2>2, <2>3, <3>1 DEF GetCode, IInv, TypeOK
    <2>4. CASE codeCache[CodeKey(o)] = Miss
        <3>1. \/ Return(o, "code", Nil, FALSE, Nil) /\ UNCHANGED <<code, codeCache>>
              \/ /\ codeCache' = [codeCache EXCEPT ![Hash[o]] = CodeOf[Hash[o]]]
                 /\ code' = [code EXCEPT ![o] = CodeOf[Hash[o]]]
                 /\ Return(o, "code", Nil, TRUE, CodeOf[Hash[o]])
            BY <1>4, <2>1, <2>4 DEF GetCode
        <3>2. CASE Return(o, "code", Nil, FALSE, Nil) /\ UNCHANGED <<code, codeCache>>
            BY <3>2, <1>1
        <3>3. CASE /\ codeCache' = [codeCache EXCEPT ![Hash[o]] = CodeOf[Hash[o]]]
                   /\ code' = [code EXCEPT ![o] = CodeOf[Hash[o]]]
                   /\ Return(o, "code", Nil, TRUE, CodeOf[Hash[o]])
            BY <3>3, <1>1, <2>1, <2>2
        <3>4. QED
            BY <3>1, <3>2, <3>3
    <2>5. QED
        BY <2>3, <2>4
<1>5. QED
    BY <1>2, <1>3, <1>4

LEMMA NextIInv == IInv /\ [Next]_vars => IInv'
<1> SUFFICES ASSUME IInv, [Next]_vars PROVE IInv'
    OBVIOUS
<1>1. ASSUME NEW o \in Objects, NEW k \in Keys, GetStorage(o, k) PROVE IInv'
    BY <1>1, StorageHitIInv, StorageLoadIInv DEF GetStorage
<1>2. ASSUME NEW o \in Objects, GetCode(o) PROVE IInv'
    BY <1>2, GetCodeIInv
<1>3. ASSUME NEW h \in Hashes, Evict(h) PROVE IInv'
    BY <1>3 DEF Evict, IInv, TypeOK, CachesFaithful, ReadsCorrect, Cached
<1>4. ASSUME NEW o \in Objects, Renew(o) PROVE IInv'
    BY <1>4 DEF Renew, IInv, TypeOK, CachesFaithful, ReadsCorrect, Cached
<1>5. CASE UNCHANGED vars
    BY <1>5 DEF vars, IInv, TypeOK, CachesFaithful, ReadsCorrect, Cached
<1>6. QED
    BY <1>1, <1>2, <1>3, <1>4, <1>5 DEF Next

\* For any objects, addresses, tries and codes, whatever the order of
\* cachedObject.GetStorage and GetCode calls, failed loads, codeCache
\* evictions and new objects, a read that succeeds returns the object's own
\* storage value or code.
THEOREM ReadsCorrectProof == Spec => []ReadsCorrect
<1>1. IInv => ReadsCorrect
    BY DEF IInv
<1>2. QED
    BY <1>1, InitIInv, NextIInv, PTL DEF Spec

\* For the same objects, tries and codes, the caches never hold a wrong
\* value: a key cached in an object's storage map holds the trie's value
\* under the object's root, an object's cached code is its code, and an
\* entry of the process-wide codeCache is the code stored under its hash,
\* across failed loads, evictions and objects of other states.
THEOREM CachesFaithfulProof == Spec => []CachesFaithful
<1>1. IInv => CachesFaithful
    BY DEF IInv
<1>2. QED
    BY <1>1, InitIInv, NextIInv, PTL DEF Spec

=============================================================================
