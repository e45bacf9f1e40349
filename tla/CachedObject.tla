---------------------------- MODULE CachedObject ----------------------------
(***************************************************************************)
(* The per-account cache of the state (state/cached_object.go).            *)
(*                                                                         *)
(* A cachedObject holds one account as of one state: its storage root and  *)
(* code hash are fixed when the object is made.  It opens the storage trie *)
(* lazily, keeps every storage value it has loaded, and keeps the code it  *)
(* has loaded.  Code is also kept in codeCache, an ARC cache of 512        *)
(* entries shared by every object of the process and keyed by code hash;   *)
(* ARC may evict any entry at any time.  Several objects may stand for the *)
(* same address at different states (different roots and code hashes).    *)
(* The tries and the code store are immutable content: a storage root      *)
(* names one key -> value function, a code hash one code.  Every load from *)
(* them may fail with an error.  A state is used by one goroutine, so each *)
(* call is one step; codeCache is safe for concurrent use.                 *)
(***************************************************************************)
EXTENDS Naturals

CONSTANTS
    Objects,      \* the cachedObjects
    Addr,         \* object -> its account address
    Root,         \* object -> its storage root, or NoRoot
    Hash,         \* object -> its code hash, or NoHash
    Keys,         \* storage keys read
    Content,      \* storage root -> (key -> stored value, or Nil)
    CodeOf,       \* code hash -> code
    NoRoot,       \* len(data.StorageRoot) == 0
    NoHash,       \* len(data.CodeHash) == 0
    Nil,          \* a nil value: absent key, or no code
    Miss          \* nothing cached

Roots == DOMAIN Content
Hashes == DOMAIN CodeOf
Values == (UNION {{Content[r][k] : k \in Keys} : r \in Roots}) \cup {Nil}
Codes == {CodeOf[h] : h \in Hashes}

ASSUME CachedObjectAssumption ==
    /\ Objects # {}
    /\ Root \in [Objects -> Roots \cup {NoRoot}]
    /\ Hash \in [Objects -> Hashes \cup {NoHash}]
    /\ \A r \in Roots : Content[r] \in [Keys -> Values]
    /\ NoRoot \notin Roots /\ NoHash \notin Hashes
    /\ Nil \notin Codes /\ Miss \notin Values \cup Codes

VARIABLES
    trie,       \* object -> cache.storageTrie has been opened
    storage,    \* object -> cache.storage (Miss for a nil map), key -> value
    code,       \* object -> cache.code (Nil while empty)
    codeCache,  \* code hash -> code, or Miss
    last        \* the last read: object, what, key, ok and value returned

vars == <<trie, storage, code, codeCache, last>>

-----------------------------------------------------------------------------

\* A read returns (`tick` flips on every read, so that two equal reads in
\* a row are two records).
Return(o, what, k, ok, v) ==
    last' = [obj |-> o, what |-> what, key |-> k, ok |-> ok, val |-> v,
             tick |-> ~last.tick]

\* cache.storage after `cache.storage = make(...)` when it was nil.
StorageMap(o) ==
    IF storage[o] = Miss THEN [k \in Keys |-> Miss] ELSE storage[o]

\* cache.storage is not nil and holds key k.
Cached(o, k) == storage[o] # Miss /\ storage[o][k] # Miss

\* getOrCreateStorageTrie: the trie stays nil for an account without
\* storage; otherwise it is opened once and kept.
OpenTrie(o) == trie' = [trie EXCEPT ![o] = trie[o] \/ Root[o] # NoRoot]

\* GetStorage's first branch: a value in cache.storage is returned.
StorageHit(o, k) ==
    /\ Cached(o, k)
    /\ Return(o, "storage", k, TRUE, storage[o][k])
    /\ UNCHANGED <<trie, storage, code, codeCache>>

\* A load that caches the value of a failed load as nil.
StorageLoadCachingErrors(o, k) ==
    /\ ~Cached(o, k)
    /\ IF Root[o] = NoRoot
       THEN /\ storage' = [storage EXCEPT ![o] = StorageMap(o)]
            /\ Return(o, "storage", k, TRUE, Nil)
       ELSE \/ /\ storage' = [storage EXCEPT ![o] = [StorageMap(o) EXCEPT ![k] = Content[Root[o]][k]]]
               /\ Return(o, "storage", k, TRUE, Content[Root[o]][k])
            \/ /\ storage' = [storage EXCEPT ![o] = [StorageMap(o) EXCEPT ![k] = Nil]]
               /\ Return(o, "storage", k, FALSE, Nil)
    /\ OpenTrie(o)
    /\ UNCHANGED <<code, codeCache>>

\* GetStorage on a miss: the map is made if nil and the trie opened; an
\* account without storage gives nil, and otherwise loadStorage reads the
\* trie: its value is cached and returned, its error returned and nothing
\* cached.
StorageLoad(o, k) ==
    /\ ~Cached(o, k)
    /\ IF Root[o] = NoRoot
       THEN /\ storage' = [storage EXCEPT ![o] = StorageMap(o)]
            /\ Return(o, "storage", k, TRUE, Nil)
       ELSE \/ /\ storage' = [storage EXCEPT ![o] = [StorageMap(o) EXCEPT ![k] = Content[Root[o]][k]]]
               /\ Return(o, "storage", k, TRUE, Content[Root[o]][k])
            \/ /\ storage' = [storage EXCEPT ![o] = StorageMap(o)]
               /\ Return(o, "storage", k, FALSE, Nil)
    /\ OpenTrie(o)
    /\ UNCHANGED <<code, codeCache>>

\* cachedObject.GetStorage.
GetStorage(o, k) == StorageHit(o, k) \/ StorageLoad(o, k)

\* A codeCache keyed by the account's address instead of its code hash.
CodeKeyByAddress(o) == CHOOSE h \in Hashes \cup {NoHash} :
                           \E p \in Objects : Addr[p] = Addr[o] /\ Hash[p] = h

\* codeCache is keyed by the code hash.
CodeKey(o) == Hash[o]

\* GetCode: cache.code if not empty; else, for an account with code, the
\* shared codeCache (a hit is returned without filling cache.code) or the
\* code store, whose code fills both caches; an account without code gives
\* nil.
GetCode(o) ==
    /\ \/ /\ code[o] # Nil
          /\ Return(o, "code", Nil, TRUE, code[o])
          /\ UNCHANGED <<code, codeCache>>
       \/ /\ code[o] = Nil
          /\ Hash[o] = NoHash
          /\ Return(o, "code", Nil, TRUE, Nil)
          /\ UNCHANGED <<code, codeCache>>
       \/ /\ code[o] = Nil
          /\ Hash[o] # NoHash
          /\ IF codeCache[CodeKey(o)] # Miss
             THEN /\ Return(o, "code", Nil, TRUE, codeCache[CodeKey(o)])
                  /\ UNCHANGED <<code, codeCache>>
             ELSE \/ /\ Return(o, "code", Nil, FALSE, Nil)
                     /\ UNCHANGED <<code, codeCache>>
                  \/ /\ codeCache' = [codeCache EXCEPT ![CodeKey(o)] = CodeOf[Hash[o]]]
                     /\ code' = [code EXCEPT ![o] = CodeOf[Hash[o]]]
                     /\ Return(o, "code", Nil, TRUE, CodeOf[Hash[o]])
    /\ UNCHANGED <<trie, storage>>

\* The ARC cache drops an entry.
Evict(h) ==
    /\ codeCache[h] # Miss
    /\ codeCache' = [codeCache EXCEPT ![h] = Miss]
    /\ UNCHANGED <<trie, storage, code, last>>

\* newCachedObject: the state makes a fresh object for the account, with
\* empty caches.
Renew(o) ==
    /\ trie' = [trie EXCEPT ![o] = FALSE]
    /\ storage' = [storage EXCEPT ![o] = Miss]
    /\ code' = [code EXCEPT ![o] = Nil]
    /\ UNCHANGED <<codeCache, last>>

-----------------------------------------------------------------------------

Init ==
    /\ trie = [o \in Objects |-> FALSE]
    /\ storage = [o \in Objects |-> Miss]
    /\ code = [o \in Objects |-> Nil]
    /\ codeCache = [h \in Hashes \cup {NoHash} |-> Miss]
    /\ last = [obj |-> CHOOSE o \in Objects : TRUE, what |-> "none",
               key |-> Nil, ok |-> FALSE, val |-> Nil, tick |-> FALSE]

Next ==
    \/ \E o \in Objects, k \in Keys : GetStorage(o, k)
    \/ \E o \in Objects : GetCode(o)
    \/ \E h \in Hashes : Evict(h)
    \/ \E o \in Objects : Renew(o)

Spec == Init /\ [][Next]_vars

-----------------------------------------------------------------------------
(* Properties.                                                             *)

\* What a read of object o must give: the value under k in the trie of the
\* object's own storage root, the code of its own code hash, or nil.
Expected(o, what, k) ==
    IF what = "storage"
    THEN IF Root[o] = NoRoot THEN Nil ELSE Content[Root[o]][k]
    ELSE IF Hash[o] = NoHash THEN Nil ELSE CodeOf[Hash[o]]

\* Whatever the order of reads, failures, evictions of the shared code
\* cache and renewals of objects, a GetStorage or GetCode that succeeds
\* returns the object's own storage value or code, never one cached for
\* another key, another state of the same account, or a failed load.
ReadsCorrect ==
    last.what # "none" /\ last.ok =>
        last.val = Expected(last.obj, last.what, last.key)

\* Every value the caches hold is the true one: cache.storage of an object
\* holds only values of its own trie, cache.code its own code, and
\* codeCache the code of the hash it is filed under.  This is what makes
\* the hits of GetStorage and GetCode right.
CachesFaithful ==
    /\ \A o \in Objects, k \in Keys :
          Cached(o, k) =>
              storage[o][k] = Expected(o, "storage", k)
    /\ \A o \in Objects : code[o] # Nil => code[o] = Expected(o, "code", Nil)
    /\ \A h \in Hashes : codeCache[h] # Miss => codeCache[h] = CodeOf[h]

TypeOK ==
    /\ trie \in [Objects -> BOOLEAN]
    /\ storage \in [Objects -> [Keys -> Values \cup {Miss}] \cup {Miss}]
    /\ code \in [Objects -> Codes \cup {Nil}]
    /\ codeCache \in [Hashes \cup {NoHash} -> Codes \cup {Miss}]
    /\ last \in [obj: Objects, what: {"none", "storage", "code"},
                 key: Keys \cup {Nil}, ok: BOOLEAN, val: Values \cup Codes,
                 tick: BOOLEAN]

=============================================================================
