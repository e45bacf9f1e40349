---------------------------- MODULE SeederProofs ----------------------------
(***************************************************************************)
(* Proofs about the seeder (poa/seed.go): whatever the goroutines calling  *)
(* Generate do, in whatever order, and across crashes and restarts, the    *)
(* map holds only true betas, and every call that succeeds returns the     *)
(* seed spec 4.3 defines.                                                  *)
(***************************************************************************)
EXTENDS Seeder, TLAPS

\* The epoch of the block after p, and the height of its seed block.
Epoch(p) == (Number[p] + 1) \div EpochInterval
SeedNum(p) == (Epoch(p) - 1) * EpochInterval

\* A worker past Resolve has found the seed block of its own request.
Resolved ==
    \A w \in Workers :
        pc[w] \in {"read", "fetch", "writing"} =>
            /\ Epoch(req[w]) > 1
            /\ seedID[w] = AncestorAt(req[w], SeedNum(req[w]))

\* A worker between the start and the end of its map write fetched without
\* error, and holds the beta of the block it will write it under.
WritingFaithful ==
    \A w \in Workers :
        pc[w] = "writing" => ok[w] /\ seed[w] = Beta[seedID[w]]

\* A returned call that succeeded holds the seed of its request.
Answered ==
    \A w \in Workers : pc[w] = "done" /\ ok[w] => seed[w] = SeedOf(req[w])

IInv == TypeOK /\ CacheFaithful /\ Resolved /\ WritingFaithful /\ Answered

-----------------------------------------------------------------------------
(* The seed block of a request.                                            *)

\* Epochs and seed heights are naturals.
LEMMA EpochNat ==
    ASSUME NEW p \in Blocks
    PROVE  Epoch(p) \in Nat /\ (Epoch(p) > 1 => SeedNum(p) \in Nat)
BY SeederAssumption DEF Epoch, SeedNum

\* In an epoch past the first two, the seed height is at most the parent's.
LEMMA SeedHeight ==
    ASSUME NEW p \in Blocks, Epoch(p) > 1
    PROVE  Number[p] - SeedNum(p) \in 0..Number[p]
<1>1. Number[p] \in Nat /\ EpochInterval \in Nat \ {0} /\ Epoch(p) \in Nat
    BY SeederAssumption, EpochNat
<1>2. Epoch(p) * EpochInterval <= Number[p] + 1
    BY <1>1 DEF Epoch
<1>3. SeedNum(p) = Epoch(p) * EpochInterval - EpochInterval /\ SeedNum(p) >= 0
    BY <1>1 DEF SeedNum, Epoch
<1>4. QED
    BY <1>1, <1>2, <1>3

\* GetBlockID finds a block at the seed height on the parent's chain.
LEMMA SeedBlock ==
    ASSUME NEW p \in Blocks, Epoch(p) > 1
    PROVE  /\ AncestorAt(p, SeedNum(p)) \in Blocks
           /\ Number[AncestorAt(p, SeedNum(p))] = SeedNum(p)
<1>1. Number[p] - SeedNum(p) \in 0..Number[p]
    BY SeedHeight
<1>2. SeedNum(p) \in Nat /\ Number[p] \in Nat
    BY EpochNat, SeederAssumption
<1>3. QED
    BY <1>1, <1>2, AncestryAssumption DEF AncestorAt

\* That block is the one spec 4.3 names: the seed Generate computes is the
\* seed the spec defines.
LEMMA SeedOfExpected ==
    ASSUME NEW p \in Blocks
    PROVE  SeedOf(p) = ExpectedSeed(p)
<1>1. CASE Epoch(p) <= 1
    BY <1>1 DEF SeedOf, ExpectedSeed, Epoch
<1>2. CASE Epoch(p) > 1
    <2> DEFINE sb == AncestorAt(p, SeedNum(p))
               k0 == Number[p] - SeedNum(p)
               Q(b) == /\ Number[b] = SeedNum(p)
                       /\ \E k \in 0..Number[p] : Ancestry(p)[k] = b
    <2>1. sb \in Blocks /\ Q(sb)
        <3>1. k0 \in 0..Number[p] /\ Ancestry(p)[k0] = sb
            BY <1>2, SeedHeight DEF AncestorAt
        <3>2. QED
            BY <1>2, <3>1, SeedBlock
    <2>2. ASSUME NEW b \in Blocks, Q(b) PROVE b = sb
        <3>1. PICK k \in 0..Number[p] : Ancestry(p)[k] = b
            BY <2>2
        <3>2. Number[b] = Number[p] - k
            BY <3>1, AncestryAssumption
        <3>3. k = k0
            BY <2>2, <3>2, SeederAssumption
        <3>4. QED
            BY <3>1, <3>3 DEF AncestorAt
    <2>3. (CHOOSE b \in Blocks : Q(b)) = sb
        BY <2>1, <2>2
    <2>4. QED
        BY <1>2, <2>3 DEF SeedOf, ExpectedSeed, Epoch, SeedNum
<1>3. QED
    BY <1>1, <1>2, EpochNat

-----------------------------------------------------------------------------
(* The inductive invariant.                                                *)

\* The beta of a resolved seed block is the seed of the request.
LEMMA ResolvedSeed ==
    ASSUME TypeOK, Resolved, NEW w \in Workers,
           pc[w] \in {"read", "fetch", "writing"}
    PROVE  Beta[seedID[w]] = SeedOf(req[w])
<1>1. Epoch(req[w]) > 1 /\ seedID[w] = AncestorAt(req[w], SeedNum(req[w]))
    BY DEF Resolved
<1>2. req[w] \in Blocks
    BY SeederAssumption DEF TypeOK
<1>3. SeedOf(req[w]) = Beta[AncestorAt(req[w], SeedNum(req[w]))]
    BY <1>1, <1>2, EpochNat DEF SeedOf, Epoch, SeedNum
<1>4. QED
    BY <1>1, <1>3

LEMMA InitIInv == Init => IInv
<1> SUFFICES ASSUME Init PROVE IInv
    OBVIOUS
<1>1. TypeOK
    BY SeederAssumption DEF Init, TypeOK, PC
<1>2. CacheFaithful
    BY DEF Init, CacheFaithful
<1>3. Resolved /\ WritingFaithful /\ Answered
    BY DEF Init, Resolved, WritingFaithful, Answered
<1>4. QED
    BY <1>1, <1>2, <1>3 DEF IInv

LEMMA CallIInv ==
    ASSUME IInv, NEW w \in Workers, NEW p \in Requests, Call(w, p)
    PROVE  IInv'
BY DEF Call, IInv, TypeOK, CacheFaithful, Resolved, WritingFaithful, Answered, PC

LEMMA ResolveIInv ==
    ASSUME IInv, NEW w \in Workers, Resolve(w)
    PROVE  IInv'
<1>0. req[w] \in Blocks
    BY SeederAssumption DEF IInv, TypeOK
<1>1. CASE Epoch(req[w]) <= 1
    <2>1. /\ pc' = [pc EXCEPT ![w] = "done"]
          /\ seed' = [seed EXCEPT ![w] = EmptySeed]
          /\ ok' = [ok EXCEPT ![w] = TRUE]
          /\ UNCHANGED <<seedID, cache, req, crashed>>
        BY <1>1 DEF Resolve, Epoch
    <2>2. SeedOf(req[w]) = EmptySeed
        BY <1>1 DEF SeedOf, Epoch
    <2>3. QED
        BY <2>1, <2>2, SeederAssumption
           DEF IInv, TypeOK, CacheFaithful, Resolved, WritingFaithful, Answered, PC
<1>2. CASE Epoch(req[w]) > 1
    <2>1. AncestorAt(req[w], SeedNum(req[w])) \in Blocks
        BY <1>0, <1>2, SeedBlock
    <2>0. ~((Number[req[w]] + 1) \div EpochInterval <= 1)
        BY <1>0, <1>2, EpochNat DEF Epoch
    <2>2. \/ /\ seedID' = [seedID EXCEPT ![w] = AncestorAt(req[w], SeedNum(req[w]))]
             /\ pc' = [pc EXCEPT ![w] = "read"]
             /\ UNCHANGED <<seed, ok, cache, req, crashed>>
          \/ /\ pc' = [pc EXCEPT ![w] = "done"]
             /\ ok' = [ok EXCEPT ![w] = FALSE]
             /\ UNCHANGED <<seedID, seed, cache, req, crashed>>
        BY <2>0 DEF Resolve, Epoch, SeedNum
    <2>3. CASE /\ seedID' = [seedID EXCEPT ![w] = AncestorAt(req[w], SeedNum(req[w]))]
               /\ pc' = [pc EXCEPT ![w] = "read"]
               /\ UNCHANGED <<seed, ok, cache, req, crashed>>
        <3>1. TypeOK'
            BY <2>1, <2>3 DEF IInv, TypeOK, PC
        <3>2. Resolved'
            BY <1>2, <2>3 DEF IInv, TypeOK, Resolved
        <3>3. (CacheFaithful /\ WritingFaithful /\ Answered)'
            BY <2>3 DEF IInv, TypeOK, CacheFaithful, WritingFaithful, Answered
        <3>4. QED
            BY <3>1, <3>2, <3>3 DEF IInv
    <2>4. CASE /\ pc' = [pc EXCEPT ![w] = "done"]
               /\ ok' = [ok EXCEPT ![w] = FALSE]
               /\ UNCHANGED <<seedID, seed, cache, req, crashed>>
        BY <2>4 DEF IInv, TypeOK, CacheFaithful, Resolved, WritingFaithful, Answered, PC
    <2>5. QED
        BY <2>2, <2>3, <2>4
<1>3. QED
    BY <1>0, <1>1, <1>2, EpochNat

LEMMA ReadCacheIInv ==
    ASSUME IInv, NEW w \in Workers, ReadCache(w)
    PROVE  IInv'
<1>1. CASE OtherWriting(w)
    BY <1>1 DEF ReadCache, IInv, TypeOK, CacheFaithful, Resolved, WritingFaithful, Answered
<1>2. CASE ~OtherWriting(w) /\ cache[seedID[w]] # Absent
    <2>1. /\ pc' = [pc EXCEPT ![w] = "done"]
          /\ seed' = [seed EXCEPT ![w] = cache[seedID[w]]]
          /\ ok' = [ok EXCEPT ![w] = TRUE]
          /\ UNCHANGED <<cache, req, seedID, crashed>>
        BY <1>2 DEF ReadCache, CacheKey
    <2>2. cache[seedID[w]] = SeedOf(req[w]) /\ cache[seedID[w]] \in Seeds
        <3>1. cache[seedID[w]] = Beta[seedID[w]] /\ seedID[w] \in Blocks
            BY <1>2 DEF IInv, TypeOK, CacheFaithful
        <3>2. Beta[seedID[w]] = SeedOf(req[w])
            BY ResolvedSeed DEF ReadCache, IInv
        <3>3. QED
            BY <3>1, <3>2, SeederAssumption
    <2>3. QED
        BY <2>1, <2>2
           DEF IInv, TypeOK, CacheFaithful, Resolved, WritingFaithful, Answered, PC
<1>3. CASE ~OtherWriting(w) /\ cache[seedID[w]] = Absent
    <2>1. /\ pc' = [pc EXCEPT ![w] = "fetch"]
          /\ UNCHANGED <<seed, ok, cache, req, seedID, crashed>>
        BY <1>3 DEF ReadCache, CacheKey
    <2>2. QED
        BY <2>1 DEF ReadCache, IInv, TypeOK, CacheFaithful, Resolved, WritingFaithful,
                    Answered, PC
<1>4. QED
    BY <1>1, <1>2, <1>3

LEMMA FetchIInv ==
    ASSUME IInv, NEW w \in Workers, Fetch(w)
    PROVE  IInv'
<1>0. seedID[w] \in Blocks /\ Beta[seedID[w]] \in Seeds
    BY SeederAssumption DEF IInv, TypeOK
<1>1. CASE /\ seed' = [seed EXCEPT ![w] = Beta[seedID[w]]]
           /\ ok' = [ok EXCEPT ![w] = TRUE]
           /\ \/ /\ pc' = [pc EXCEPT ![w] = "writing"] /\ crashed' = FALSE
              \/ /\ pc' = pc /\ crashed' = TRUE
    <2>1. pc[w] = "fetch" /\ UNCHANGED <<cache, req, seedID>>
        BY DEF Fetch
    <2>2. QED
        BY <1>0, <1>1, <2>1
           DEF IInv, TypeOK, CacheFaithful, Resolved, WritingFaithful, Answered, PC
<1>2. CASE /\ pc' = [pc EXCEPT ![w] = "done"]
           /\ ok' = [ok EXCEPT ![w] = FALSE]
           /\ UNCHANGED <<seed, crashed>>
    <2>1. pc[w] = "fetch" /\ UNCHANGED <<cache, req, seedID>>
        BY DEF Fetch
    <2>2. QED
        BY <1>2, <2>1
           DEF IInv, TypeOK, CacheFaithful, Resolved, WritingFaithful, Answered, PC
<1>3. pc[w] = "fetch" /\ ~crashed
    BY DEF Fetch
<1>4. CASE /\ seed' = [seed EXCEPT ![w] = Beta[seedID[w]]]
           /\ ok' = [ok EXCEPT ![w] = TRUE]
           /\ IF OtherWriting(w)
              THEN crashed' = TRUE /\ UNCHANGED pc
              ELSE pc' = [pc EXCEPT ![w] = "writing"] /\ UNCHANGED crashed
    <2>1. CASE OtherWriting(w)
        BY <1>1, <1>4, <2>1
    <2>2. CASE ~OtherWriting(w)
        <3>1. pc' = [pc EXCEPT ![w] = "writing"] /\ crashed' = FALSE
            BY <1>3, <1>4, <2>2
        <3>2. QED
            BY <1>1, <1>4, <3>1
    <2>3. QED
        BY <2>1, <2>2
<1>5. QED
    BY <1>2, <1>4 DEF Fetch

LEMMA WriteCacheIInv ==
    ASSUME IInv, NEW w \in Workers, WriteCache(w)
    PROVE  IInv'
<1>1. /\ cache' = [cache EXCEPT ![seedID[w]] = seed[w]]
      /\ pc' = [pc EXCEPT ![w] = "done"]
      /\ UNCHANGED <<req, seedID, seed, ok, crashed>>
      /\ pc[w] = "writing"
    BY DEF WriteCache, CacheKey
<1>2. ok[w] /\ seed[w] = Beta[seedID[w]] /\ seed[w] = SeedOf(req[w])
    BY <1>1, ResolvedSeed DEF IInv, WritingFaithful
<1>3. CacheFaithful'
    BY <1>1, <1>2 DEF IInv, TypeOK, CacheFaithful
<1>4. QED
    BY <1>1, <1>2, <1>3
       DEF IInv, TypeOK, Resolved, WritingFaithful, Answered, PC

LEMMA NextIInv == IInv /\ [Next]_vars => IInv'
<1> SUFFICES ASSUME IInv, [Next]_vars PROVE IInv'
    OBVIOUS
<1>1. ASSUME NEW w \in Workers, NEW p \in Requests, Call(w, p) PROVE IInv'
    BY <1>1, CallIInv
<1>2. ASSUME NEW w \in Workers, Resolve(w) PROVE IInv'
    BY <1>2, ResolveIInv
<1>3. ASSUME NEW w \in Workers, ReadCache(w) PROVE IInv'
    BY <1>3, ReadCacheIInv
<1>4. ASSUME NEW w \in Workers, Fetch(w) PROVE IInv'
    BY <1>4, FetchIInv
<1>5. ASSUME NEW w \in Workers, WriteCache(w) PROVE IInv'
    BY <1>5, WriteCacheIInv
<1>6. ASSUME NEW w \in Workers, Return(w) PROVE IInv'
    BY <1>6 DEF Return, IInv, TypeOK, CacheFaithful, Resolved, WritingFaithful,
                Answered, PC
<1>7. CASE Restart
    BY <1>7 DEF Restart, IInv, TypeOK, CacheFaithful, Resolved, WritingFaithful,
                Answered, PC
<1>8. CASE UNCHANGED vars
    BY <1>8 DEF vars, IInv, TypeOK, CacheFaithful, Resolved, WritingFaithful,
                Answered
<1>9. QED
    BY <1>1, <1>2, <1>3, <1>4, <1>5, <1>6, <1>7, <1>8 DEF Next

-----------------------------------------------------------------------------
(* Invariants.                                                             *)

\* Every state of the seeder is well typed: in particular every seed block
\* GetBlockID resolves is a block of the repository.
THEOREM TypeCorrect == Spec => []TypeOK
<1>1. IInv => TypeOK
    BY DEF IInv
<1>2. QED
    BY <1>1, InitIInv, NextIInv, PTL DEF Spec

\* However the goroutines calling Generate interleave, on whichever forks,
\* and across crashes and restarts of the node, every seed in the map is
\* the beta of the block it is keyed by: only a successful GetBlockSummary
\* starts the deferred write, with the beta of that very block
\* (CacheFaithful, checked by seeder_safety).
THEOREM CacheFaithfulProof == Spec => []CacheFaithful
<1>1. IInv => CacheFaithful
    BY DEF IInv
<1>2. QED
    BY <1>1, InitIInv, NextIInv, PTL DEF Spec

\* Every Generate that returns without error returns the seed spec 4.3
\* defines for the block after its parentID, whatever the other callers on
\* other forks cached meanwhile (SeedCorrect, checked by seeder_safety).
THEOREM SeedCorrectProof == Spec => []SeedCorrect
<1>1. IInv => SeedCorrect
    BY SeedOfExpected, SeederAssumption DEF IInv, TypeOK, Answered, SeedCorrect
<1>2. QED
    BY <1>1, InitIInv, NextIInv, PTL DEF Spec

====
