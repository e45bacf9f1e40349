------------------------------- MODULE Seeder -------------------------------
(***************************************************************************)
(* The seeder of the V2 scheduler (poa/seed.go): Generate(parentID) finds  *)
(* the block at the start of the previous epoch on the chain of parentID   *)
(* and returns its beta, caching it in a map keyed by that block's ID.     *)
(*                                                                         *)
(* Block production and block validation call Generate from different      *)
(* goroutines on one Seeder (spec 5), and the map has no lock.  Each       *)
(* Generate is a process of its own whose steps interleave with the        *)
(* others': resolving the seed block, reading the map, fetching the        *)
(* summary, writing the map.  A Go map write is not atomic: the runtime    *)
(* marks the map while it writes and kills the process ("concurrent map   *)
(* read and map write", "concurrent map writes") when another goroutine    *)
(* touches it meanwhile, so a write is a begin step and an end step.  The  *)
(* cache lives in memory only: a restarted node starts with an empty one.  *)
(***************************************************************************)
EXTENDS Naturals

CONSTANTS
    Workers,        \* goroutines that call Generate
    Blocks,         \* block IDs known to the chain repository
    Parent,         \* Parent[b]: the parent of block b (the genesis is its own)
    Number,         \* Number[b]: block.Number(b)
    Beta,           \* Beta[b]: the beta recorded in the header of b
    Seeds,          \* seed values (the betas, and the empty seed)
    EmptySeed,      \* the nil seed of the first two epochs
    EpochInterval,  \* epochInterval (ablock.SeederInterval)
    Requests,       \* parent IDs that Generate is called with
    Absent          \* a cache slot with nothing in it

ASSUME SeederAssumption ==
    /\ EpochInterval \in Nat \ {0}
    /\ Number \in [Blocks -> Nat]
    /\ Parent \in [Blocks -> Blocks]
    /\ \A b \in Blocks : Number[b] > 0 => Number[Parent[b]] = Number[b] - 1
    /\ Beta \in [Blocks -> Seeds]
    /\ EmptySeed \in Seeds
    /\ Requests \subseteq Blocks
    /\ Absent \notin Seeds

\* Where a Generate call is: idle, about to resolve the seed block, about
\* to read the cache, about to fetch the summary, between the start and the
\* end of its map write, or returned.
PC == {"idle", "resolve", "read", "fetch", "writing", "done"}

VARIABLES
    cache,    \* seeder.cache: seed block ID -> seed, Absent when not cached
    pc,       \* pc[w]: the step Generate of worker w takes next
    req,      \* req[w]: the parentID worker w asked for
    seedID,   \* seedID[w]: the seed block ID worker w resolved
    seed,     \* seed[w]: the seed worker w holds (fetched or returned)
    ok,       \* ok[w]: err == nil for the call of worker w
    crashed   \* the Go runtime has killed the process

vars == <<cache, pc, req, seedID, seed, ok, crashed>>

-----------------------------------------------------------------------------
(* The chain repository (external): repo.NewChain(id).GetBlockID(num).     *)

\* The ancestors of b: Ancestry(b)[k] is the block k links of Parent below b.
Ancestry(b) ==
    LET A[k \in 0..Number[b]] == IF k = 0 THEN b ELSE Parent[A[k - 1]]
    IN  A

\* The ancestor of b at height num (num <= Number[b]).
AncestorAt(b, num) == Ancestry(b)[Number[b] - num]

\* The walk GetBlockID makes stays on the chain: the k-th ancestor of a
\* block is a block of the repository, k heights below it.  This follows
\* from SeederAssumption by induction on k; it is stated, and evaluated by
\* TLC on every run, because the proofs cannot carry out that induction.
ASSUME AncestryAssumption ==
    \A b \in Blocks : \A k \in 0..Number[b] :
        /\ Ancestry(b)[k] \in Blocks
        /\ Number[Ancestry(b)[k]] = Number[b] - k

\* Some other worker is between the start and the end of a map write.
OtherWriting(w) == \E v \in Workers \ {w} : pc[v] = "writing"

\* A cache keyed by the seed block's number instead of its ID: the blocks at
\* one height on different forks share a slot.
CacheKeyByNumber(w) == CHOOSE b \in Blocks : Number[b] = Number[seedID[w]]

\* The map key of worker w's seed: seedID.
CacheKey(w) == seedID[w]

-----------------------------------------------------------------------------
(* Generate, one step at a time.                                           *)

\* A caller asks for the seed of the block after parentID p.
Call(w, p) ==
    /\ ~crashed
    /\ pc[w] = "idle"
    /\ pc' = [pc EXCEPT ![w] = "resolve"]
    /\ req' = [req EXCEPT ![w] = p]
    /\ UNCHANGED <<cache, seedID, seed, ok, crashed>>

\* blockNum := Number(parentID) + 1; epoch := blockNum / epochInterval.
\* epoch <= 1: the empty seed, no error.  Otherwise GetBlockID of
\* (epoch - 1) * epochInterval on the parent's chain, which may fail.
Resolve(w) ==
    LET epoch == (Number[req[w]] + 1) \div EpochInterval IN
    /\ ~crashed
    /\ pc[w] = "resolve"
    /\ IF epoch <= 1
       THEN /\ pc' = [pc EXCEPT ![w] = "done"]
            /\ seed' = [seed EXCEPT ![w] = EmptySeed]
            /\ ok' = [ok EXCEPT ![w] = TRUE]
            /\ UNCHANGED seedID
       ELSE \/ /\ seedID' = [seedID EXCEPT
                     ![w] = AncestorAt(req[w], (epoch - 1) * EpochInterval)]
               /\ pc' = [pc EXCEPT ![w] = "read"]
               /\ UNCHANGED <<seed, ok>>
            \/ /\ pc' = [pc EXCEPT ![w] = "done"]
               /\ ok' = [ok EXCEPT ![w] = FALSE]
               /\ UNCHANGED <<seedID, seed>>
    /\ UNCHANGED <<cache, req, crashed>>

\* `if v, ok := seeder.cache[seedID]; ok { return v, nil }`: a read while
\* another goroutine writes kills the process.
ReadCache(w) ==
    /\ ~crashed
    /\ pc[w] = "read"
    /\ IF OtherWriting(w)
       THEN /\ crashed' = TRUE
            /\ UNCHANGED <<pc, seed, ok>>
       ELSE /\ IF cache[CacheKey(w)] # Absent
               THEN /\ pc' = [pc EXCEPT ![w] = "done"]
                    /\ seed' = [seed EXCEPT ![w] = cache[CacheKey(w)]]
                    /\ ok' = [ok EXCEPT ![w] = TRUE]
               ELSE /\ pc' = [pc EXCEPT ![w] = "fetch"]
                    /\ UNCHANGED <<seed, ok>>
            /\ UNCHANGED crashed
    /\ UNCHANGED <<cache, req, seedID>>

\* A deferred write without its `if err == nil`: a failed lookup caches
\* the nil seed.
FetchCachingErrors(w) ==
    /\ ~crashed
    /\ pc[w] = "fetch"
    /\ \E fail \in BOOLEAN :
          /\ seed' = [seed EXCEPT ![w] = IF fail THEN EmptySeed ELSE Beta[seedID[w]]]
          /\ ok' = [ok EXCEPT ![w] = ~fail]
          /\ IF OtherWriting(w)
             THEN /\ crashed' = TRUE
                  /\ UNCHANGED pc
             ELSE /\ pc' = [pc EXCEPT ![w] = "writing"]
                  /\ UNCHANGED crashed
    /\ UNCHANGED <<cache, req, seedID>>

\* GetBlockSummary(seedID) and Header.Beta(), then the deferred write of
\* the cache, which starts only when err == nil.
Fetch(w) ==
    /\ ~crashed
    /\ pc[w] = "fetch"
    /\ \/ /\ seed' = [seed EXCEPT ![w] = Beta[seedID[w]]]
          /\ ok' = [ok EXCEPT ![w] = TRUE]
          /\ IF OtherWriting(w)
             THEN /\ crashed' = TRUE
                  /\ UNCHANGED pc
             ELSE /\ pc' = [pc EXCEPT ![w] = "writing"]
                  /\ UNCHANGED crashed
       \/ /\ pc' = [pc EXCEPT ![w] = "done"]
          /\ ok' = [ok EXCEPT ![w] = FALSE]
          /\ UNCHANGED <<seed, crashed>>
    /\ UNCHANGED <<cache, req, seedID>>

\* The map write completes: seeder.cache[seedID] = seed; Generate returns.
WriteCache(w) ==
    /\ ~crashed
    /\ pc[w] = "writing"
    /\ cache' = [cache EXCEPT ![CacheKey(w)] = seed[w]]
    /\ pc' = [pc EXCEPT ![w] = "done"]
    /\ UNCHANGED <<req, seedID, seed, ok, crashed>>

\* The caller takes the result.
Return(w) ==
    /\ ~crashed
    /\ pc[w] = "done"
    /\ pc' = [pc EXCEPT ![w] = "idle"]
    /\ UNCHANGED <<cache, req, seedID, seed, ok, crashed>>

\* The node is started again after the runtime killed it: NewSeeder makes
\* an empty cache and no call is running.
Restart ==
    /\ crashed
    /\ cache' = [b \in Blocks |-> Absent]
    /\ pc' = [w \in Workers |-> "idle"]
    /\ crashed' = FALSE
    /\ UNCHANGED <<req, seedID, seed, ok>>

-----------------------------------------------------------------------------

Init ==
    /\ cache = [b \in Blocks |-> Absent]
    /\ pc = [w \in Workers |-> "idle"]
    /\ req \in [Workers -> Requests]
    /\ seedID \in [Workers -> Blocks]
    /\ seed = [w \in Workers |-> EmptySeed]
    /\ ok = [w \in Workers |-> TRUE]
    /\ crashed = FALSE

Next ==
    \/ \E w \in Workers :
          \/ \E p \in Requests : Call(w, p)
          \/ Resolve(w)
          \/ ReadCache(w)
          \/ Fetch(w)
          \/ WriteCache(w)
          \/ Return(w)
    \/ Restart

Spec == Init /\ [][Next]_vars

-----------------------------------------------------------------------------
(* Properties.                                                             *)

TypeOK ==
    /\ cache \in [Blocks -> Seeds \cup {Absent}]
    /\ pc \in [Workers -> PC]
    /\ req \in [Workers -> Requests]
    /\ seedID \in [Workers -> Blocks]
    /\ seed \in [Workers -> Seeds]
    /\ ok \in [Workers -> BOOLEAN]
    /\ crashed \in BOOLEAN

\* The seed spec 4.3 promises for the block after p: empty in epochs 0 and
\* 1, else the beta of the block at the first height of the previous epoch
\* among the ancestors of p.
ExpectedSeed(p) ==
    LET epoch == (Number[p] + 1) \div EpochInterval
        sb    == CHOOSE b \in Blocks :
                     /\ Number[b] = (epoch - 1) * EpochInterval
                     /\ \E k \in 0..Number[p] : Ancestry(p)[k] = b
    IN  IF epoch <= 1 THEN EmptySeed ELSE Beta[sb]

\* The seed Generate computes for the block after p when nothing is cached:
\* empty in epochs 0 and 1, else the beta of the block GetBlockID finds.
SeedOf(p) ==
    LET epoch == (Number[p] + 1) \div EpochInterval
    IN  IF epoch <= 1 THEN EmptySeed
        ELSE Beta[AncestorAt(p, (epoch - 1) * EpochInterval)]

\* Whatever the interleaving of callers on different forks, every Generate
\* that returns without error returns the seed of its own parent's chain:
\* a value another goroutine cached for another fork is never returned.
SeedCorrect ==
    \A w \in Workers :
        pc[w] = "done" /\ ok[w] => seed[w] = ExpectedSeed(req[w])

\* Every seed in the cache is the beta of the block it is keyed by: no
\* failed lookup leaves an entry behind.
CacheFaithful ==
    \A b \in Blocks : cache[b] # Absent => cache[b] = Beta[b]

\* Spec 4.3 and 9: the cache must be protected by mutual exclusion, so
\* concurrent validation never has the runtime kill the process.
NoConcurrentMapAccess == ~crashed

=============================================================================
