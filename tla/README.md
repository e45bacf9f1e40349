# Formal models of AuthorityBlock

TLA+ models of the parts of AuthorityBlock (a proof-of-authority chain) that
hold state and change it. Each model comes with TLC configurations that check
it on small instances. Proofs checked by TLAPS cover the properties that matter
most, for every value of the constants.

## The system, as far as the sources go

| Part | Source | State | Operations | Interactions |
|---|---|---|---|---|
| Authority registry | `builtin/authority/types.go`, `builtin/authority_native.go` (Add/Revoke/Update/Get in `authority.go`, not under src/) | entries keyed by node master (endorsor, identity, active, prev, next); head and tail keys | native_add, native_revoke, native_get, native_first, native_next, native_isEndorsed, native_executor; Update from block packing | The Authority contract calls the natives, one clause at a time. The scheduler reads candidates. native_isEndorsed reads Params and balances. |
| Seeder | `poa/seed.go` | in-memory map: seed block ID → seed | Generate, NewSeeder | Called by block production and validation, from several goroutines. Reads the chain repository. |
| Scheduler V1/V2 | spec 4.2 (only `poa/proposer.go` is under src/) | proposer list, activity | Schedule, Updates, IsTheTime | Reads the registry and the seed. Writes activity back through Update. |
| Finality quality | `bft/persist.go` | block ID → uint32 (4 bytes, big endian) | saveQuality, loadQuality | BFT engine |
| Params | `builtin/params/*.go`, `builtin/params_native.go` | key → big integer | Get, Set, native_get, native_set | The executor sets values. The authority reads the endorsement. |
| Prototype | `builtin/prototype/prototype.go`, `builtin/prototype_native.go` | per contract: users, credit plan, sponsors, current sponsor | add/remove user, set credit plan, sponsor/unsponsor, select sponsor, user credit | Contract master calls; the runtime charges credit |
| Account cache | `state/cached_object.go` | per object: lazily opened storage trie, storage cache, code; process-wide ARC code cache keyed by code hash | GetStorage, GetCode, newCachedObject | State reads; several objects may stand for one address at different states |
| Debug API | `api/debug/debug.go` | none (paging cursor; replay position) | storageRangeAt, parseTarget, handleTxEnv, traceTransaction, debugStorage | HTTP; replays a block through the runtime |

Hard behaviours the code is exposed to:
- Goroutines sharing the seeder's unguarded map.
- Forks: seeds must follow the parent's own chain.
- Restarts that drop in-memory caches.
- Long sequences of registry operations on a linked list kept in storage.
- Storage that elides empty values, so an "empty" record and an absent one are the same.
- Numeric boundaries: epochs 0 and 1, uint32 block numbers, 4-byte encodings.

## Modules

### `Authority` (with `MCAuthority`, `AuthorityProofs`) and `AuthorityEndorsement` (with `MCAuthorityEndorsement`)

State:
- `entries`: the stored entry of every node master. The empty entry stands for an absent key, as the storage elides empty values.
- `head`, `tail`: the head and tail keys.
- `order`: a history variable, the node masters added and not revoked, in order of addition. It is used only to state and prove properties.

Actions: `native_add`, `native_revoke` and `Update`. Each is one atomic step, because the VM runs one clause at a time.
- `native_add` is Authority.Add behind its guard that the entry is empty. It links the new entry after the tail.
- `native_revoke` is Authority.Revoke behind its `listed` guard. It patches the neighbours and keeps the endorsor and identity, as `authority_test.go` expects.
- `Update` flips `active` of a listed entry.

Reads: `native_get`, `native_first` and `native_next`. They map nil to the zero address, as the natives do.

`Listed(n)` is "linked, or the head". `authority_test.go` expects a lone entry to be listed. The spec's "listed means linked" is checked separately, and fails.

`AuthorityEndorsement` composes the registry with the state that decides who may propose: `balance`, each endorsor's balance, and the Params contract, which is `Params` itself instantiated on its own variables (`store`, `plast`). So the threshold is kept as the RLP bytes that `native_set` writes, and it is read back through the decoder that `native_get` uses. The steps are:
- `RegistryStep`: any registry step.
- `SetEndorsement`: a governance clause that calls Params' `native_set` on `KeyProposerEndorsement`.
- `native_executor`: the Authority contract's Params read.
- `Transfer`: a change of an endorsor's balance.

`native_isEndorsed` is translated from `authority_native.go`. It returns false for an unlisted node master and reads the threshold only after that check. Otherwise it compares the balance with `>=`, and a threshold that does not decode fails the call. `Candidates` is `Authority.Candidates` from spec 4.1, which is not under src/: the walk from the head, filtered by the same comparison and cut at `MaxProposers`.

### `Seeder` (with `MCSeeder`, `SeederProofs`)

Every goroutine that calls `Generate` is a process with these steps:
1. `Call`.
2. `Resolve`: the epoch arithmetic and `GetBlockID` on the parent's chain. `GetBlockID` may fail.
3. `ReadCache`.
4. `Fetch`: `GetBlockSummary` and `Beta`, which may fail. On success it starts the deferred map write.
5. `WriteCache`: the write completes.
6. `Return`.

A Go map write is not atomic. The runtime aborts the process when another goroutine reads or writes the map during a write. The model therefore has a `crashed` flag and a `Restart` action, which makes the empty cache of `NewSeeder`. The chain is a constant tree: `Parent` and `Number`. `Ancestry(b)` is the walk from `b` up the `Parent` links, as a recursive function, and `AncestorAt(b, n)` is `GetBlockID`'s answer.

### `Prototype` (with `MCPrototype`, `PrototypeProofs`)

This module models the Prototype binding of one contract.

State:
- `master` and `plan`.
- `users`: the user objects, where the empty object stands for an absent key.
- `sponsors`: the sponsor flags.
- `cur`: the current sponsor.
- `now`: the block time.
- `ret`: the last boolean result a native returned. It is a record of the call name, the argument, the value, and a `tick` that flips on every call.

Actions: the native methods `native_setMaster`, `native_setCreditPlan`, `native_addUser`, `native_removeUser`, `native_sponsor`, `native_unsponsor` and `native_selectSponsor`. Also `SetUserCredit`, the runtime charging a user, clamped at 0 as the code does. Also `NewBlock`. Each native method is one step, with its early return as the `IF`. `setUserObject` keeps the storage's rule that an empty value is no value.

The history reads `native_balanceAtBlock` and `native_energyAtBlock` are modelled as well. `bal` is the contract's balance, set by `SetBalance`. `hist` is the chain's block summaries: `NewBlock` appends the balance and time it seals. `hret` is the last history read. Each read follows the code's chain of early returns:
- a block number above the head gives 0;
- a block older than `MaxStateHistory` gives 0;
- the head block gives the live value;
- any other block gives the sealed summary of that block (`BlockSummary`), and energy is taken at that block's own time.

### `DebugStorage` (with `MCDebugStorage`, `DebugStorageProofs`)

This module models `storageRangeAt` in `api/debug/debug.go`, with a client paging through one storage trie. The loop is split into its real steps:
- `Call`: a new iterator and an empty result.
- `LoopBody`: `i < maxResult && it.Next()` holds, and the entry is taken.
- `LoopExit`: the short-circuit means `it.Next()` is not called once `i` reaches `maxResult`.
- `After`: the extra `it.Next()` that sets `NextKey`.
- `Merge`: the client keeps the page and restarts from `NextKey`, or stops at nil.

Keys are numbers, visited in increasing order, as hashed trie keys are.

### `QualityLedger` (with `MCQualityLedger`, `QualityLedgerProofs`)

This module models `saveQuality` and `loadQuality` of `bft/persist.go`. The quality is encoded with `PutUint32`, big endian, and decoded with `Uint32Of`. Both are modelled by what they compute on bytes. `saved` is a history variable of the last quality saved under each block ID.

### `DebugReplay` (with `MCDebugReplay`, `DebugReplayProofs`)

This module models how the debug API reaches a clause: `parseTarget`, `handleTxEnv`, then `traceTransaction` or `debugStorage`. The variable `pc` names the step the handler is at.
- `Parse`: the target names the transaction by index, or by ID looked up with `GetTransactionMeta` on the chain of the block (`Metas`).
- `GetEnv`: the block lookup, the two range checks and the replay runtime. Each can end the request with its error.
- `TxLoop`: one iteration of `for i, tx := range txs`, including the `i > txIndex` break that ends in "early reverted".
- `ClauseLoop`: one iteration of `for txExec.HasNextClause()`. At the requested clause it hands over the runtime. Otherwise it runs the clause, which may revert or fail.
- `Finalize`: `txExec.Finalize` and the context check.
- `Trace` and `Storage`: the two users of the environment.

The runtime is not under src/. Its executor is modelled by what the handler relies on: `HasNextClause` is false once a clause has reverted, and every call may fail.

### `CachedObject` (with `MCCachedObject`, `CachedObjectProofs`)

This module models `cachedObject` of `state/cached_object.go`. Each object has a fixed storage root and code hash; `trie`, `storage` and `code` are its caches, and `codeCache` is the shared ARC cache.
- `GetStorage` is the hit (`StorageHit`) or the load (`StorageLoad`); a load opens the trie once (`OpenTrie`) and either caches the value or returns the error and caches nothing.
- `GetCode` reads `cache.code`, then `codeCache` under `CodeKey` (the code hash), then the store, which fills both.
- `Evict` is ARC dropping an entry at any time; `Renew` is `newCachedObject` making a fresh object.

Two objects share an address with different roots and hashes, so a cache keyed by address would mix them up.

### `ParamsRegister` and `Params` (with `MCParams`)

`ParamsRegister` is what the Params natives promise: an integer per key, 0 until set, with `native_executor` giving the low `AddrLen` bytes of the executor value. Any call may fail and change nothing.

`Params` models `params.go` and `params_native.go` over the raw bytes stored. `EncodeValue` is Set's encoder: nothing for zero, then `rlp.EncodeToBytes` of the big.Int (a value below 0x80 is its own byte, a larger one a string). `DecodeValue` is Get's decoder with rlp's canonical checks. `ToAddress` is `BytesToAddress(val.Bytes())`. `Bytes` and `Number` are `big.Int.Bytes` and `SetBytes`. The refinement mapping decodes every slot (`Decoded`), and `ImplementsRegister` is `ParamsRegister`'s `Spec` under it.

## Runs

| Run | Checks | Result |
|---|---|---|
| `authority_safety` (MCAuthorityEndorsement.cfg) | TypeOK, ListIntegrity, LinkedAsOrdered, CandidatesAreEndorsed | pass, about 110k states |
| `authority_zero_args` (MCAuthorityZeroArgs.cfg) | ListIntegrity, with the zero endorsor and identity allowed | violation: add, Update(false), add of the same node master again stores it with prev naming itself |
| `seeder_safety` (MCSeeder.cfg) | SeedCorrect, CacheFaithful | pass, about 60k states |
| `seeder_race` (MCSeederRace.cfg) | NoConcurrentMapAccess | violation: two goroutines overlap on the map |
| `prototype_results` (MCPrototype.cfg) | TypeOK, NativeResultIsChange, HistoryReadsSealed | pass, about 1.6M states |
| `prototype_genesis_time` (MCPrototypeGenesis.cfg) | NativeResultIsChange, with a chain starting at time 0 | violation: addUser returns true and adds nobody |
| `debug_paging` (MCDebugStorage.cfg) | PagingComplete, PagesDisjoint, PagingEnds | pass, 428 states |
| `quality_ledger` (MCQualityLedger.cfg) | LoadReturnsSaved | pass, 121 states |
| `debug_replay` (MCDebugReplay.cfg) | ReplayPositioned, EarlyRevertedMeansReverted | pass, 822 states |
| `debug_replay_txid` (MCDebugReplayTxID.cfg) | TracesRequestedTx | violation: target `b2/t1/0` traces `t2` |
| `cached_object` (MCCachedObject.cfg) | ReadsCorrect, CachesFaithful | pass, about 15k states |
| `params` (MCParams.cfg) | StoredDecodes, ImplementsRegister | pass, 981 states |

What the properties say:
- **ListIntegrity**: walking the list the way the contract does, from `native_first` through `native_next`, visits each listed node master exactly once and nothing else. The prev links mirror the walk, and head and tail are its ends.
- **LinkedAsOrdered**: the links are exactly those of the history of additions. Revocation never reorders the list, and a revoked entry keeps no link.
- **CandidatesAreEndorsed**: the registry's two views of who may propose agree, across any sequence of adds, revokes, threshold changes and transfers. Every candidate that block packing obtains from `Candidates`, with the threshold `native_get` reads, is accepted by `native_isEndorsed` without failing. Its endorsor, identity and active flag are those `native_get` reports. Unless the cap cut the list, every node master that `native_isEndorsed` accepts is a candidate.
- **SeedCorrect**: whatever the interleaving, every successful `Generate` returns the beta of the first block of the previous epoch on its own parent's chain.
- **CacheFaithful**: the cache only ever holds true betas.
- **NativeResultIsChange** (an action property): a boolean native that returns true has made the change it reports, as seen through `isUser`, `isSponsor` and `currentSponsor`. One that returns false has changed nothing.
- **HistoryReadsSealed** (an action property): `balanceAtBlock` and `energyAtBlock` never fail. They return 0 outside the history window, and otherwise the balance sealed at that block. For a past block, energy is computed at that block's time, not the current one.
- **PagingComplete**, **PagesDisjoint**, **PagingEnds**: a client that follows `NextKey` receives every key exactly once, and reaches a nil `NextKey`.
- **LoadReturnsSaved**: `loadQuality` returns the quality last saved under the block ID, or "not found".
- **ReplayPositioned**: when `handleTxEnv` hands over a runtime, every earlier transaction ran and was finalized. The target transaction ran exactly the clauses before the requested one, none reverted, and nothing after it ran.
- **EarlyRevertedMeansReverted**: "early reverted" is returned only when a clause of the target transaction before the requested one reverted.
- **TracesRequestedTx**: a target given by transaction ID positions the runtime in that transaction.
- **ReadsCorrect**: a successful `GetStorage` or `GetCode` returns the object's own value, never one cached for another state of the same account or for a failed load.
- **CachesFaithful**: the storage cache, `cache.code` and `codeCache` hold only true values.
- **StoredDecodes**: every raw value the natives write decodes, so reads never fail on it.
- **ImplementsRegister**: the natives refine the integer register.

Bounds:
- Authority: three node masters and two endorsors. This is enough for middle, head and tail removals, and for an entry alone in the list. Balances 0 and 1 and thresholds 0 and 1 put every balance on both sides of the threshold. A cap of two proposers cuts the list when all three are endorsed.
- Seeder: two goroutines, and a chain forked at height 1 with an epoch of 2. The requests fall in epoch 1 (the empty seed) and in epoch 2 on both forks. The two seed blocks share a height and have different betas, so a cache keyed by height would be caught.
- Prototype: one user, two sponsors, credit 0..1, balances 0..1, block times up to 3 and a history window of 1 block. This is enough for a user added, charged, removed and re-added, and for a sponsor selected and then unsponsored. A history of three sealed blocks puts a read below the window, in it, at the head and above it.
- Debug: every subset of four keys, and page sizes 1 to 3. This covers pages that end exactly at the last key, one before it, and past it.
- Debug replay: blocks of one and two transactions of two clauses each, a block that does not exist, indices 0 to 2 and clauses 0 to 2 (one past the end), a transaction ID held by an earlier block of the chain. Every revert, failure and cancellation point is a branch.
- Cached object: three objects, two of them the same address at different states, one with neither storage nor code; two keys, one of them absent in one trie.
- Params: one-byte addresses and two-byte values, so that truncation happens; the values 0, 1, 127, 128, 255, 256 and 4660 sit at every edge of the encoding.
- Quality: the uint32 boundaries 0, 255, 256, 65535, 65536, 2^24 - 1, 2^24 and 2^31 - 1, and two block IDs. The proof covers every uint32.

Fairness: only `DebugStorage` assumes any, `WF_vars(Next)`. `storageRangeAt` is a sequential loop, and the client is assumed to keep calling while `NextKey` is not nil. The other modules check safety only.

Deadlock checking is off for `authority_zero_args`, `debug_paging` and the `debug_replay` runs:
- In `authority_zero_args`, once every node master has been added and revoked, no registry action is enabled. A revoked entry is not empty, so it cannot be added again. (`authority_safety` checks deadlock: reads, threshold changes and transfers stay enabled.)
- In `debug_paging`, the client stops at a nil `NextKey`.
- In `debug_replay`, the handler serves one request and stops at `done`.

## Proofs

- `AuthorityProofs.TypeCorrect`: `Spec => []TypeOK` under `AuthorityAssumption`. It rests on lemmas about `RemoveAt` and `Forget`, the sequence operators of the history.
- `AuthorityProofs.LinkedCorrect`: `ZeroAddress \notin Endorsors => (Spec => []LinkedAsOrdered)`.
  - `LinkedAsOrdered` is not inductive alone. A step of Add needs to know that the node master added is not already in the history: its entry is empty, and every entry in the history has a non-zero endorsor (`OrderEndorsed`). A step of Revoke needs the history to hold it once (`OrderInjective`).
  - The invariant `IInv` is `TypeOK /\ LinkedAsOrdered /\ OrderInjective /\ OrderEndorsed`. It was checked with TLC as an invariant of the `MCAuthority` instance before it was proved.
  - One lemma per action shows that the action preserves `IInv`. The Revoke lemma goes index by index: before the removed position, its predecessor, its successor, and after it.
  - The zero-endorsor hypothesis is necessary: `authority_zero_args` is the counterexample without it.
- `AuthorityProofs.ComposedTypeCorrect` and `ComposedLinkedCorrect`: the same two results for the registry inside `AuthorityEndorsement` (`ESpec`). The lemma `OtherStepsKeepRegistry` shows that a threshold change, a Params read and a transfer leave the registry's variables unchanged, so each composed step is a registry step or a registry stutter.
- `QualityLedgerProofs.LoadCorrect`: `Spec => []LoadReturnsSaved` for every uint32 quality. Its lemma `RoundTrip` shows that `Uint32Of(PutUint32(q)) = q`.

- `CachedObjectProofs.ReadsCorrectProof`: `Spec => []ReadsCorrect` under `CachedObjectAssumption`. A hit returns what a cache holds, so `ReadsCorrect` is not inductive alone. The invariant `IInv` is `TypeOK /\ CachesFaithful /\ ReadsCorrect`: the caches hold only true values. One lemma per action shows it preserved; the load and code lemmas first prove a generic step (whatever is cached is true, whatever is returned is right) and then instantiate it per branch.

- `CachedObjectProofs.CachesFaithfulProof`: `Spec => []CachesFaithful`, from the same `IInv`.
- `DebugReplayProofs.ReplayPositionedProof` and `EarlyRevertedProof`: `Spec => []ReplayPositioned` and `Spec => []EarlyRevertedMeansReverted`, for every chain and every request, under `DebugReplayAssumption` (the transactions of a block are a sequence, clause counts and indices are naturals).
  - The properties speak only of the moment the runtime is handed over, so they are not inductive. `IInv` describes every point of the two loops:
    - at the head of the transaction loop (`AtTx`), the earlier transactions are finalized and nothing of the current one ran;
    - inside a transaction (`InTx`), exactly the clauses `0 .. counter - 1` ran, and `reverted` is true exactly when one of them is recorded as reverted;
    - the clause loop ends only when the executor has no clause left (`AtFinalize`).
  - `AtFinalize` and `InRange` carry the key argument for "early reverted". In the target transaction the counter never passes the requested clause, and the requested clause is below the clause count. So finalizing the target is possible only after a revert.
  - `IInv` was checked with TLC on the `debug_replay` instance before it was proved. There is one lemma per action. The lemma `RanAdd` (which clauses of a transaction ran after one more) is stated over an operator `RanIn`, so that the provers can instantiate it with the model's variables.

- `PrototypeProofs.TypeCorrect`: `Spec => []TypeOK` for the Prototype binding. The lemma `HistoryReadType` shows that a history read of any block returns a value of the right type, whether the block is the current one or a sealed entry of `hist` (by `ElementOfSeq` of SequenceTheorems).
- `PrototypeProofs.ResultIsChangeProof`: `0 \notin GenesisTimes => (Spec => NativeResultIsChange)`.
  - The step formula `ResultIsChange` needs `TypeOK` and one more invariant, `NowPositive` (`now # 0`): the block time is what makes a stored user object non-empty, so that adding a user changes the state. Both are proved invariant first (`NowPositiveInv`).
  - The lemma `BoolNativeStep` is the generic step: a native that returns `v` and changes the state exactly when `v` keeps to the property. `ResultStep` applies it to each boolean native.
  - The hypothesis is necessary: `prototype_genesis_time` is the counterexample without it.
- `PrototypeProofs.HistoryReadsSealedProof`: `Spec => HistoryReadsSealed`, from `TypeOK` alone. The lemma `HistoryReadValue` splits on the block read: outside the window, the current block, a sealed block inside the window.
- `SeederProofs.TypeCorrect`, `CacheFaithfulProof` and `SeedCorrectProof`: `Spec => []TypeOK`, `Spec => []CacheFaithful` and `Spec => []SeedCorrect`, for any workers and any chain, under `SeederAssumption` and `AncestryAssumption`.
  - `CacheFaithful` is not inductive alone: `WriteCache` writes the seed a worker fetched earlier, and another worker may have run in between. `SeedCorrect` speaks only of a finished worker. The invariant `IInv` is `TypeOK /\ CacheFaithful /\ Resolved /\ WritingFaithful /\ Answered`:
    - `Resolved`: a worker past `Resolve` is in an epoch above 1 and holds the ancestor of its parent at the height the epoch names;
    - `WritingFaithful`: a worker about to write holds the beta of the block it writes under;
    - `Answered`: a finished, successful worker holds `SeedOf` of its request.
  - `AncestryAssumption` says that the `k`-th step of `Ancestry(b)` is a block of height `Number[b] - k`. It follows from `SeederAssumption` (a parent is one lower) by induction on `k`, which the installed provers cannot instantiate; it is a constant formula, and TLC evaluates it on every run of `MCSeeder`.
  - The lemma `SeedOfExpected` shows that the seed `SeedOf` names is the one `ExpectedSeed` describes: the ancestor at a height is unique, because heights fall by one along the walk.
  - `IInv` was checked with TLC on `MCSeeder` before it was proved. There is one lemma per action.
- `DebugStorageProofs.PagingCompleteProof` and `PagesDisjointProof`: `Spec => []PagingComplete` and `Spec => []PagesDisjoint`, for every storage and every page size.
  - The properties speak only of the end and of the merge, so they are not inductive. `Paged` describes every point of a client's paging:
    - at every point before the end, the keys received are exactly the keys before `keyStart`;
    - inside the loop, the page holds exactly the keys from `keyStart` to the iterator;
    - at the merge, it holds exactly the keys from `keyStart` to just before `NextKey`, and `NextKey` is a key of the storage.
  - The lemma `NextOfLeast` says that the key `it.Next()` moves to is the least one still ahead. It rests on a conjunct of `DebugStorageAssumption`: every nonempty set of keys has a least element. That is true of every subset of `Nat`, and TLC evaluates it on every run. It is an assumption because its proof is an induction, which the installed provers cannot instantiate.
  - `IInv == TypeInv /\ Paged` was checked with TLC on `debug_paging` before it was proved.

Some things are out of TLAPS's reach and stay with TLC:
- liveness (`PagingEnds`);
- what the recursive walk `ContractWalk` computes (`ListIntegrity`);
- the induction behind `AncestryAssumption`, which TLC evaluates instead;
- `CandidatesAreEndorsed`, which reads the registry through the recursive `ContractWalk`;
- the round trip of the params encoding, which needs induction over the bytes of a number (`ImplementsRegister`, `StoredDecodes`).

## Findings

- The spec defines listed as linked, but `native_get` returns `Authority.Get`'s listed, which `authority_test.go` expects to be true for an entry alone in the list, with neither prev nor next. This is a divergence between the spec's wording and the code and its tests; it is recorded here and not checked by a run.
- Zero endorsor and identity are accepted by `native_add`. After deactivation, such an entry is elided from storage while it is the head and tail, so `native_add` accepts the same node master again and stores it with `prev` naming itself: the walk from `native_first` still ends, but the prev links no longer mirror it and the node master is added twice (`authority_zero_args`).
- The seeder's map is unguarded. Concurrent `Generate` calls can abort the node (`seeder_race`). The spec requires mutual exclusion.
- `parseTarget` resolves a transaction ID to its index in the block that holds it, which may be an ancestor of the requested block. The index is then used in the requested block, so another transaction is traced (`debug_replay_txid`, `api/debug/debug.go:235`).
- On a chain whose block time is 0, `native_addUser` returns true and logs "added". The user object `{0, 0}` is empty, though, so nothing is stored (`prototype_genesis_time`).

## Not modelled

- The V1/V2 proposer scheduler: only `poa/proposer.go` is under src/.
- The Prototype natives `native_userCredit`, `native_master`, `native_creditPlan`, `native_hasCode` and `native_storageFor`. They read state without changing it, and no property of the model depends on their answers.
- The HTTP types, genesis, transactions, the node command and p2p. These are pure I/O or data conversion, with no state changes worth checking.

See PROJECT.json for each part and the reason.

## Plan

1. The V2 scheduler, modelled from the spec, over the registry and the seeder.
2. An abstract ordered-set specification refined by `Authority`.
3. Refinement proofs: `Params` implements `ParamsRegister` needs the encoding's round trip, which is an induction. A proof would need a non-recursive form of the decoder.
4. `ListIntegrity` and `CandidatesAreEndorsed` need a non-recursive form of the contract's walk, such as the history `order` read as the walk.
