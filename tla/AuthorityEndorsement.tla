------------------------- MODULE AuthorityEndorsement -------------------------
(***************************************************************************)
(* The authority registry composed with the two pieces of state that       *)
(* decide whether a listed node master may propose: its endorsor's balance *)
(* and the endorsement threshold the Params contract stores under          *)
(* ablock.KeyProposerEndorsement.                                          *)
(*                                                                         *)
(* The Authority contract asks native_isEndorsed                           *)
(* (builtin/authority_native.go); block packing and validation ask         *)
(* Authority.Candidates (spec 4.1; builtin/authority/authority.go is not   *)
(* among the sources) with the threshold read from Params.  Between two    *)
(* such questions any number of clauses run: registry natives, a           *)
(* governance clause that sets the threshold through Params' native_set,   *)
(* and transfers that change an endorsor's balance.  Each clause is one    *)
(* atomic step (spec 5).                                                   *)
(*                                                                         *)
(* The Params contract is the module Params itself, instantiated on its    *)
(* own variables, so the threshold is stored as the RLP bytes native_set   *)
(* writes and read back through the same decoding native_get uses.         *)
(***************************************************************************)
EXTENDS Authority

CONSTANTS
    Keys,                    \* the Params keys
    Values,                  \* thresholds a governance clause may set
    ExecutorKey,             \* ablock.KeyExecutorAddress
    KeyProposerEndorsement,  \* ablock.KeyProposerEndorsement
    AddrLen,                 \* bytes of an address
    ValueLen,                \* bytes of a uint256
    Balances,                \* the balances an endorsor may have
    MaxProposers             \* the cap block packing passes to Candidates

ASSUME EndorsementAssumption ==
    /\ KeyProposerEndorsement \in Keys
    /\ Balances \subseteq Nat /\ 0 \in Balances
    /\ MaxProposers \in Nat \ {0}

VARIABLES
    balance,   \* endorsor -> its balance (state.GetBalance)
    store,     \* the Params contract's raw storage
    plast      \* the last Params call

P == INSTANCE Params WITH store <- store, last <- plast

evars == <<vars, balance, store, plast>>

-----------------------------------------------------------------------------
(* Reads.                                                                  *)

\* Params.Get(KeyProposerEndorsement): the decoded threshold, and whether
\* the raw value decoded (an error makes the native panic).
Endorsement == P!DecodeValue(store[KeyProposerEndorsement])

\* A native_isEndorsed that compares with > instead of >=.
native_isEndorsedStrict(n) ==
    IF ~Listed(n) THEN [ok |-> TRUE, val |-> FALSE]
    ELSE [ok |-> Endorsement.ok,
          val |-> Endorsement.ok /\ balance[entries[n].endorsor] > Endorsement.val]

\* native_isEndorsed: false for an unlisted node master; otherwise the
\* endorsor's balance compared with the threshold, which is read only now
\* (so a threshold that does not decode fails the call only for a listed
\* node master).  `ok` is FALSE where the native panics.
native_isEndorsed(n) ==
    IF ~Listed(n) THEN [ok |-> TRUE, val |-> FALSE]
    ELSE [ok |-> Endorsement.ok,
          val |-> Endorsement.ok /\ balance[entries[n].endorsor] >= Endorsement.val]

\* Authority.Candidates(threshold, max) (spec 4.1): the list walked from
\* the head in link order, keeping the entries whose endorsor's balance is
\* at least the threshold, and stopping once max of them are collected.
Candidates(threshold, max) ==
    LET Q == SelectSeq(ContractWalk,
                       LAMBDA n : balance[entries[n].endorsor] >= threshold)
        L == IF Len(Q) < max THEN Len(Q) ELSE max
    IN  [i \in 1..L |-> [nodeMaster |-> Q[i],
                         endorsor |-> entries[Q[i]].endorsor,
                         identity |-> entries[Q[i]].identity,
                         active |-> entries[Q[i]].active]]

-----------------------------------------------------------------------------
(* Steps.                                                                  *)

\* A registry native (native_add, native_revoke) or Authority.Update.
RegistryStep ==
    /\ Next
    /\ UNCHANGED <<balance, store, plast>>

\* The executor's approved proposal calls Params' native_set on the
\* endorsement key.
SetEndorsement(v) ==
    /\ P!NativeSet(KeyProposerEndorsement, v)
    /\ UNCHANGED <<vars, balance>>

\* The Authority contract's native_executor: Params.Get of the executor
\* key as an address, exactly as the Params contract's own native_executor.
native_executor ==
    /\ P!NativeExecutor
    /\ UNCHANGED <<vars, balance>>

\* A clause moves value to or from an endorsor.
Transfer(a, b) ==
    /\ balance' = [balance EXCEPT ![a] = b]
    /\ UNCHANGED <<vars, store, plast>>

EInit ==
    /\ Init
    /\ balance \in [Address -> Balances]
    /\ P!Init

ENext ==
    \/ RegistryStep
    \/ \E v \in Values : SetEndorsement(v)
    \/ native_executor
    \/ \E a \in Endorsors, b \in Balances : Transfer(a, b)

ESpec == EInit /\ [][ENext]_evars

-----------------------------------------------------------------------------
(* Properties.                                                             *)

\* The two views of who may propose agree after any sequence of adds,
\* revokes, threshold changes and transfers: every candidate block packing
\* obtains from Candidates, with the threshold native_get reads, is one
\* that native_isEndorsed answers true for, without failing, and carries
\* the endorsor, identity and active flag native_get reports; and unless
\* the cap cut the list, every node master native_isEndorsed accepts is a
\* candidate.
CandidatesAreEndorsed ==
    LET C == Candidates(Endorsement.val, MaxProposers) IN
    /\ \A i \in 1..Len(C) :
          LET n == C[i].nodeMaster IN
          /\ native_isEndorsed(n) = [ok |-> TRUE, val |-> TRUE]
          /\ C[i].endorsor = native_get(n).endorsor
          /\ C[i].identity = native_get(n).identity
          /\ C[i].active = native_get(n).active
    /\ Len(C) < MaxProposers =>
          \A n \in NodeMasters :
             native_isEndorsed(n).val => \E i \in 1..Len(C) : C[i].nodeMaster = n

=============================================================================
