------------------------------- MODULE Params -------------------------------
(***************************************************************************)
(* The governance parameters (builtin/params/params.go) and the natives of *)
(* the Params contract (builtin/params_native.go).                         *)
(*                                                                         *)
(* A parameter is stored in the contract's account storage under its key   *)
(* as the RLP encoding of a big.Int, and a zero value is stored as nothing *)
(* (the empty raw value deletes the slot).  The raw storage is modelled as *)
(* the byte sequences the code writes; the encoding and decoding follow    *)
(* rlp's rules for big.Int, including its canonical-form checks.  Values   *)
(* are those the ABI decoder gives for a uint256 (0 .. 256^ValueLen - 1).  *)
(* state.EncodeStorage / DecodeStorage are not under src/: they write the  *)
(* raw value, and read it or fail with the trie's error.  A native that    *)
(* errs panics, which fails the call; so does running out of gas.          *)
(***************************************************************************)
EXTENDS Naturals, Sequences, SequencesExt

CONSTANTS
    Keys,         \* the parameter keys
    Values,       \* the values a caller may pass to native_set
    ExecutorKey,  \* ablock.KeyExecutorAddress
    AddrLen,      \* bytes of an address (20)
    ValueLen      \* bytes of a uint256 (32)

ASSUME ParamsAssumption ==
    /\ ExecutorKey \in Keys
    /\ AddrLen \in Nat \ {0} /\ ValueLen \in 1..55
    /\ Values \subseteq 0..(256 ^ ValueLen - 1)

VARIABLES
    store,   \* key -> the raw bytes in the contract's storage (<<>> if none)
    last     \* the last call: op, key, ok, value returned, tick

vars == <<store, last>>

-----------------------------------------------------------------------------

\* big.Int.Bytes: the big-endian bytes of n, without leading zeros.
Bytes[n \in Nat] == IF n = 0 THEN <<>> ELSE Append(Bytes[n \div 256], n % 256)

\* big.Int.SetBytes: the number a big-endian byte sequence stands for.
Number(s) == FoldLeft(LAMBDA acc, b : acc * 256 + b, 0, s)

\* Set's encoder with a value stored as 32 fixed bytes (Bytes32) instead
\* of its minimal big-endian form.
EncodeFixedWidth(v) ==
    IF v = 0 THEN <<>>
    ELSE <<128 + ValueLen>> \o [j \in 1..(ValueLen - Len(Bytes[v])) |-> 0] \o Bytes[v]

\* Set's encoder taking 0x80 itself for a one-byte value.
EncodeValueSingleByte128(v) ==
    IF v = 0 THEN <<>>
    ELSE IF v <= 128 THEN <<v>>
    ELSE <<128 + Len(Bytes[v])>> \o Bytes[v]

\* Set's encoder: nothing for zero, otherwise rlp.EncodeToBytes of the
\* big.Int: a value below 0x80 is its own byte, a larger one the string
\* header 0x80 + length and then its bytes.
EncodeValue(v) ==
    IF v = 0 THEN <<>>
    ELSE IF v < 128 THEN <<v>>
    ELSE <<128 + Len(Bytes[v])>> \o Bytes[v]

\* Get's decoder: nothing reads as 0; otherwise rlp.DecodeBytes into a
\* big.Int, which accepts one value and no trailing bytes, and refuses a
\* one-byte string below 0x80 (non-canonical size) and a leading zero byte
\* (non-canonical integer).
DecodeValue(raw) ==
    IF raw = <<>> THEN [ok |-> TRUE, val |-> 0]
    ELSE IF raw[1] < 128
    THEN [ok |-> Len(raw) = 1, val |-> raw[1]]
    ELSE LET n == raw[1] - 128
             body == SubSeq(raw, 2, Len(raw))
         IN [ok |-> /\ raw[1] <= 183
                    /\ Len(body) = n
                    /\ n = 1 => body[1] >= 128
                    /\ n > 0 => body[1] # 0,
             val |-> Number(body)]

\* ablock.BytesToAddress(val.Bytes()): the last AddrLen bytes, as a number.
ToAddress(v) ==
    LET b == Bytes[v]
    IN Number(IF Len(b) > AddrLen THEN SubSeq(b, Len(b) - AddrLen + 1, Len(b)) ELSE b)

\* A call returns (`tick` flips on every call).
Answer(op, k, ok, v) ==
    last' = [op |-> op, key |-> k, ok |-> ok, val |-> v, tick |-> ~last.tick]

\* UseGas runs out, or DecodeStorage cannot read the storage: the native
\* panics and the call fails.
CallFails(op, k) ==
    /\ Answer(op, k, FALSE, 0)
    /\ UNCHANGED store

\* native_get: Params.Get of the key; a decoding error panics.
NativeGet(k) ==
    \/ CallFails("get", k)
    \/ LET d == DecodeValue(store[k])
       IN /\ Answer("get", k, d.ok, IF d.ok THEN d.val ELSE 0)
          /\ UNCHANGED store

\* native_set: Params.Set of the key; EncodeStorage writes the encoding.
NativeSet(k, v) ==
    \/ CallFails("set", k)
    \/ /\ store' = [store EXCEPT ![k] = EncodeValue(v)]
       /\ Answer("set", k, TRUE, v)

\* native_executor: Params.Get of the executor key, as an address.
NativeExecutor ==
    \/ CallFails("executor", ExecutorKey)
    \/ LET d == DecodeValue(store[ExecutorKey])
       IN /\ Answer("executor", ExecutorKey, d.ok, IF d.ok THEN ToAddress(d.val) ELSE 0)
          /\ UNCHANGED store

-----------------------------------------------------------------------------

Init ==
    /\ store = [k \in Keys |-> <<>>]
    /\ last = [op |-> "none", key |-> ExecutorKey, ok |-> FALSE, val |-> 0,
               tick |-> FALSE]

\* The natives init registers for the Params contract.
Next ==
    \/ NativeExecutor
    \/ \E k \in Keys : NativeGet(k)
    \/ \E k \in Keys, v \in Values : NativeSet(k, v)

Spec == Init /\ [][Next]_vars

-----------------------------------------------------------------------------
(* Properties.                                                             *)

\* The parameters the storage stands for.
Decoded == [k \in Keys |-> DecodeValue(store[k]).val]

Register == INSTANCE ParamsRegister WITH param <- Decoded

\* The natives implement the register: whatever values are set, zero and
\* the one-byte and multi-byte encodings included, native_get returns the
\* last value set for the key and native_executor its low address bytes.
ImplementsRegister == Register!Spec

\* Every raw value native_set leaves in storage decodes, so native_get and
\* native_executor never fail on what the contract itself wrote.
StoredDecodes == \A k \in Keys : DecodeValue(store[k]).ok

=============================================================================
