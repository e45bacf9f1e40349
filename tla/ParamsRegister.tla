--------------------------- MODULE ParamsRegister ---------------------------
(***************************************************************************)
(* What the Params contract's natives promise (builtin/params_native.go):  *)
(* a register of one unsigned integer per key, 0 until it is set.          *)
(* native_set stores a value, native_get returns the value of a key, and   *)
(* native_executor returns the value under the executor key read as an     *)
(* address, that is its low AddrLen bytes.  Any call may fail (gas runs    *)
(* out, the storage cannot be read) and then changes nothing.              *)
(***************************************************************************)
EXTENDS Naturals

CONSTANTS
    Keys,         \* the parameter keys
    Values,       \* the values a call may pass
    ExecutorKey,  \* ablock.KeyExecutorAddress
    AddrLen       \* bytes of an address (ablock.AddressLength)

VARIABLES
    param,   \* key -> value
    last     \* the last call: op, key, ok, value returned, tick

vars == <<param, last>>

\* A call returns (`tick` flips on every call).
Answer(op, k, ok, v) ==
    last' = [op |-> op, key |-> k, ok |-> ok, val |-> v, tick |-> ~last.tick]

Set(k, v) ==
    /\ param' = [param EXCEPT ![k] = v]
    /\ Answer("set", k, TRUE, v)

Get(k) ==
    /\ Answer("get", k, TRUE, param[k])
    /\ UNCHANGED param

Executor ==
    /\ Answer("executor", ExecutorKey, TRUE, param[ExecutorKey] % (256 ^ AddrLen))
    /\ UNCHANGED param

Fail(op, k) ==
    /\ Answer(op, k, FALSE, 0)
    /\ UNCHANGED param

Init ==
    /\ param = [k \in Keys |-> 0]
    /\ last = [op |-> "none", key |-> ExecutorKey, ok |-> FALSE, val |-> 0,
               tick |-> FALSE]

Next ==
    \/ \E k \in Keys, v \in Values : Set(k, v)
    \/ \E k \in Keys : Get(k)
    \/ Executor
    \/ \E op \in {"set", "get"}, k \in Keys : Fail(op, k)
    \/ Fail("executor", ExecutorKey)

Spec == Init /\ [][Next]_vars

=============================================================================
