------------------------------ MODULE Authority ------------------------------
(***************************************************************************)
(* The authority registry: the on-chain list of block-proposer candidates  *)
(* (package builtin/authority) and the native methods through which the    *)
(* Authority contract reaches it (builtin/authority_native.go).            *)
(*                                                                         *)
(* Every entry is stored under its node-master address.  Prev and Next are *)
(* optional addresses that link the entries into a doubly linked list; the *)
(* storage also keeps the addresses of the head and of the tail.  An entry *)
(* equal to the empty entry is never written: the key is absent, and a     *)
(* read of an absent key returns the empty entry.  `entries[n] =           *)
(* EmptyEntry` therefore stands for both.                                  *)
(*                                                                         *)
(* Add, Revoke, Update and Get live in builtin/authority/authority.go,     *)
(* which is not among the sources; they are written from the spec (4.1,    *)
(* 9) and from the expectations of builtin/authority/authority_test.go.    *)
(* One clause runs at a time (spec 5), so every native call is one atomic  *)
(* step.                                                                   *)
(***************************************************************************)
EXTENDS Naturals, Sequences, SequencesExt

CONSTANTS
    NodeMasters,   \* addresses that may be passed as a node master
    Endorsors,     \* endorsor addresses the Authority contract passes to native_add
    Identities,    \* identities the Authority contract passes to native_add
    ZeroAddress,   \* ablock.Address{}
    ZeroBytes32,   \* ablock.Bytes32{}
    Nil            \* a nil *ablock.Address

\* A node master is never the zero address: native_first and native_next
\* use the zero address to say "none".
ASSUME AuthorityAssumption ==
    /\ NodeMasters # {}
    /\ ZeroAddress \notin NodeMasters
    /\ Nil \notin NodeMasters \cup Endorsors \cup {ZeroAddress}

\* Endorsors and identities as the storage can hold them.
Address == Endorsors \cup {ZeroAddress}
Bytes32 == Identities \cup {ZeroBytes32}
AddressPtr == NodeMasters \cup {Nil}

VARIABLES
    entries,   \* node master -> stored entry (EmptyEntry when the key is absent)
    head,      \* address stored under the head key, or Nil
    tail,      \* address stored under the tail key, or Nil
    order      \* history: the node masters added and not revoked, in order of Add

vars == <<entries, head, tail, order>>

-----------------------------------------------------------------------------
(* The entry type (authority/types.go).                                    *)

Entry == [endorsor: Address, identity: Bytes32, active: BOOLEAN,
          prev: AddressPtr, next: AddressPtr]

EmptyEntry == [endorsor |-> ZeroAddress, identity |-> ZeroBytes32,
               active |-> FALSE, prev |-> Nil, next |-> Nil]

\* entry.IsEmpty
IsEmpty(e) ==
    /\ e.endorsor = ZeroAddress
    /\ e.identity = ZeroBytes32
    /\ ~e.active
    /\ e.prev = Nil
    /\ e.next = Nil

\* entry.IsLinked
IsLinked(e) == e.prev # Nil \/ e.next # Nil

-----------------------------------------------------------------------------
(* Reads.                                                                  *)

\* Authority.Get's `listed`: a linked entry, or the head (an entry alone in
\* the list has neither prev nor next, yet authority_test.go expects Get to
\* report it listed).
Listed(n) == IsLinked(entries[n]) \/ head = n

\* native_get: listed, endorsor, identity, active.
native_get(n) ==
    [listed |-> Listed(n), endorsor |-> entries[n].endorsor,
     identity |-> entries[n].identity, active |-> entries[n].active]

\* native_first: Authority.First, the zero address for nil.
native_first == IF head = Nil THEN ZeroAddress ELSE head

\* native_next: Authority.Next, the zero address for nil.
native_next(n) == IF entries[n].next = Nil THEN ZeroAddress ELSE entries[n].next

-----------------------------------------------------------------------------
(* Writes.                                                                 *)

\* The history `order` without node master n (it holds n at most once).
Forget(s, n) ==
    IF \E i \in 1..Len(s) : s[i] = n
    THEN RemoveAt(s, CHOOSE i \in 1..Len(s) : s[i] = n)
    ELSE s

\* Plausible faults of Add and Revoke, each of which some property detects:
\* an Add that links the new entry in front of the head instead of after
\* the tail, and a Revoke that forgets to move the tail key back when it
\* removes the tail, and one that stores a pointer to the zero address
\* where it means nil.
AddAtHead(n, endorsor, identity) ==
    LET new == [endorsor |-> endorsor, identity |-> identity, active |-> TRUE,
                prev |-> Nil, next |-> head]
    IN  /\ entries' = IF head = Nil
                      THEN [entries EXCEPT ![n] = new]
                      ELSE [entries EXCEPT ![head].prev = n, ![n] = new]
        /\ head' = n
        /\ tail' = IF tail = Nil THEN n ELSE tail
        /\ order' = Append(order, n)

RevokeZeroLinks(n) ==
    LET e  == entries[n]
        e1 == IF e.prev = Nil THEN entries
              ELSE [entries EXCEPT ![e.prev].next = e.next]
        e2 == IF e.next = Nil THEN e1
              ELSE [e1 EXCEPT ![e.next].prev = e.prev]
    IN  /\ entries' = [e2 EXCEPT ![n] = [e EXCEPT !.prev = ZeroAddress,
                                                  !.next = ZeroAddress,
                                                  !.active = FALSE]]
        /\ head' = IF e.prev = Nil THEN e.next ELSE head
        /\ tail' = IF e.next = Nil THEN e.prev ELSE tail
        /\ order' = Forget(order, n)

RevokeKeepTail(n) ==
    LET e  == entries[n]
        e1 == IF e.prev = Nil THEN entries
              ELSE [entries EXCEPT ![e.prev].next = e.next]
        e2 == IF e.next = Nil THEN e1
              ELSE [e1 EXCEPT ![e.next].prev = e.prev]
    IN  /\ entries' = [e2 EXCEPT ![n] = [e EXCEPT !.prev = Nil, !.next = Nil,
                                                  !.active = FALSE]]
        /\ head' = IF e.prev = Nil THEN e.next ELSE head
        /\ tail' = tail
        /\ order' = Forget(order, n)

\* Authority.Add on success: the new entry, active, is linked after the
\* tail; the old tail's Next is written before the new entry itself.
Add(n, endorsor, identity) ==
    LET new == [endorsor |-> endorsor, identity |-> identity, active |-> TRUE,
                prev |-> tail, next |-> Nil]
    IN  /\ entries' = IF tail = Nil
                      THEN [entries EXCEPT ![n] = new]
                      ELSE [entries EXCEPT ![tail].next = n, ![n] = new]
        /\ head' = IF tail = Nil THEN n ELSE head
        /\ tail' = n
        /\ order' = Append(order, n)

\* native_add: Authority.Add returns false, and changes nothing, unless the
\* stored entry of n is empty.
native_add(n, endorsor, identity) ==
    /\ IsEmpty(entries[n])
    /\ Add(n, endorsor, identity)

\* Authority.Revoke on success: the neighbours are patched to bypass n, then
\* the entry read at the start is written back unlinked and inactive; its
\* endorsor and identity stay (authority_test.go, Get after Revoke).
Revoke(n) ==
    LET e  == entries[n]
        e1 == IF e.prev = Nil THEN entries
              ELSE [entries EXCEPT ![e.prev].next = e.next]
        e2 == IF e.next = Nil THEN e1
              ELSE [e1 EXCEPT ![e.next].prev = e.prev]
    IN  /\ entries' = [e2 EXCEPT ![n] = [e EXCEPT !.prev = Nil, !.next = Nil,
                                                  !.active = FALSE]]
        /\ head' = IF e.prev = Nil THEN e.next ELSE head
        /\ tail' = IF e.next = Nil THEN e.prev ELSE tail
        /\ order' = Forget(order, n)

\* native_revoke: Authority.Revoke returns false, and changes nothing,
\* unless n is listed.
native_revoke(n) ==
    /\ Listed(n)
    /\ Revoke(n)

\* Authority.Update, called by block packing and validation with the
\* activity the scheduler computed: flips Active of a listed entry.
Update(n, active) ==
    /\ Listed(n)
    /\ entries' = [entries EXCEPT ![n].active = active]
    /\ UNCHANGED <<head, tail, order>>

-----------------------------------------------------------------------------

Init ==
    /\ entries = [n \in NodeMasters |-> EmptyEntry]
    /\ head = Nil
    /\ tail = Nil
    /\ order = <<>>

Next ==
    \/ \E n \in NodeMasters, e \in Endorsors, id \in Identities :
          native_add(n, e, id)
    \/ \E n \in NodeMasters : native_revoke(n)
    \/ \E n \in NodeMasters, a \in BOOLEAN : Update(n, a)

Spec == Init /\ [][Next]_vars

-----------------------------------------------------------------------------
(* Properties.                                                             *)

TypeOK ==
    /\ entries \in [NodeMasters -> Entry]
    /\ head \in AddressPtr
    /\ tail \in AddressPtr
    /\ order \in Seq(NodeMasters)

\* The node masters the Authority contract visits when it calls native_first
\* and then native_next until the zero address, stopping after one more
\* step than there are node masters (so that a cycle shows as a repeat).
ContractWalk ==
    LET N == Cardinality(NodeMasters)
        W[k \in 0..N] ==
            IF k = 0
            THEN IF native_first = ZeroAddress THEN <<>> ELSE <<native_first>>
            ELSE IF Len(W[k - 1]) < k THEN W[k - 1]
                 ELSE IF native_next(W[k - 1][k]) = ZeroAddress THEN W[k - 1]
                      ELSE Append(W[k - 1], native_next(W[k - 1][k]))
    IN  W[N]

\* The list stays a list whatever sequence of adds, revokes and updates the
\* executor's clauses make: iterating with native_first/native_next visits
\* every node master native_get reports listed exactly once and nothing
\* else, the prev links mirror the next links, and the head and tail keys
\* name its two ends.
ListIntegrity ==
    LET W == ContractWalk IN
    /\ IsInjective(W)
    /\ ToSet(W) = {n \in NodeMasters : native_get(n).listed}
    /\ \A i \in 1..Len(W) :
          entries[W[i]].prev = IF i = 1 THEN Nil ELSE W[i - 1]
    /\ head = IF W = <<>> THEN Nil ELSE W[1]
    /\ tail = IF W = <<>> THEN Nil ELSE W[Len(W)]

\* The links reproduce the history: the head and tail keys and the prev and
\* next of every entry are exactly those of the sequence of node masters
\* added and not revoked, in the order they were added, and every other
\* entry is unlinked.  So revoking never reorders the others, and a revoked
\* entry keeps no link into the list.
LinkedAsOrdered ==
    LET L == Len(order) IN
    /\ head = IF L = 0 THEN Nil ELSE order[1]
    /\ tail = IF L = 0 THEN Nil ELSE order[L]
    /\ \A i \in 1..L :
          /\ entries[order[i]].prev = IF i = 1 THEN Nil ELSE order[i - 1]
          /\ entries[order[i]].next = IF i = L THEN Nil ELSE order[i + 1]
    /\ \A n \in NodeMasters \ ToSet(order) : ~IsLinked(entries[n])

=============================================================================
