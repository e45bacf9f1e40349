--------------------------- MODULE AuthorityProofs ---------------------------
(***************************************************************************)
(* Proofs about the authority registry of module Authority, for every set  *)
(* of node masters, endorsors and identities, alone and composed with the  *)
(* balances and the Params contract (module AuthorityEndorsement).         *)
(***************************************************************************)
EXTENDS AuthorityEndorsement, SequenceTheorems, TLAPS

-----------------------------------------------------------------------------
(* Lemmas about the sequence operators the history `order` is built with.  *)

\* RemoveAt(s, i) keeps the elements before i and shifts those after it.
LEMMA RemoveAtProperties ==
    ASSUME NEW S, NEW s \in Seq(S), NEW i \in 1..Len(s)
    PROVE  /\ RemoveAt(s, i) \in Seq(S)
           /\ Len(RemoveAt(s, i)) = Len(s) - 1
           /\ \A j \in 1..Len(s) - 1 :
                 RemoveAt(s, i)[j] = IF j < i THEN s[j] ELSE s[j + 1]
<1>a. /\ SubSeq(s, 1, i - 1) \in Seq(S)
      /\ Len(SubSeq(s, 1, i - 1)) = i - 1
      /\ \A j \in 1..i - 1 : SubSeq(s, 1, i - 1)[j] = s[j]
    BY SubSeqProperties
<1>b. /\ SubSeq(s, i + 1, Len(s)) \in Seq(S)
      /\ Len(SubSeq(s, i + 1, Len(s))) = Len(s) - i
      /\ \A j \in 1..Len(s) - i : SubSeq(s, i + 1, Len(s))[j] = s[i + j]
    BY SubSeqProperties
<1>1. PICK s1 \in Seq(S) :
          /\ s1 = SubSeq(s, 1, i - 1)
          /\ Len(s1) = i - 1
          /\ \A j \in 1..i - 1 : s1[j] = s[j]
    BY <1>a
<1>2. PICK s2 \in Seq(S) :
          /\ s2 = SubSeq(s, i + 1, Len(s))
          /\ Len(s2) = Len(s) - i
          /\ \A j \in 1..Len(s) - i : s2[j] = s[i + j]
    BY <1>b
<1>3. RemoveAt(s, i) = s1 \o s2
    BY <1>1, <1>2 DEF RemoveAt
<1>4. /\ s1 \o s2 \in Seq(S)
      /\ Len(s1 \o s2) = Len(s) - 1
      /\ \A j \in 1..Len(s) - 1 :
            (s1 \o s2)[j] = IF j < i THEN s[j] ELSE s[j + 1]
    <2> HIDE DEF RemoveAt
    <2>1. Len(s1) = i - 1 /\ Len(s2) = Len(s) - i
        BY <1>1, <1>2
    <2>2. (\A j \in 1..i - 1 : s1[j] = s[j])
          /\ \A j \in 1..Len(s) - i : s2[j] = s[i + j]
        BY <1>1, <1>2
    <2>3. /\ s1 \o s2 \in Seq(S)
          /\ Len(s1 \o s2) = Len(s1) + Len(s2)
          /\ \A j \in 1..Len(s1) + Len(s2) :
                (s1 \o s2)[j] = IF j <= Len(s1) THEN s1[j] ELSE s2[j - Len(s1)]
        BY ConcatProperties
    <2>4. Len(s) \in Nat
        BY LenProperties
    <2>5. QED
        BY <2>1, <2>2, <2>3, <2>4
<1>5. QED
    BY <1>3, <1>4

\* Forget keeps a sequence of S a sequence of S.
LEMMA ForgetType ==
    ASSUME NEW S, NEW s \in Seq(S), NEW n
    PROVE  Forget(s, n) \in Seq(S)
<1>1. CASE \E i \in 1..Len(s) : s[i] = n
    <2>1. PICK i \in 1..Len(s) : i = CHOOSE k \in 1..Len(s) : s[k] = n
        BY <1>1
    <2>2. QED
        BY <1>1, <2>1, RemoveAtProperties DEF Forget
<1>2. CASE ~\E i \in 1..Len(s) : s[i] = n
    BY <1>2 DEF Forget
<1>3. QED
    BY <1>1, <1>2

-----------------------------------------------------------------------------
(* Type correctness.                                                       *)

LEMMA InitTypeOK == Init => TypeOK
BY AuthorityAssumption DEF Init, TypeOK, Entry, EmptyEntry, Address, Bytes32,
                           AddressPtr

LEMMA NextTypeOK == TypeOK /\ [Next]_vars => TypeOK'
<1> SUFFICES ASSUME TypeOK, [Next]_vars PROVE TypeOK'
    OBVIOUS
<1>1. ASSUME NEW n \in NodeMasters, NEW e \in Endorsors, NEW id \in Identities,
             native_add(n, e, id)
      PROVE  TypeOK'
    BY <1>1, AppendProperties
       DEF native_add, Add, TypeOK, Entry, Address, Bytes32, AddressPtr
<1>2. ASSUME NEW n \in NodeMasters, native_revoke(n)
      PROVE  TypeOK'
    <2>1. order' \in Seq(NodeMasters)
        BY <1>2, ForgetType DEF native_revoke, Revoke, TypeOK
    <2> DEFINE e  == entries[n]
               e1 == IF e.prev = Nil THEN entries
                     ELSE [entries EXCEPT ![e.prev].next = e.next]
               e2 == IF e.next = Nil THEN e1
                     ELSE [e1 EXCEPT ![e.next].prev = e.prev]
    <2>a. e \in Entry
        BY DEF TypeOK
    <2>b. e1 \in [NodeMasters -> Entry]
        BY <2>a DEF TypeOK, Entry, AddressPtr
    <2>c. e2 \in [NodeMasters -> Entry]
        BY <2>a, <2>b DEF Entry, AddressPtr
    <2>d. [e EXCEPT !.prev = Nil, !.next = Nil, !.active = FALSE] \in Entry
        BY <2>a DEF Entry, AddressPtr
    <2>2. entries' \in [NodeMasters -> Entry]
        BY <1>2, <2>c, <2>d DEF native_revoke, Revoke
    <2>3. head' \in AddressPtr /\ tail' \in AddressPtr
        BY <1>2 DEF native_revoke, Revoke, TypeOK, Entry, AddressPtr
    <2>4. QED
        BY <2>1, <2>2, <2>3 DEF TypeOK
<1>3. ASSUME NEW n \in NodeMasters, NEW a \in BOOLEAN, Update(n, a)
      PROVE  TypeOK'
    <2>1. [entries[n] EXCEPT !.active = a] \in Entry
        BY <1>3 DEF TypeOK, Entry
    <2>2. QED
        BY <1>3, <2>1 DEF Update, TypeOK
<1>4. CASE UNCHANGED vars
    BY <1>4 DEF vars, TypeOK
<1>5. QED
    BY <1>1, <1>2, <1>3, <1>4 DEF Next

\* Every state the registry reaches is well typed.
THEOREM TypeCorrect == Spec => []TypeOK
BY InitTypeOK, NextTypeOK, PTL DEF Spec

-----------------------------------------------------------------------------
(* The links follow the history of additions.                              *)

\* No node master is twice in the history.
OrderInjective ==
    \A i, j \in 1..Len(order) : order[i] = order[j] => i = j

\* Every node master in the history carries the endorsor it was added
\* with, which is not the zero address, so its entry is never empty.
OrderEndorsed ==
    \A i \in 1..Len(order) : entries[order[i]].endorsor \in Endorsors

\* The inductive strengthening of LinkedAsOrdered.
IInv == TypeOK /\ LinkedAsOrdered /\ OrderInjective /\ OrderEndorsed

\* Membership in ToSet of a sequence is being one of its elements.
LEMMA ToSetSeq ==
    ASSUME NEW S, NEW s \in Seq(S), NEW x
    PROVE  x \in ToSet(s) <=> \E i \in 1..Len(s) : s[i] = x
<1>1. DOMAIN s = 1..Len(s)
    BY LenProperties
<1>2. QED
    BY <1>1 DEF ToSet

LEMMA InitIInv == Init => IInv
<1> SUFFICES ASSUME Init PROVE IInv
    OBVIOUS
<1>1. TypeOK
    BY InitTypeOK
<1>2. \A n \in NodeMasters : ~(n \in ToSet(order))
    <2>1. DOMAIN order = {}
        BY DEF Init
    <2>2. QED
        BY <2>1 DEF ToSet
<1>3. QED
    BY <1>1, <1>2, EmptySeq, AuthorityAssumption
       DEF Init, IInv, LinkedAsOrdered, OrderInjective, OrderEndorsed,
           IsLinked, EmptyEntry

\* Update changes no link and no endorsor.
LEMMA UpdateIInv ==
    ASSUME IInv, NEW n \in NodeMasters, NEW a \in BOOLEAN, Update(n, a)
    PROVE  IInv'
<1>1. TypeOK'
    BY NextTypeOK DEF IInv, Next
<1>2. \A m \in NodeMasters : /\ entries'[m].prev = entries[m].prev
                             /\ entries'[m].next = entries[m].next
                             /\ entries'[m].endorsor = entries[m].endorsor
    BY DEF Update, IInv, TypeOK
<1>3. UNCHANGED <<head, tail, order>>
    BY DEF Update
<1>4. \A i \in 1..Len(order) : order[i] \in NodeMasters
    BY DEF IInv, TypeOK
<1>5. QED
    BY <1>1, <1>2, <1>3, <1>4
       DEF IInv, LinkedAsOrdered, OrderInjective, OrderEndorsed, IsLinked

\* Add appends n to the history and links it after the old tail.
LEMMA AddIInv ==
    ASSUME IInv, ZeroAddress \notin Endorsors,
           NEW n \in NodeMasters, NEW e \in Endorsors, NEW id \in Identities,
           native_add(n, e, id)
    PROVE  IInv'
<1>1. TypeOK'
    BY NextTypeOK DEF IInv, Next
<1> DEFINE L == Len(order)
           new == [endorsor |-> e, identity |-> id, active |-> TRUE,
                   prev |-> tail, next |-> Nil]
<1>2. /\ L \in Nat
      /\ order \in Seq(NodeMasters)
      /\ \A i \in 1..L : order[i] \in NodeMasters
    BY LenProperties DEF IInv, TypeOK
<1>3. /\ order' = Append(order, n)
      /\ Len(order') = L + 1
      /\ \A i \in 1..L : order'[i] = order[i]
      /\ order'[L + 1] = n
    BY <1>2, AppendProperties DEF native_add, Add
<1>4. \A i \in 1..L : order[i] # n
    <2> SUFFICES ASSUME NEW i \in 1..L, order[i] = n PROVE FALSE
        OBVIOUS
    <2>1. entries[n].endorsor \in Endorsors
        BY DEF IInv, OrderEndorsed
    <2>2. entries[n].endorsor = ZeroAddress
        BY DEF native_add, IsEmpty
    <2>3. QED
        BY <2>1, <2>2
<1>5. /\ head = IF L = 0 THEN Nil ELSE order[1]
      /\ tail = IF L = 0 THEN Nil ELSE order[L]
    BY DEF IInv, LinkedAsOrdered
<1>6. tail # n /\ (tail = Nil <=> L = 0)
    BY <1>2, <1>4, <1>5, AuthorityAssumption
<1>7. /\ entries'[n] = new
      /\ \A m \in NodeMasters \ {n, tail} : entries'[m] = entries[m]
      /\ tail # Nil => /\ entries'[tail].prev = entries[tail].prev
                       /\ entries'[tail].next = n
                       /\ entries'[tail].endorsor = entries[tail].endorsor
    <2>1. CASE tail = Nil
        BY <2>1 DEF native_add, Add, IInv, TypeOK
    <2>2. CASE tail # Nil
        <3>a. tail \in NodeMasters
            BY <2>2 DEF IInv, TypeOK, AddressPtr
        <3>b. entries' = [entries EXCEPT ![tail].next = n, ![n] = new]
            BY <2>2 DEF native_add, Add
        <3>c. QED
            BY <3>a, <3>b, <1>6 DEF IInv, TypeOK, Entry
    <2>3. QED
        BY <2>1, <2>2
<1>8. /\ head' = IF L + 1 = 0 THEN Nil ELSE order'[1]
      /\ tail' = IF L + 1 = 0 THEN Nil ELSE order'[L + 1]
    <2>1. head' = IF L = 0 THEN n ELSE head
        BY <1>6 DEF native_add, Add
    <2>2. tail' = n
        BY DEF native_add, Add
    <2>3. QED
        BY <1>2, <1>3, <1>5, <2>1, <2>2
<1>9. \A i \in 1..L + 1 :
        /\ entries'[order'[i]].prev = IF i = 1 THEN Nil ELSE order'[i - 1]
        /\ entries'[order'[i]].next = IF i = L + 1 THEN Nil ELSE order'[i + 1]
    <2> SUFFICES ASSUME NEW i \in 1..L + 1
                 PROVE  /\ entries'[order'[i]].prev = IF i = 1 THEN Nil ELSE order'[i - 1]
                        /\ entries'[order'[i]].next = IF i = L + 1 THEN Nil ELSE order'[i + 1]
        OBVIOUS
    <2>0. \A j \in 1..L :
             /\ entries[order[j]].prev = IF j = 1 THEN Nil ELSE order[j - 1]
             /\ entries[order[j]].next = IF j = L THEN Nil ELSE order[j + 1]
        BY DEF IInv, LinkedAsOrdered
    <2>1. CASE i = L + 1
        BY <2>1, <1>2, <1>3, <1>5, <1>7
    <2>2. CASE i = L
        <3>a. L # 0 /\ order[i] = tail /\ tail # Nil
            BY <2>2, <1>2, <1>5, <1>6
        <3>b. QED
            BY <2>2, <3>a, <2>0, <1>2, <1>3, <1>7
    <2>3. CASE i < L
        <3>a. order[i] # n /\ order[i] # tail /\ order[i] \in NodeMasters
            BY <2>3, <1>2, <1>4, <1>5 DEF IInv, OrderInjective
        <3>b. QED
            BY <2>3, <3>a, <2>0, <1>2, <1>3, <1>7
    <2>4. QED
        BY <2>1, <2>2, <2>3, <1>2
<1>10. \A m \in NodeMasters \ ToSet(order') : ~IsLinked(entries'[m])
    <2> SUFFICES ASSUME NEW m \in NodeMasters, ~(m \in ToSet(order'))
                 PROVE  ~IsLinked(entries'[m])
        OBVIOUS
    <2>1. order' \in Seq(NodeMasters)
        BY <1>1 DEF TypeOK
    <2>2. \A i \in 1..L + 1 : order'[i] # m
        BY <2>1, <1>3, ToSetSeq
    <2>3. ~(m \in ToSet(order))
        BY <2>2, <1>2, <1>3, ToSetSeq
    <2>4. m # n
        BY <2>2, <1>2, <1>3
    <2>6. m # tail
        <3>1. CASE L = 0
            BY <3>1, <1>5, AuthorityAssumption
        <3>2. CASE L # 0
            <4>1. L \in 1..L + 1 /\ order'[L] = order[L]
                BY <3>2, <1>2, <1>3
            <4>2. QED
                BY <3>2, <4>1, <2>2, <1>5
        <3>3. QED
            BY <3>1, <3>2
    <2>5. QED
        BY <2>3, <2>4, <2>6, <1>7 DEF IInv, LinkedAsOrdered
<1>11. OrderInjective'
    BY <1>2, <1>3, <1>4 DEF IInv, OrderInjective
<1>12. OrderEndorsed'
    <2> SUFFICES ASSUME NEW i \in 1..L + 1
                 PROVE  entries'[order'[i]].endorsor \in Endorsors
        BY <1>3 DEF OrderEndorsed
    <2>1. CASE i = L + 1
        BY <2>1, <1>3, <1>7
    <2>2. CASE i \in 1..L
        <3>a. order[i] # n /\ order[i] \in NodeMasters
            BY <2>2, <1>2, <1>4
        <3>b. entries'[order[i]].endorsor = entries[order[i]].endorsor
            BY <3>a, <1>7, AuthorityAssumption
        <3>c. QED
            BY <2>2, <3>b, <1>3 DEF IInv, OrderEndorsed
    <2>3. QED
        BY <2>1, <2>2, <1>2
<1>13. QED
    BY <1>1, <1>3, <1>8, <1>9, <1>10, <1>11, <1>12 DEF IInv, LinkedAsOrdered

\* Revoke takes n out of the history and links its neighbours together.
LEMMA RevokeIInv ==
    ASSUME IInv, NEW n \in NodeMasters, native_revoke(n)
    PROVE  IInv'
<1>1. TypeOK'
    BY NextTypeOK DEF IInv, Next
<1> DEFINE L == Len(order)
           e == entries[n]
           Pv == e.prev
           N == e.next
<1>2. /\ L \in Nat
      /\ order \in Seq(NodeMasters)
      /\ \A i \in 1..L : order[i] \in NodeMasters
    BY LenProperties DEF IInv, TypeOK
<1>3. \A i, j \in 1..L : order[i] = order[j] => i = j
    BY DEF IInv, OrderInjective
<1>4. \A j \in 1..L :
         /\ entries[order[j]].prev = IF j = 1 THEN Nil ELSE order[j - 1]
         /\ entries[order[j]].next = IF j = L THEN Nil ELSE order[j + 1]
    BY DEF IInv, LinkedAsOrdered
<1>5. /\ head = IF L = 0 THEN Nil ELSE order[1]
      /\ tail = IF L = 0 THEN Nil ELSE order[L]
    BY DEF IInv, LinkedAsOrdered
<1>6. \E k \in 1..L : order[k] = n
    <2> SUFFICES ASSUME \A k \in 1..L : order[k] # n PROVE FALSE
        OBVIOUS
    <2>1. ~IsLinked(e)
        BY <1>2, ToSetSeq DEF IInv, LinkedAsOrdered
    <2>2. head = n
        BY <2>1 DEF native_revoke, Listed
    <2>3. L # 0 /\ order[1] = n
        BY <2>2, <1>5, AuthorityAssumption
    <2>4. QED
        BY <2>3, <1>2
<1>7. PICK k \in 1..L : order[k] = n
    BY <1>6
<1>8. /\ Pv = IF k = 1 THEN Nil ELSE order[k - 1]
      /\ N = IF k = L THEN Nil ELSE order[k + 1]
    BY <1>4, <1>7
<1>9. /\ order' = RemoveAt(order, k)
      /\ Len(order') = L - 1
      /\ \A j \in 1..L - 1 : order'[j] = IF j < k THEN order[j] ELSE order[j + 1]
    <2>1. (CHOOSE i \in 1..L : order[i] = n) = k
        BY <1>3, <1>7
    <2>2. order' = RemoveAt(order, k)
        BY <2>1, <1>7 DEF native_revoke, Revoke, Forget
    <2>3. QED
        BY <2>2, <1>2, RemoveAtProperties
<1>10. /\ entries'[n] = [e EXCEPT !.prev = Nil, !.next = Nil, !.active = FALSE]
       /\ \A m \in NodeMasters \ {n, Pv, N} : entries'[m] = entries[m]
       /\ Pv # Nil => /\ entries'[Pv].prev = entries[Pv].prev
                     /\ entries'[Pv].next = N
                     /\ entries'[Pv].endorsor = entries[Pv].endorsor
       /\ N # Nil => /\ entries'[N].prev = Pv
                     /\ entries'[N].next = entries[N].next
                     /\ entries'[N].endorsor = entries[N].endorsor
    <2>1. /\ Pv # n /\ N # n
          /\ Pv # Nil => Pv \in NodeMasters
          /\ N # Nil => N \in NodeMasters
          /\ Pv # Nil /\ N # Nil => Pv # N
        BY <1>2, <1>3, <1>7, <1>8, AuthorityAssumption
    <2>2. QED
        BY <2>1 DEF native_revoke, Revoke, IInv, TypeOK, Entry
<1>11. /\ head' = IF Pv = Nil THEN N ELSE head
       /\ tail' = IF N = Nil THEN Pv ELSE tail
    BY DEF native_revoke, Revoke

<1>12. \A j \in 1..L - 1 : order'[j] \in NodeMasters \ {n}
    BY <1>2, <1>3, <1>7, <1>9
<1>13. head' = IF L - 1 = 0 THEN Nil ELSE order'[1]
    <2>1. CASE k = 1
        BY <2>1, <1>2, <1>8, <1>9, <1>11
    <2>2. CASE k # 1
        <3>1. Pv # Nil /\ head' = head
            BY <2>2, <1>2, <1>8, <1>11, AuthorityAssumption
        <3>2. head = order[1] /\ L - 1 # 0 /\ order'[1] = order[1]
            BY <2>2, <1>2, <1>5, <1>9
        <3>3. QED
            BY <3>1, <3>2
    <2>3. QED
        BY <2>1, <2>2
<1>14. tail' = IF L - 1 = 0 THEN Nil ELSE order'[L - 1]
    <2>1. CASE k = L
        BY <2>1, <1>2, <1>8, <1>9, <1>11
    <2>2. CASE k # L
        <3>1. N # Nil /\ tail' = tail
            BY <2>2, <1>2, <1>8, <1>11, AuthorityAssumption
        <3>2. tail = order[L] /\ L - 1 # 0 /\ order'[L - 1] = order[L]
            BY <2>2, <1>2, <1>5, <1>9
        <3>3. QED
            BY <3>1, <3>2
    <2>3. QED
        BY <2>1, <2>2
<1>15. ASSUME NEW j \in 1..L - 1
       PROVE  /\ entries'[order'[j]].prev = IF j = 1 THEN Nil ELSE order'[j - 1]
              /\ entries'[order'[j]].next = IF j = L - 1 THEN Nil ELSE order'[j + 1]
    <2>0. /\ j > 1 => order'[j - 1] = IF j - 1 < k THEN order[j - 1] ELSE order[j]
          /\ j < L - 1 => order'[j + 1] = IF j + 1 < k THEN order[j + 1] ELSE order[j + 2]
        BY <1>2, <1>9
    <2>1. CASE j < k - 1
        <3>1. order'[j] = order[j] /\ order[j] \notin {n, Pv, N}
            <4>1. order'[j] = order[j]
                BY <2>1, <1>2, <1>7, <1>9
            <4>2. order[j] # n /\ order[j] # N
                BY <2>1, <1>2, <1>3, <1>7, <1>8, AuthorityAssumption
            <4>3. order[j] # Pv
                BY <2>1, <1>2, <1>3, <1>7, <1>8
            <4>4. QED
                BY <4>1, <4>2, <4>3
        <3>2. entries'[order'[j]] = entries[order[j]]
            BY <3>1, <1>2, <1>10
        <3>3. /\ entries[order[j]].prev = IF j = 1 THEN Nil ELSE order[j - 1]
              /\ entries[order[j]].next = order[j + 1]
            BY <2>1, <1>2, <1>4, <1>7
        <3>4. QED
            BY <2>0, <2>1, <3>2, <3>3, <1>2, <1>7
    <2>2. CASE j = k - 1
        <3>1. order'[j] = Pv /\ Pv # Nil /\ Pv = order[j] /\ Pv \in NodeMasters
            BY <2>2, <1>2, <1>8, <1>9, AuthorityAssumption
        <3>2. /\ entries'[Pv].prev = entries[order[j]].prev
              /\ entries'[Pv].next = N
            BY <3>1, <1>10
        <3>3. entries[order[j]].prev = IF j = 1 THEN Nil ELSE order[j - 1]
            BY <2>2, <1>2, <1>4
        <3>4. j # L - 1 => order'[j + 1] = order[k + 1]
            BY <2>2, <1>2, <1>9
        <3>5. QED
            BY <2>0, <2>2, <3>1, <3>2, <3>3, <3>4, <1>2, <1>8
    <2>3. CASE j = k
        <3>1. order'[j] = N /\ N # Nil /\ N = order[k + 1] /\ N \in NodeMasters
            BY <2>3, <1>2, <1>8, <1>9, AuthorityAssumption
        <3>2. /\ entries'[N].prev = Pv
              /\ entries'[N].next = entries[order[k + 1]].next
            BY <3>1, <1>10
        <3>3. entries[order[k + 1]].next = IF k + 1 = L THEN Nil ELSE order[k + 2]
            BY <2>3, <1>2, <1>4
        <3>4. j # 1 => order'[j - 1] = order[k - 1]
            BY <2>3, <1>2, <1>9
        <3>5. QED
            BY <2>0, <2>3, <3>1, <3>2, <3>3, <3>4, <1>2, <1>8
    <2>4. CASE j > k
        <3>1. order'[j] = order[j + 1] /\ order[j + 1] \notin {n, Pv, N}
            BY <2>4, <1>2, <1>3, <1>7, <1>8, <1>9, AuthorityAssumption
        <3>2. entries'[order'[j]] = entries[order[j + 1]]
            BY <3>1, <1>2, <1>10
        <3>3. /\ entries[order[j + 1]].prev = order[j]
              /\ entries[order[j + 1]].next = IF j + 1 = L THEN Nil ELSE order[j + 2]
            BY <2>4, <1>2, <1>4
        <3>4. order'[j - 1] = order[j]
            BY <2>4, <1>2, <1>9
        <3>5. QED
            BY <2>0, <2>4, <3>2, <3>3, <3>4, <1>2
    <2>5. QED
        BY <2>1, <2>2, <2>3, <2>4
<1>16. \A m \in NodeMasters \ ToSet(order') : ~IsLinked(entries'[m])
    <2> SUFFICES ASSUME NEW m \in NodeMasters \ ToSet(order')
                 PROVE  ~IsLinked(entries'[m])
        OBVIOUS
    <2>1. CASE m = n
        BY <2>1, <1>10 DEF IsLinked
    <2>2. CASE m # n
        <3>1. order' \in Seq(NodeMasters)
            BY <1>1 DEF TypeOK
        <3>2. \A j \in 1..L - 1 : order'[j] # m
            BY <3>1, <1>9, ToSetSeq
        <3>3. \A i \in 1..L : order[i] # m
            <4> SUFFICES ASSUME NEW i \in 1..L, order[i] = m PROVE FALSE
                OBVIOUS
            <4>1. i # k
                BY <2>2, <1>7
            <4>2. CASE i < k
                BY <4>2, <3>2, <1>2, <1>9
            <4>3. CASE i > k
                <5>1. i - 1 \in 1..L - 1 /\ ~(i - 1 < k)
                    BY <4>3, <1>2
                <5>2. order'[i - 1] = order[i]
                    BY <5>1, <1>9
                <5>3. QED
                    BY <5>1, <5>2, <3>2
            <4>4. QED
                BY <4>1, <4>2, <4>3, <1>2
        <3>4. m \notin ToSet(order)
            BY <3>3, <1>2, ToSetSeq
        <3>5. m # Pv /\ m # N
            BY <3>3, <1>2, <1>8, AuthorityAssumption
        <3>6. entries'[m] = entries[m]
            BY <2>2, <3>5, <1>10
        <3>7. QED
            BY <3>4, <3>6 DEF IInv, LinkedAsOrdered
    <2>3. QED
        BY <2>1, <2>2
<1>17. OrderInjective'
    <2> SUFFICES ASSUME NEW a \in 1..L - 1, NEW b \in 1..L - 1, order'[a] = order'[b]
                 PROVE  a = b
        BY <1>9 DEF OrderInjective
    <2>1. DEFINE ia == IF a < k THEN a ELSE a + 1
                 ib == IF b < k THEN b ELSE b + 1
    <2>2. ia \in 1..L /\ ib \in 1..L /\ order[ia] = order[ib]
        BY <1>2, <1>9
    <2>3. ia = ib
        BY <2>2, <1>3
    <2>4. QED
        BY <2>3, <1>2
<1>18. OrderEndorsed'
    <2> SUFFICES ASSUME NEW j \in 1..L - 1
                 PROVE  entries'[order'[j]].endorsor \in Endorsors
        BY <1>9 DEF OrderEndorsed
    <2>1. PICK i \in 1..L : order'[j] = order[i]
        BY <1>2, <1>9
    <2>2. entries[order[i]].endorsor \in Endorsors
        BY DEF IInv, OrderEndorsed
    <2>3. order[i] # n
        BY <2>1, <1>12
    <2>4. entries'[order[i]].endorsor = entries[order[i]].endorsor
        BY <2>3, <1>2, <1>10, AuthorityAssumption
    <2>5. QED
        BY <2>1, <2>2, <2>4
<1>19. QED
    BY <1>1, <1>9, <1>13, <1>14, <1>15, <1>16, <1>17, <1>18
       DEF IInv, LinkedAsOrdered

\* Every step of the registry keeps the strengthened invariant, provided the
\* executor never registers the zero address as an endorsor.
LEMMA NextIInv ==
    ZeroAddress \notin Endorsors => (IInv /\ [Next]_vars => IInv')
<1> SUFFICES ASSUME ZeroAddress \notin Endorsors, IInv, [Next]_vars
             PROVE  IInv'
    OBVIOUS
<1>1. ASSUME NEW n \in NodeMasters, NEW e \in Endorsors, NEW id \in Identities,
             native_add(n, e, id)
      PROVE  IInv'
    BY <1>1, AddIInv
<1>2. ASSUME NEW n \in NodeMasters, native_revoke(n)
      PROVE  IInv'
    BY <1>2, RevokeIInv
<1>3. ASSUME NEW n \in NodeMasters, NEW a \in BOOLEAN, Update(n, a)
      PROVE  IInv'
    BY <1>3, UpdateIInv
<1>4. CASE UNCHANGED vars
    BY <1>4 DEF vars, IInv, TypeOK, LinkedAsOrdered, OrderInjective,
                OrderEndorsed, IsLinked, ToSet
<1>5. QED
    BY <1>1, <1>2, <1>3, <1>4 DEF Next

\* Whatever sequence of adds, revokes and activity updates the executor's
\* clauses make (Authority.Add, Authority.Revoke, Authority.Update), the
\* prev and next links and the head and tail keys are exactly those of the
\* history of additions: revocation patches the neighbours so that the list
\* keeps its order and the revoked entry keeps no link.  This holds when no
\* endorsor is the zero address; authority_zero_args shows why it needs that.
THEOREM LinkedCorrect ==
    ZeroAddress \notin Endorsors => (Spec => []LinkedAsOrdered)
<1> SUFFICES ASSUME ZeroAddress \notin Endorsors PROVE Spec => []LinkedAsOrdered
    OBVIOUS
<1>1. IInv => LinkedAsOrdered
    BY DEF IInv
<1>2. QED
    BY <1>1, InitIInv, NextIInv, PTL DEF Spec

-----------------------------------------------------------------------------
(* The registry inside the composed system.                                *)

\* The clauses of the composition that are not registry natives (a
\* threshold set through Params' native_set, the Authority contract's
\* native_executor, a transfer) write no registry key.
LEMMA OtherStepsKeepRegistry ==
    ASSUME ENext, ~RegistryStep
    PROVE  UNCHANGED vars
BY DEF ENext, SetEndorsement, native_executor, Transfer

LEMMA ENextTypeOK == TypeOK /\ [ENext]_evars => TypeOK'
<1> SUFFICES ASSUME TypeOK, [ENext]_evars PROVE TypeOK'
    OBVIOUS
<1>1. CASE RegistryStep
    BY <1>1, NextTypeOK DEF RegistryStep
<1>2. CASE ~RegistryStep /\ ENext
    BY <1>2, OtherStepsKeepRegistry DEF vars, TypeOK
<1>3. CASE UNCHANGED evars
    BY <1>3 DEF evars, vars, TypeOK
<1>4. QED
    BY <1>1, <1>2, <1>3

LEMMA ENextIInv ==
    ZeroAddress \notin Endorsors => (IInv /\ [ENext]_evars => IInv')
<1> SUFFICES ASSUME ZeroAddress \notin Endorsors, IInv, [ENext]_evars
             PROVE  IInv'
    OBVIOUS
<1>1. CASE RegistryStep
    BY <1>1, NextIInv DEF RegistryStep
<1>2. CASE ~RegistryStep /\ ENext
    <2>1. UNCHANGED vars
        BY <1>2, OtherStepsKeepRegistry
    <2>2. QED
        BY <2>1, NextIInv
<1>3. CASE UNCHANGED evars
    BY <1>3, NextIInv DEF evars
<1>4. QED
    BY <1>1, <1>2, <1>3

\* The registry stays well typed in the composed system: threshold changes,
\* native_executor and transfers interleaved with the registry natives
\* leave it as the natives alone do (TypeOK, checked by authority_safety).
THEOREM ComposedTypeCorrect == ESpec => []TypeOK
<1>1. EInit => TypeOK
    BY InitTypeOK DEF EInit
<1>2. QED
    BY <1>1, ENextTypeOK, PTL DEF ESpec

\* With the Params contract and the endorsors' balances running alongside,
\* the links still reproduce the history of additions, when no endorsor is
\* the zero address (LinkedAsOrdered, checked by authority_safety).
THEOREM ComposedLinkedCorrect ==
    ZeroAddress \notin Endorsors => (ESpec => []LinkedAsOrdered)
<1> SUFFICES ASSUME ZeroAddress \notin Endorsors PROVE ESpec => []LinkedAsOrdered
    OBVIOUS
<1>1. EInit => IInv
    BY InitIInv DEF EInit
<1>2. IInv => LinkedAsOrdered
    BY DEF IInv
<1>3. QED
    BY <1>1, <1>2, ENextIInv, PTL DEF ESpec

=============================================================================
