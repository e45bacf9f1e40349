-------------------------- MODULE PrototypeProofs --------------------------
(***************************************************************************)
(* Proofs about the Prototype binding: its state keeps its type, every     *)
(* boolean native reports exactly the change it made, and the history      *)
(* reads return what the sealed blocks hold, for every set of users,      *)
(* sponsors and masters and every bound.                                   *)
(***************************************************************************)
EXTENDS Prototype, SequenceTheorems, TLAPS

-----------------------------------------------------------------------------
(* Type correctness.                                                       *)

LEMMA InitTypeOK == Init => TypeOK
BY PrototypeAssumption DEF Init, TypeOK, NoUser, UserObject, CreditPlan,
   Credit, Time, Calls

\* The record a boolean native leaves in `ret` has its type.
LEMMA ReturnedType ==
    ASSUME TypeOK, NEW c \in Calls, NEW a \in Users \cup Sponsors \cup {ZeroAddress},
           NEW v \in BOOLEAN, Returned(c, a, v)
    PROVE  ret' \in [call: Calls, arg: Users \cup Sponsors \cup {ZeroAddress},
                     val: BOOLEAN, tick: BOOLEAN]
<1>1. ret.tick \in BOOLEAN
    BY DEF TypeOK
<1>2. (~ret.tick) \in BOOLEAN
    BY <1>1, Zenon
<1>3. QED
    BY <1>2 DEF Returned

\* A history read answers with a natural number and a success flag.
LEMMA HistoryReadType ==
    ASSUME TypeOK, NEW n \in 0..MaxTime
    PROVE  /\ native_balanceAtBlock(n).val \in Nat
           /\ native_energyAtBlock(n).val \in Nat
           /\ native_balanceAtBlock(n).ok \in BOOLEAN
           /\ native_energyAtBlock(n).ok \in BOOLEAN
<1>1. hist \in Seq([bal: Balances, time: Time]) /\ bal \in Nat /\ now \in Nat
    BY PrototypeAssumption DEF TypeOK, Time
<1>2. BlockSummary(n).acc.bal \in Nat /\ BlockSummary(n).acc.time \in Nat
      /\ BlockSummary(n).ok \in BOOLEAN
    <2>1. CASE n < Len(hist)
        <3>1. n + 1 \in 1..Len(hist)
            BY <1>1, <2>1, PrototypeAssumption
        <3>2. hist[n + 1] \in [bal: Balances, time: Time]
            BY <1>1, <3>1, ElementOfSeq
        <3>3. hist[n + 1].bal \in Nat /\ hist[n + 1].time \in Nat
            BY <3>2, PrototypeAssumption DEF Time
        <3>4. QED
            BY <2>1, <3>3 DEF BlockSummary
    <2>2. CASE ~(n < Len(hist))
        BY <2>2 DEF BlockSummary
    <2>3. QED
        BY <2>1, <2>2
<1>3. GetEnergy(bal, now) \in Nat
      /\ GetEnergy(BlockSummary(n).acc.bal, BlockSummary(n).acc.time) \in Nat
    BY <1>1, <1>2 DEF GetEnergy
<1>4. QED
    BY <1>1, <1>2, <1>3 DEF native_balanceAtBlock, native_energyAtBlock

LEMMA NextTypeOK == TypeOK /\ [Next]_vars => TypeOK'
<1> SUFFICES ASSUME TypeOK, [Next]_vars PROVE TypeOK'
    OBVIOUS
<1> USE PrototypeAssumption
<1>1. ASSUME NEW m \in Masters, native_setMaster(m) PROVE TypeOK'
    BY <1>1 DEF native_setMaster, TypeOK
<1>2. ASSUME NEW c \in Credit, NEW r \in Credit, native_setCreditPlan(c, r)
      PROVE TypeOK'
    BY <1>2 DEF native_setCreditPlan, TypeOK, CreditPlan
<1>3. ASSUME NEW u \in Users, native_addUser(u) PROVE TypeOK'
    <2>1. \E v \in BOOLEAN : Returned("addUser", u, v)
        BY <1>3 DEF native_addUser
    <2>2. ret' \in [call: Calls, arg: Users \cup Sponsors \cup {ZeroAddress},
                    val: BOOLEAN, tick: BOOLEAN]
        BY <2>1, ReturnedType DEF Calls
    <2>3. users' \in [Users -> UserObject]
        <3>1. users' = users \/ users' = [users EXCEPT ![u] = [used |-> 0, blockTime |-> now]]
            BY <1>3 DEF native_addUser, AddUser, setUserObject
        <3>2. [used |-> 0, blockTime |-> now] \in UserObject
            BY DEF TypeOK, UserObject, NoUser, Credit, Time
        <3>3. QED
            BY <3>1, <3>2 DEF TypeOK
    <2>4. QED
        BY <1>3, <2>2, <2>3 DEF native_addUser, TypeOK
<1>4. ASSUME NEW u \in Users, native_removeUser(u) PROVE TypeOK'
    <2>1. \E v \in BOOLEAN : Returned("removeUser", u, v)
        BY <1>4 DEF native_removeUser
    <2>2. ret' \in [call: Calls, arg: Users \cup Sponsors \cup {ZeroAddress},
                    val: BOOLEAN, tick: BOOLEAN]
        BY <2>1, ReturnedType DEF Calls
    <2>3. users' \in [Users -> UserObject]
        <3>1. users' = users \/ users' = [users EXCEPT ![u] = NoUser]
            BY <1>4 DEF native_removeUser, RemoveUser, setUserObject
        <3>2. NoUser \in UserObject
            BY DEF TypeOK, UserObject, NoUser, Credit, Time
        <3>3. QED
            BY <3>1, <3>2 DEF TypeOK
    <2>4. QED
        BY <1>4, <2>2, <2>3 DEF native_removeUser, TypeOK
<1>5. ASSUME NEW u \in Users, NEW c \in Credit, SetUserCredit(u, c)
      PROVE TypeOK'
    BY <1>5 DEF SetUserCredit, setUserObject, TypeOK, UserObject, CreditPlan,
       Credit, Time
<1>6. ASSUME NEW s \in Sponsors, native_sponsor(s) PROVE TypeOK'
    <2>1. \E v \in BOOLEAN : Returned("sponsor", s, v)
        BY <1>6 DEF native_sponsor
    <2>2. ret' \in [call: Calls, arg: Users \cup Sponsors \cup {ZeroAddress},
                    val: BOOLEAN, tick: BOOLEAN]
        BY <2>1, ReturnedType DEF Calls
    <2>3. QED
        BY <1>6, <2>2 DEF native_sponsor, AddUser, RemoveUser, setUserObject, NoUser,
           TypeOK, UserObject, Credit, Time
<1>7. ASSUME NEW s \in Sponsors, native_unsponsor(s) PROVE TypeOK'
    <2>1. \E v \in BOOLEAN : Returned("unsponsor", s, v)
        BY <1>7 DEF native_unsponsor
    <2>2. ret' \in [call: Calls, arg: Users \cup Sponsors \cup {ZeroAddress},
                    val: BOOLEAN, tick: BOOLEAN]
        BY <2>1, ReturnedType DEF Calls
    <2>3. QED
        BY <1>7, <2>2 DEF native_unsponsor, AddUser, RemoveUser, setUserObject, NoUser,
           TypeOK, UserObject, Credit, Time
<1>8. ASSUME NEW s \in Sponsors, native_selectSponsor(s) PROVE TypeOK'
    <2>1. \E v \in BOOLEAN : Returned("selectSponsor", s, v)
        BY <1>8 DEF native_selectSponsor
    <2>2. ret' \in [call: Calls, arg: Users \cup Sponsors \cup {ZeroAddress},
                    val: BOOLEAN, tick: BOOLEAN]
        BY <2>1, ReturnedType DEF Calls
    <2>3. QED
        BY <1>8, <2>2 DEF native_selectSponsor, AddUser, RemoveUser, setUserObject, NoUser,
           TypeOK, UserObject, Credit, Time
<1>9. ASSUME NEW call \in {"balanceAtBlock", "energyAtBlock"},
             NEW n \in 0..MaxTime, HistoryRead(call, n)
      PROVE TypeOK'
    <2>2. /\ native_balanceAtBlock(n).val \in Nat
          /\ native_energyAtBlock(n).val \in Nat
          /\ native_balanceAtBlock(n).ok \in BOOLEAN
          /\ native_energyAtBlock(n).ok \in BOOLEAN
        BY HistoryReadType
    <2>3. QED
        BY <1>9, <2>2 DEF HistoryRead, TypeOK, Time
<1>10. ASSUME NEW b \in Balances, SetBalance(b) PROVE TypeOK'
    BY <1>10 DEF SetBalance, TypeOK
<1>11. CASE NewBlock
    BY <1>11 DEF NewBlock, TypeOK, Time
<1>12. CASE UNCHANGED vars
    BY <1>12 DEF vars, TypeOK
<1>13. QED
    BY <1>1, <1>2, <1>3, <1>4, <1>5, <1>6, <1>7, <1>8, <1>9, <1>10, <1>11,
       <1>12 DEF Next

\* The Prototype binding's state keeps its type whatever natives, credit
\* charges, history reads, balance changes and new blocks run (TypeOK,
\* checked by prototype_results).
THEOREM TypeCorrect == Spec => []TypeOK
BY InitTypeOK, NextTypeOK, PTL DEF Spec

-----------------------------------------------------------------------------
(* Boolean natives report the change they made.                            *)

\* A chain whose genesis time is not 0 keeps a block time above 0: the
\* user object AddUser stores is never the empty one.
NowPositive == now # 0

LEMMA NowPositiveInv ==
    0 \notin GenesisTimes => (Spec => [](TypeOK /\ NowPositive))
<1> SUFFICES ASSUME 0 \notin GenesisTimes PROVE Spec => [](TypeOK /\ NowPositive)
    OBVIOUS
<1>1. Init => NowPositive
    BY DEF Init, NowPositive
<1>2. TypeOK /\ NowPositive /\ [Next]_vars => NowPositive'
    <2> SUFFICES ASSUME TypeOK, NowPositive, [Next]_vars PROVE NowPositive'
        OBVIOUS
    <2>1. now' = now \/ now' = now + 1
        BY DEF Next, vars, native_setMaster, native_setCreditPlan, native_addUser,
           native_removeUser, SetUserCredit, native_sponsor, native_unsponsor,
           native_selectSponsor, HistoryRead, SetBalance, NewBlock
    <2>2. QED
        BY <2>1, PrototypeAssumption DEF NowPositive, TypeOK, Time
<1>3. QED
    BY <1>1, <1>2, InitTypeOK, NextTypeOK, PTL DEF Spec

\* One step of a boolean native: `result` is what its IF returned.
LEMMA BoolNativeStep ==
    ASSUME TypeOK, NowPositive,
           NEW c \in Calls \ {"none"}, NEW a \in Users \cup Sponsors,
           NEW v \in BOOLEAN, Returned(c, a, v),
           v => /\ c \in {"addUser", "sponsor", "selectSponsor"} => Status(c, a)'
                /\ c \in {"removeUser", "unsponsor"} => ~Status(c, a)'
                /\ c # "selectSponsor" => Status(c, a) # Status(c, a)',
           ~v => <<users, sponsors, cur>>' = <<users, sponsors, cur>>
    PROVE  ResultIsChange
<1>1. ret'.call = c /\ ret'.arg = a /\ ret'.val = v
    BY DEF Returned
<1>2. QED
    BY <1>1, Zenon DEF ResultIsChange

LEMMA ResultStep == TypeOK /\ NowPositive /\ [Next]_vars => [ResultIsChange]_vars
<1> SUFFICES ASSUME TypeOK, NowPositive, [Next]_vars PROVE ResultIsChange
    OBVIOUS
<1>0. users \in [Users -> UserObject] /\ sponsors \in [Sponsors -> BOOLEAN]
    BY DEF TypeOK
<1>1. ASSUME NEW u \in Users, native_addUser(u) PROVE ResultIsChange
    <2>1. CASE IsUser(u)
        <3>1. Returned("addUser", u, FALSE) /\ UNCHANGED <<users, sponsors, cur>>
            BY <1>1, <2>1 DEF native_addUser
        <3>2. QED
            BY <3>1, BoolNativeStep DEF Calls
    <2>2. CASE ~IsUser(u)
        <3>1. Returned("addUser", u, TRUE)
              /\ users' = [users EXCEPT ![u] = [used |-> 0, blockTime |-> now]]
            BY <1>1, <2>2 DEF native_addUser, AddUser, setUserObject
        <3>2. Status("addUser", u)' /\ ~Status("addUser", u)
            BY <1>0, <2>2, <3>1 DEF Status, native_isUser, IsUser, IsEmptyUser,
               NowPositive
        <3>3. QED
            BY <3>1, <3>2, BoolNativeStep DEF Calls
    <2>3. QED
        BY <2>1, <2>2
<1>2. ASSUME NEW u \in Users, native_removeUser(u) PROVE ResultIsChange
    <2>1. CASE ~IsUser(u)
        <3>1. Returned("removeUser", u, FALSE) /\ UNCHANGED <<users, sponsors, cur>>
            BY <1>2, <2>1 DEF native_removeUser
        <3>2. QED
            BY <3>1, BoolNativeStep DEF Calls
    <2>2. CASE IsUser(u)
        <3>1. Returned("removeUser", u, TRUE)
              /\ users' = [users EXCEPT ![u] = NoUser]
            BY <1>2, <2>2 DEF native_removeUser, RemoveUser, setUserObject
        <3>2. ~Status("removeUser", u)' /\ Status("removeUser", u)
            BY <1>0, <2>2, <3>1 DEF Status, native_isUser, IsUser, IsEmptyUser,
               NoUser
        <3>3. QED
            BY <3>1, <3>2, BoolNativeStep DEF Calls
    <2>3. QED
        BY <2>1, <2>2
<1>3. ASSUME NEW s \in Sponsors, native_sponsor(s) PROVE ResultIsChange
    <2>1. CASE IsSponsor(s)
        <3>1. Returned("sponsor", s, FALSE) /\ UNCHANGED <<users, sponsors, cur>>
            BY <1>3, <2>1 DEF native_sponsor
        <3>2. QED
            BY <3>1, BoolNativeStep DEF Calls
    <2>2. CASE ~IsSponsor(s)
        <3>1. Returned("sponsor", s, TRUE)
              /\ sponsors' = [sponsors EXCEPT ![s] = TRUE]
            BY <1>3, <2>2 DEF native_sponsor
        <3>2. Status("sponsor", s)' /\ ~Status("sponsor", s)
            BY <1>0, <2>2, <3>1 DEF Status, native_isSponsor, IsSponsor
        <3>3. QED
            BY <3>1, <3>2, BoolNativeStep DEF Calls
    <2>3. QED
        BY <2>1, <2>2
<1>4. ASSUME NEW s \in Sponsors, native_unsponsor(s) PROVE ResultIsChange
    <2>1. CASE ~IsSponsor(s)
        <3>1. Returned("unsponsor", s, FALSE) /\ UNCHANGED <<users, sponsors, cur>>
            BY <1>4, <2>1 DEF native_unsponsor
        <3>2. QED
            BY <3>1, BoolNativeStep DEF Calls
    <2>2. CASE IsSponsor(s)
        <3>1. Returned("unsponsor", s, TRUE)
              /\ sponsors' = [sponsors EXCEPT ![s] = FALSE]
            BY <1>4, <2>2 DEF native_unsponsor
        <3>2. ~Status("unsponsor", s)' /\ Status("unsponsor", s)
            BY <1>0, <2>2, <3>1 DEF Status, native_isSponsor, IsSponsor
        <3>3. QED
            BY <3>1, <3>2, BoolNativeStep DEF Calls
    <2>3. QED
        BY <2>1, <2>2
<1>5. ASSUME NEW s \in Sponsors, native_selectSponsor(s) PROVE ResultIsChange
    <2>1. CASE ~IsSponsor(s)
        <3>1. Returned("selectSponsor", s, FALSE) /\ UNCHANGED <<users, sponsors, cur>>
            BY <1>5, <2>1 DEF native_selectSponsor
        <3>2. QED
            BY <3>1, BoolNativeStep DEF Calls
    <2>2. CASE IsSponsor(s)
        <3>1. Returned("selectSponsor", s, TRUE) /\ cur' = s
            BY <1>5, <2>2 DEF native_selectSponsor
        <3>2. Status("selectSponsor", s)'
            BY <3>1 DEF Status, native_currentSponsor, CurrentSponsor
        <3>3. QED
            BY <3>1, <3>2, BoolNativeStep DEF Calls
    <2>3. QED
        BY <2>1, <2>2
<1>6. CASE UNCHANGED ret
    BY <1>6 DEF ResultIsChange
<1>7. QED
    <2>1. \/ \E u \in Users : native_addUser(u) \/ native_removeUser(u)
          \/ \E s \in Sponsors : \/ native_sponsor(s) \/ native_unsponsor(s)
                                 \/ native_selectSponsor(s)
          \/ UNCHANGED ret
        BY DEF Next, vars, native_setMaster, native_setCreditPlan, SetUserCredit,
           HistoryRead, SetBalance, NewBlock
    <2>2. QED
        BY <1>1, <1>2, <1>3, <1>4, <1>5, <1>6, <2>1

\* On a chain that does not start at time 0, every boolean native of the
\* Prototype binding returns true exactly when it made the change it
\* names, as isUser, isSponsor and currentSponsor show before and after the
\* call (NativeResultIsChange, checked by prototype_results; at genesis time
\* 0, prototype_genesis_time shows addUser reporting a user it did not add).
THEOREM ResultIsChangeProof == 0 \notin GenesisTimes => (Spec => NativeResultIsChange)
<1> SUFFICES ASSUME 0 \notin GenesisTimes PROVE Spec => NativeResultIsChange
    OBVIOUS
<1>1. Spec => [](TypeOK /\ NowPositive)
    BY NowPositiveInv
<1>2. QED
    BY <1>1, ResultStep, PTL DEF Spec, NativeResultIsChange

-----------------------------------------------------------------------------
(* History reads.                                                          *)

\* What one history read returns, by the chain of early returns.
LEMMA HistoryReadValue ==
    ASSUME TypeOK, NEW call \in {"balanceAtBlock", "energyAtBlock"},
           NEW n \in 0..MaxTime, HistoryRead(call, n)
    PROVE  HistoryReadSealed
<1> DEFINE N == Len(hist)
           acc == IF n < N THEN hist[n + 1] ELSE [bal |-> bal, time |-> now]
           r == IF call = "balanceAtBlock" THEN native_balanceAtBlock(n)
                ELSE native_energyAtBlock(n)
<1>1. hret' = [call |-> call, arg |-> n, ok |-> r.ok, val |-> r.val,
               tick |-> ~hret.tick]
      /\ UNCHANGED <<bal, hist, now>>
    BY DEF HistoryRead
<1>2. N \in Nat /\ MaxStateHistory \in Nat /\ n \in Nat
    BY PrototypeAssumption, LenProperties DEF TypeOK
<1>3. CASE n > N \/ n + MaxStateHistory < N
    <2>1. r.ok /\ r.val = 0
        BY <1>2, <1>3 DEF native_balanceAtBlock, native_energyAtBlock
    <2>2. QED
        BY <1>1, <1>3, <2>1 DEF HistoryReadSealed
<1>4. CASE n = N
    <2>1. acc = [bal |-> bal, time |-> now]
        BY <1>4, <1>2
    <2>2. r.ok /\ r.val = IF call = "balanceAtBlock" THEN bal ELSE bal * now
        BY <1>2, <1>4 DEF native_balanceAtBlock, native_energyAtBlock, GetEnergy
    <2>3. QED
        BY <1>1, <1>2, <1>4, <2>1, <2>2 DEF HistoryReadSealed
<1>5. CASE n < N /\ ~(n + MaxStateHistory < N)
    <2>1. BlockSummary(n) = [ok |-> TRUE, acc |-> hist[n + 1]]
        BY <1>5 DEF BlockSummary
    <2>2. acc = hist[n + 1]
        BY <1>5
    <2>3. r.ok /\ r.val = IF call = "balanceAtBlock" THEN hist[n + 1].bal
                          ELSE hist[n + 1].bal * hist[n + 1].time
        BY <1>2, <1>5, <2>1 DEF native_balanceAtBlock, native_energyAtBlock,
           GetEnergy
    <2>4. QED
        BY <1>1, <1>2, <1>5, <2>2, <2>3 DEF HistoryReadSealed
<1>6. QED
    BY <1>2, <1>3, <1>4, <1>5

\* A clause that reads the contract's balance or energy at block n gets 0
\* outside the history window, the running state for the current block,
\* and for a sealed block the balance it ended with and the energy at its
\* own timestamp, and the native never panics, for every chain length,
\* window and bound (HistoryReadsSealed, checked by prototype_results).
THEOREM HistoryReadsSealedProof == Spec => HistoryReadsSealed
<1>1. TypeOK /\ [Next]_vars => [HistoryReadSealed]_vars
    <2> SUFFICES ASSUME TypeOK, [Next]_vars PROVE [HistoryReadSealed]_vars
        OBVIOUS
    <2>1. ASSUME NEW call \in {"balanceAtBlock", "energyAtBlock"},
                 NEW n \in 0..MaxTime, HistoryRead(call, n)
          PROVE  HistoryReadSealed
        BY <2>1, HistoryReadValue
    <2>2. CASE UNCHANGED hret
        BY <2>2 DEF HistoryReadSealed
    <2>3. QED
        BY <2>1, <2>2 DEF Next, vars, native_setMaster, native_setCreditPlan,
           native_addUser, native_removeUser, SetUserCredit, native_sponsor,
           native_unsponsor, native_selectSponsor, SetBalance, NewBlock
<1>2. QED
    BY <1>1, InitTypeOK, NextTypeOK, PTL DEF Spec, HistoryReadsSealed

=============================================================================
