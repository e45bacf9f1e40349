------------------------------ MODULE Prototype ------------------------------
(***************************************************************************)
(* The Prototype builtin of one contract `self`: its master, its credit    *)
(* plan, its users with the credit they have used, its sponsors and its    *)
(* current sponsor (builtin/prototype/prototype.go), and the native        *)
(* methods that change them (builtin/prototype_native.go).                 *)
(*                                                                         *)
(* Storage elides empty values: a user object or a credit plan that is     *)
(* empty is stored as nothing, and nothing reads back as the empty value.  *)
(* `users[u] = NoUser` therefore stands for both.  Each native method runs *)
(* in one clause, one at a time, so it is one atomic step; its returned    *)
(* boolean is kept in `ret` so that properties can compare it with the     *)
(* change it made.  Event logs, gas and ABI decoding are left out.         *)
(*                                                                         *)
(* The contract's own account is kept too: its balance now, and the chain  *)
(* of sealed blocks with the balance each ended with and its timestamp,    *)
(* which native_balanceAtBlock and native_energyAtBlock read.  A clause    *)
(* runs in block number Len(hist) at block time `now`; NewBlock seals it.  *)
(***************************************************************************)
EXTENDS Naturals, Sequences

CONSTANTS
    Users,         \* addresses passed as a user
    Sponsors,      \* addresses passed as a sponsor
    Masters,       \* addresses passed to native_setMaster
    ZeroAddress,   \* ablock.Address{}
    MaxCredit,     \* credits and recovery rates range over 0..MaxCredit
    GenesisTimes,  \* block times the chain can start at
    MaxTime,       \* bound on the block time
    Balances,      \* the balances the contract's account may have
    MaxStateHistory \* ablock.MaxStateHistory: how far back states are read

ASSUME PrototypeAssumption ==
    /\ MaxCredit \in Nat
    /\ MaxTime \in Nat
    /\ GenesisTimes \subseteq 0..MaxTime
    /\ ZeroAddress \notin Sponsors
    /\ Balances \subseteq Nat
    /\ MaxStateHistory \in Nat

Credit == 0..MaxCredit
Time == 0..MaxTime

\* userObject{UsedCredit, BlockTime}; the empty one is what an absent key
\* reads as (getUserObject, len(raw) == 0).
UserObject == [used: Credit, blockTime: Time]
NoUser == [used |-> 0, blockTime |-> 0]

\* creditPlan{Credit, RecoveryRate}.
CreditPlan == [credit: Credit, recoveryRate: Credit]

\* The native methods whose boolean result says whether they did anything.
Calls == {"none", "addUser", "removeUser", "sponsor", "unsponsor", "selectSponsor"}

VARIABLES
    master,    \* the contract's master (state.GetMaster)
    plan,      \* the stored credit plan
    users,     \* user -> stored user object (NoUser when absent)
    sponsors,  \* sponsor -> the stored flag (FALSE when absent)
    cur,       \* the address stored under the current-sponsor key
    now,       \* the block time of the clause being run
    ret,       \* the last boolean native call: its name, argument and result
    bal,       \* the contract's balance in the running state
    hist,      \* the sealed blocks 0 .. Len(hist) - 1: [bal, time] each
    hret       \* the last history read: its name, block, outcome and value

vars == <<master, plan, users, sponsors, cur, now, ret, bal, hist, hret>>

-----------------------------------------------------------------------------
(* Reads.                                                                  *)

\* userObject.IsEmpty: nothing used, and no block time.
IsEmptyUser(uo) == uo.used = 0 /\ uo.blockTime = 0

\* Binding.IsUser
IsUser(u) == ~IsEmptyUser(users[u])

\* Binding.IsSponsor
IsSponsor(s) == sponsors[s]

\* Binding.CurrentSponsor: BytesToBytes32 then BytesToAddress, which gives
\* back the address stored.
CurrentSponsor == cur

\* The read natives that answer the same questions for a caller.
native_isUser(u) == IsUser(u)
native_isSponsor(s) == IsSponsor(s)
native_currentSponsor == CurrentSponsor

\* state.GetEnergy is not under src/: energy is taken to grow with the
\* balance over time, which is enough to tell apart readings of one
\* account at different times.
GetEnergy(b, t) == b * t

\* env.Chain().GetBlockSummary(n) and Checkout of its state root: the
\* account as block n left it, and the block's timestamp; it fails for a
\* block the chain does not hold yet.
BlockSummary(n) ==
    IF n < Len(hist) THEN [ok |-> TRUE, acc |-> hist[n + 1]]
    ELSE [ok |-> FALSE, acc |-> [bal |-> 0, time |-> 0]]

\* The read of native_balanceAtBlock or native_energyAtBlock, ctx.Number
\* being Len(hist): zero for a future block or one more than
\* MaxStateHistory blocks back, the running state for the current block,
\* the block's own state otherwise.  `ok` is FALSE where the native panics.
native_balanceAtBlock(n) ==
    IF n > Len(hist) THEN [ok |-> TRUE, val |-> 0]
    ELSE IF Len(hist) - n > MaxStateHistory THEN [ok |-> TRUE, val |-> 0]
    ELSE IF n = Len(hist) THEN [ok |-> TRUE, val |-> bal]
    ELSE [ok |-> BlockSummary(n).ok, val |-> BlockSummary(n).acc.bal]

\* A native_energyAtBlock that reads a past state at the current block's
\* time instead of the timestamp of the block read.
native_energyAtBlockNow(n) ==
    IF n > Len(hist) THEN [ok |-> TRUE, val |-> 0]
    ELSE IF Len(hist) - n > MaxStateHistory THEN [ok |-> TRUE, val |-> 0]
    ELSE IF n = Len(hist) THEN [ok |-> TRUE, val |-> GetEnergy(bal, now)]
    ELSE [ok |-> BlockSummary(n).ok,
          val |-> GetEnergy(BlockSummary(n).acc.bal, now)]

\* The energy at the current block's time (ctx.Time) for the current
\* block, at the block's own timestamp for a past one.
native_energyAtBlock(n) ==
    IF n > Len(hist) THEN [ok |-> TRUE, val |-> 0]
    ELSE IF Len(hist) - n > MaxStateHistory THEN [ok |-> TRUE, val |-> 0]
    ELSE IF n = Len(hist) THEN [ok |-> TRUE, val |-> GetEnergy(bal, now)]
    ELSE [ok |-> BlockSummary(n).ok,
          val |-> GetEnergy(BlockSummary(n).acc.bal, BlockSummary(n).acc.time)]

\* The result of a boolean native call (`tick` flips on every call, so
\* that two equal calls in a row are two records).
Returned(call, arg, val) ==
    ret' = [call |-> call, arg |-> arg, val |-> val, tick |-> ~ret.tick]

-----------------------------------------------------------------------------
(* Writes.                                                                 *)

\* Binding.setUserObject: an empty object is stored as nothing, which is
\* what NoUser stands for.
setUserObject(u, uo) == users' = [users EXCEPT ![u] = uo]

\* Faults that a property detects: a RemoveUser that keeps the user's
\* block time, and a native_sponsor without its early return.
RemoveUserKeepTime(u) == setUserObject(u, [used |-> 0, blockTime |-> now])

native_sponsorUnchecked(s) ==
    /\ sponsors' = [sponsors EXCEPT ![s] = TRUE]
    /\ Returned("sponsor", s, TRUE)
    /\ UNCHANGED <<master, plan, users, cur, now, bal, hist, hret>>

\* Binding.AddUser: a fresh object at the block time.
AddUser(u) == setUserObject(u, [used |-> 0, blockTime |-> now])

\* Binding.RemoveUser: the empty object.
RemoveUser(u) == setUserObject(u, NoUser)

native_setMaster(m) ==
    /\ master' = m
    /\ UNCHANGED <<plan, users, sponsors, cur, now, ret, bal, hist, hret>>

native_setCreditPlan(credit, rate) ==
    /\ plan' = [credit |-> credit, recoveryRate |-> rate]
    /\ UNCHANGED <<master, users, sponsors, cur, now, ret, bal, hist, hret>>

native_addUser(u) ==
    /\ IF IsUser(u)
       THEN Returned("addUser", u, FALSE) /\ UNCHANGED users
       ELSE Returned("addUser", u, TRUE) /\ AddUser(u)
    /\ UNCHANGED <<master, plan, sponsors, cur, now, bal, hist, hret>>

native_removeUser(u) ==
    /\ IF ~IsUser(u)
       THEN Returned("removeUser", u, FALSE) /\ UNCHANGED users
       ELSE Returned("removeUser", u, TRUE) /\ RemoveUser(u)
    /\ UNCHANGED <<master, plan, sponsors, cur, now, bal, hist, hret>>

\* A SetUserCredit without `if used.Sign() < 0 { used = 0 }`.
SetUserCreditUnclamped(u, credit) ==
    /\ IsUser(u)
    /\ setUserObject(u, [used |-> plan.credit - credit, blockTime |-> now])
    /\ UNCHANGED <<master, plan, sponsors, cur, now, ret, bal, hist, hret>>

\* Binding.SetUserCredit, called by the runtime after it charged a user's
\* clause to the contract: used = plan.Credit - credit, at least 0.
SetUserCredit(u, credit) ==
    LET used == IF plan.credit > credit THEN plan.credit - credit ELSE 0 IN
    /\ IsUser(u)
    /\ setUserObject(u, [used |-> used, blockTime |-> now])
    /\ UNCHANGED <<master, plan, sponsors, cur, now, ret, bal, hist, hret>>

native_sponsor(s) ==
    /\ IF IsSponsor(s)
       THEN Returned("sponsor", s, FALSE) /\ UNCHANGED sponsors
       ELSE Returned("sponsor", s, TRUE) /\ sponsors' = [sponsors EXCEPT ![s] = TRUE]
    /\ UNCHANGED <<master, plan, users, cur, now, bal, hist, hret>>

\* Binding.Sponsor(s, false) stores nothing; the current sponsor stays.
native_unsponsor(s) ==
    /\ IF ~IsSponsor(s)
       THEN Returned("unsponsor", s, FALSE) /\ UNCHANGED sponsors
       ELSE Returned("unsponsor", s, TRUE) /\ sponsors' = [sponsors EXCEPT ![s] = FALSE]
    /\ UNCHANGED <<master, plan, users, cur, now, bal, hist, hret>>

native_selectSponsor(s) ==
    /\ IF ~IsSponsor(s)
       THEN Returned("selectSponsor", s, FALSE) /\ UNCHANGED cur
       ELSE Returned("selectSponsor", s, TRUE) /\ cur' = s
    /\ UNCHANGED <<master, plan, users, sponsors, now, bal, hist, hret>>

\* A clause calls native_balanceAtBlock or native_energyAtBlock for block n.
HistoryRead(call, n) ==
    LET r == IF call = "balanceAtBlock" THEN native_balanceAtBlock(n)
             ELSE native_energyAtBlock(n)
    IN  /\ hret' = [call |-> call, arg |-> n, ok |-> r.ok, val |-> r.val,
                    tick |-> ~hret.tick]
        /\ UNCHANGED <<master, plan, users, sponsors, cur, now, ret, bal, hist>>

\* A clause moves value to or from the contract's account.
SetBalance(b) ==
    /\ bal' = b
    /\ UNCHANGED <<master, plan, users, sponsors, cur, now, ret, hist, hret>>

\* The block is sealed with the state it ended in, and the next block, one
\* second later, starts from that state.
NewBlock ==
    /\ now < MaxTime
    /\ hist' = Append(hist, [bal |-> bal, time |-> now])
    /\ now' = now + 1
    /\ UNCHANGED <<master, plan, users, sponsors, cur, ret, bal, hret>>

-----------------------------------------------------------------------------

Init ==
    /\ master \in Masters
    /\ plan = [credit |-> 0, recoveryRate |-> 0]
    /\ users = [u \in Users |-> NoUser]
    /\ sponsors = [s \in Sponsors |-> FALSE]
    /\ cur = ZeroAddress
    /\ now \in GenesisTimes
    /\ ret = [call |-> "none", arg |-> ZeroAddress, val |-> FALSE, tick |-> FALSE]
    /\ bal \in Balances
    /\ hist = <<>>
    /\ hret = [call |-> "none", arg |-> 0, ok |-> TRUE, val |-> 0, tick |-> FALSE]

Next ==
    \/ \E m \in Masters : native_setMaster(m)
    \/ \E c, r \in Credit : native_setCreditPlan(c, r)
    \/ \E u \in Users :
          \/ native_addUser(u)
          \/ native_removeUser(u)
          \/ \E c \in Credit : SetUserCredit(u, c)
    \/ \E s \in Sponsors :
          \/ native_sponsor(s)
          \/ native_unsponsor(s)
          \/ native_selectSponsor(s)
    \/ \E call \in {"balanceAtBlock", "energyAtBlock"}, n \in 0..MaxTime :
          HistoryRead(call, n)
    \/ \E b \in Balances : SetBalance(b)
    \/ NewBlock

Spec == Init /\ [][Next]_vars

-----------------------------------------------------------------------------
(* Properties.                                                             *)

TypeOK ==
    /\ master \in Masters
    /\ plan \in CreditPlan
    /\ users \in [Users -> UserObject]
    /\ sponsors \in [Sponsors -> BOOLEAN]
    /\ cur \in Sponsors \cup {ZeroAddress}
    /\ now \in Time
    /\ ret \in [call: Calls, arg: Users \cup Sponsors \cup {ZeroAddress},
                val: BOOLEAN, tick: BOOLEAN]
    /\ bal \in Balances
    /\ hist \in Seq([bal: Balances, time: Time])
    /\ hret \in [call: {"none", "balanceAtBlock", "energyAtBlock"}, arg: Time,
                 ok: BOOLEAN, val: Nat, tick: BOOLEAN]

\* The membership a boolean native reports on, as the read natives show it
\* to a caller: is u a user, is s a sponsor, is s the current sponsor.
Status(call, a) ==
    CASE call \in {"addUser", "removeUser"} -> native_isUser(a)
      [] call \in {"sponsor", "unsponsor"}  -> native_isSponsor(a)
      [] call = "selectSponsor"            -> native_currentSponsor = a
      [] OTHER                             -> FALSE

\* What the caller of a boolean native (and the event it logs) is told is
\* what happened: true means the user was added or removed, the sponsor
\* flag set or cleared, the sponsor made current, and the reads before and
\* after the call show it; false means nothing changed.
ResultIsChange ==
    ret'.tick # ret.tick =>
          \E c \in Calls, a \in Users \cup Sponsors :
             /\ c = ret'.call
             /\ a = ret'.arg
             /\ IF ret'.val
                THEN /\ c \in {"addUser", "sponsor", "selectSponsor"} =>
                          Status(c, a)'
                     /\ c \in {"removeUser", "unsponsor"} => ~Status(c, a)'
                     /\ c # "selectSponsor" => Status(c, a) # Status(c, a)'
                ELSE <<users, sponsors, cur>>' = <<users, sponsors, cur>>

\* Every step of the binding keeps to that: no boolean native call
\* misreports the change it made.
NativeResultIsChange == [][ResultIsChange]_vars

\* What a history read returns is fixed by the block it names, whichever
\* block the clause runs in: nothing for a block not yet sealed beyond the
\* current one or more than MaxStateHistory blocks back; for the current
\* block, the running state at the current time; for a sealed block, the
\* balance it ended with and the energy at its own timestamp.  And the
\* native never panics on a block it serves.
HistoryReadSealed ==
    hret'.tick # hret.tick =>
          LET n == hret'.arg
              N == Len(hist)
              acc == IF n < N THEN hist[n + 1] ELSE [bal |-> bal, time |-> now]
          IN  /\ hret'.ok
              /\ hret'.val =
                    IF n > N \/ n + MaxStateHistory < N THEN 0
                    ELSE IF hret'.call = "balanceAtBlock" THEN acc.bal
                    ELSE acc.bal * acc.time

\* Every history read of every clause, in every block, answers so.
HistoryReadsSealed == [][HistoryReadSealed]_vars

=============================================================================
