----------------------- MODULE MetaPoolOperatorProofs -----------------------
(***************************************************************************)
(* The operator's module, for every list of pools, whatever is called by    *)
(* hand and in whatever order it meets the heartbeat: calls find the pools  *)
(* they were sent to, and the cash, the balance, the claims and the records *)
(* of the pools stay what the runs show them to be on a small instance.     *)
(*                                                                          *)
(* Every step is first shown to be one of nine moves, which say what it     *)
(* does to the list, the calls and the books; each part of the invariant is *)
(* then kept by each move.                                                  *)
(***************************************************************************)
EXTENDS MetaPoolOperator, MetaPoolTypeProofs, SumProofs, SequenceTheorems

-----------------------------------------------------------------------------
(* What is known of the list of pools, of the calls and of what is kept     *)
(* beside them.                                                             *)
AnyCall == [op : Operation, sp : Nat, amount : Nat,
            status : {"sent", "ok", "failed"}, reply : Nat]

PoolsListed ==
  /\ staking_pools \in Seq(StakingPoolInfo)
  /\ pool_accounts \in Seq(Range(PoolAccounts))
  /\ Len(pool_accounts) = Len(staking_pools)
  /\ Len(pool_accounts) <= Len(PoolAccounts)
  /\ \A i, j \in DOMAIN pool_accounts : pool_accounts[i] = pool_accounts[j] => i = j

CallsTyped ==
  /\ IsFiniteSet(promises) /\ promises \subseteq AnyCall
  /\ sent_to \in [DOMAIN PoolAccounts -> [account : Range(PoolAccounts), manual : BOOLEAN]]
  /\ queries \subseteq Query
  /\ held_at \in [Range(PoolAccounts) -> [staked : Nat, unstaked : Nat]]
  /\ by_hand \in [Range(PoolAccounts) -> Nat] /\ unmade \in Nat /\ rounded \in Nat

(* A call asks for no more than is recorded, and keeps the record from       *)
(* changing: its pool is locked.                                            *)
CallCovered(p) ==
  LET sp == staking_pools[p.sp]
  IN /\ p.op = "unstake" => 0 < p.amount /\ p.amount <= sp.staked
     /\ p.op = "restake" => p.amount <= sp.unstaked
     /\ p.op = "retrieve" => p.amount = sp.unstaked
     /\ p.op = "rewards" => p.status # "ok"
     /\ p.op = "unstake" /\ sent_to[p.sp].manual => p.amount <= by_hand[account_of(p)]

CallsCovered == \A p \in promises : CallCovered(p)

Placed ==
  /\ LedgerTyped /\ PoolsListed /\ CallsTyped
  /\ OneCallPerPool /\ CallbackFindsItsPool /\ CallsCovered

LEMMA Listed ==
  ASSUME PoolsListed
  PROVE  /\ Len(staking_pools) \in Nat
         /\ DOMAIN staking_pools = 1..Len(staking_pools)
         /\ DOMAIN pool_accounts = DOMAIN staking_pools
         /\ DOMAIN PoolAccounts = 1..Len(PoolAccounts) /\ Len(PoolAccounts) \in Nat
         /\ \A i \in DOMAIN staking_pools :
              /\ i \in Nat /\ i \in DOMAIN PoolAccounts
              /\ staking_pools[i] \in StakingPoolInfo
              /\ pool_accounts[i] \in Range(PoolAccounts)
              /\ staking_pools[i].staked \in Nat /\ staking_pools[i].unstaked \in Nat
              /\ staking_pools[i].weight_basis_points \in Nat
              /\ staking_pools[i].busy_lock \in BOOLEAN
  <1>1. /\ Len(staking_pools) \in Nat
        /\ DOMAIN staking_pools = 1..Len(staking_pools)
        /\ DOMAIN pool_accounts = 1..Len(pool_accounts)
    BY LenProperties DEF PoolsListed
  <1>2. DOMAIN PoolAccounts = 1..Len(PoolAccounts) /\ Len(PoolAccounts) \in Nat
    BY OperatorAssumption, LenProperties
  <1>3. \A i \in DOMAIN staking_pools :
          staking_pools[i] \in StakingPoolInfo /\ pool_accounts[i] \in Range(PoolAccounts)
    BY <1>1, ElementOfSeq DEF PoolsListed
  <1>4. \A sp \in StakingPoolInfo :
          /\ sp.staked \in Nat /\ sp.unstaked \in Nat
          /\ sp.weight_basis_points \in Nat /\ sp.busy_lock \in BOOLEAN
    BY DEF StakingPoolInfo
  <1> QED
    BY <1>1, <1>2, <1>3, <1>4 DEF PoolsListed

(* One record is written. *)
LEMMA OneRewritten ==
  ASSUME PoolsListed, NEW i \in DOMAIN staking_pools, NEW sp \in StakingPoolInfo,
         staking_pools' = [staking_pools EXCEPT ![i] = sp]
  PROVE  /\ staking_pools' \in Seq(StakingPoolInfo)
         /\ Len(staking_pools') = Len(staking_pools)
         /\ DOMAIN staking_pools' = DOMAIN staking_pools
         /\ staking_pools'[i] = sp
         /\ \A j \in DOMAIN staking_pools : j # i => staking_pools'[j] = staking_pools[j]
  <1>1. staking_pools \in Seq(StakingPoolInfo) /\ i \in 1..Len(staking_pools)
    BY Listed DEF PoolsListed
  <1>2. /\ staking_pools' \in Seq(StakingPoolInfo)
        /\ Len(staking_pools') = Len(staking_pools)
    BY <1>1, ExceptSeq
  <1> QED
    BY <1>1, <1>2

(* The list with one pool less. *)
LEMMA Removed ==
  ASSUME NEW S, NEW s \in Seq(S), NEW i \in 1..Len(s)
  PROVE  /\ RemoveAt(s, i) \in Seq(S)
         /\ Len(RemoveAt(s, i)) = Len(s) - 1
         /\ \A j \in 1..(Len(s) - 1) : RemoveAt(s, i)[j] = IF j < i THEN s[j] ELSE s[j + 1]
  <1> DEFINE front == SubSeq(s, 1, i - 1)
             back == SubSeq(s, i + 1, Len(s))
  <1>1. /\ front \in Seq(S) /\ Len(front) = i - 1
        /\ \A j \in 1..(i - 1) : front[j] = s[j]
    BY SubSeqProperties, LenProperties
  <1>2. /\ back \in Seq(S) /\ Len(back) = Len(s) - i
        /\ \A j \in 1..(Len(s) - i) : back[j] = s[i + j]
    BY SubSeqProperties, LenProperties
  <1>3. RemoveAt(s, i) = front \o back
    BY DEF RemoveAt
  <1>4. Len(s) \in Nat /\ i \in Int /\ 1 <= i /\ i <= Len(s)
    BY LenProperties
  <1> HIDE DEF front, back
  <1>5. /\ front \o back \in Seq(S)
        /\ Len(front \o back) = Len(front) + Len(back)
        /\ \A j \in 1..(Len(front) + Len(back)) :
             (front \o back)[j] = IF j <= Len(front) THEN front[j] ELSE back[j - Len(front)]
    BY <1>1, <1>2, ConcatProperties
  <1>6. Len(front) + Len(back) = Len(s) - 1
    BY <1>1, <1>2, <1>4
  <1>7. ASSUME NEW j \in 1..(Len(s) - 1)
        PROVE  (front \o back)[j] = IF j < i THEN s[j] ELSE s[j + 1]
    <2>1. CASE j < i
      <3>1. (front \o back)[j] = front[j]
        BY <1>1, <1>4, <1>5, <1>6, <2>1
      <3> QED
        BY <1>1, <1>4, <2>1, <3>1
    <2>2. CASE ~(j < i)
      <3>1. (front \o back)[j] = back[j - (i - 1)]
        BY <1>1, <1>4, <1>5, <1>6, <2>2
      <3>2. j - (i - 1) \in 1..(Len(s) - i) /\ i + (j - (i - 1)) = j + 1
        BY <1>4, <2>2
      <3>3. back[j - (i - 1)] = s[i + (j - (i - 1))]
        BY <1>2, <3>2
      <3> QED
        BY <2>2, <3>1, <3>2, <3>3
    <2> QED
      BY <2>1, <2>2
  <1> QED
    BY <1>3, <1>5, <1>6, <1>7

-----------------------------------------------------------------------------
(***************************************************************************)
(* The amounts of a set of calls, when one is sent, called back or answered.*)
(***************************************************************************)
LEMMA CallsAdd ==
  ASSUME NEW C, IsFiniteSet(C), NEW c \in C, \A p \in C : p.amount \in Nat
  PROVE  /\ sum_of(C) \in Nat /\ sum_of(C \ {c}) \in Nat
         /\ sum_of(C) = c.amount + sum_of(C \ {c})
  <1> DEFINE D == C \ {c}
             f == [p \in C |-> p.amount]
             h == [p \in D |-> p.amount]
  <1>1. IsFiniteSet(D)
    BY FS_RemoveElement
  <1>2. /\ sum_of(C) = SumFunctionOnSet(f, C)
        /\ sum_of(D) = SumFunctionOnSet(h, D)
    BY DEF sum_of, SumFunction
  <1>3. /\ \A p \in C : f[p] \in Nat /\ f[p] \in Int
        /\ \A p \in D : f[p] \in Int /\ h[p] \in Int /\ h[p] \in Nat
        /\ \A p \in D \ {c} : h[p] = f[p]
        /\ c \notin D /\ f[c] = c.amount
    OBVIOUS
  <1>4. D = C \ {c}
    OBVIOUS
  <1> HIDE DEF f, h, D
  <1>5. SumFunctionOnSet(h, D) = SumFunctionOnSet(f, D) + 0
    BY <1>1, <1>3, SumChanges
  <1>6. SumFunctionOnSet(f, C) = f[c] + SumFunctionOnSet(f, D)
    BY <1>3, <1>4, SumWithElement
  <1>7. SumFunctionOnSet(f, C) \in Nat /\ SumFunctionOnSet(h, D) \in Nat
    BY <1>1, <1>3, SumNat
  <1>8. SumFunctionOnSet(f, D) \in Int
    BY <1>1, <1>3, SumInt
  <1> QED
    BY <1>2, <1>3, <1>4, <1>5, <1>6, <1>7, <1>8

LEMMA NoCalls == sum_of({}) = 0
  <1>1. sum_of({}) = SumFunctionOnSet([p \in {} |-> p.amount], {})
    BY DEF sum_of, SumFunction
  <1> QED
    BY <1>1, SumZero, FS_EmptySet

LEMMA CallsNat ==
  ASSUME NEW C, IsFiniteSet(C), \A p \in C : p.amount \in Nat
  PROVE  /\ sum_of(C) \in Nat
         /\ \A p \in C : p.amount <= sum_of(C)
  <1>1. CASE C = {}
    BY <1>1, NoCalls
  <1>2. CASE C # {}
    <2>1. ASSUME NEW c \in C
          PROVE  sum_of(C) \in Nat /\ c.amount <= sum_of(C)
      <3>1. /\ sum_of(C) \in Nat /\ sum_of(C \ {c}) \in Nat
            /\ sum_of(C) = c.amount + sum_of(C \ {c})
        BY CallsAdd
      <3> QED
        BY <3>1
    <2> QED
      BY <1>2, <2>1
  <1> QED
    BY <1>1, <1>2

(* What call p, of the calls K counts, adds to their amounts. *)
counted(p, K) == IF p \in K THEN p.amount ELSE 0

LEMMA CallJoins ==
  ASSUME NEW C \in SUBSET AnyCall, IsFiniteSet(C), NEW c \in AnyCall, c \notin C, NEW K
  PROVE  /\ sum_of(C \cap K) \in Nat
         /\ sum_of((C \cup {c}) \cap K) = sum_of(C \cap K) + counted(c, K)
  <1>1. IsFiniteSet(C \cap K) /\ IsFiniteSet((C \cap K) \cup {c})
    BY FS_Subset, FS_AddElement
  <1>2. c.amount \in Nat /\ \A p \in C : p.amount \in Nat
    BY DEF AnyCall
  <1>3. sum_of(C \cap K) \in Nat
    BY <1>1, <1>2, CallsNat
  <1>4. CASE c \in K
    <2>1. (C \cup {c}) \cap K = (C \cap K) \cup {c}
      BY <1>4
    <2>2. ((C \cap K) \cup {c}) \ {c} = C \cap K
      OBVIOUS
    <2> DEFINE D == (C \cap K) \cup {c}
    <2>3. c \in D /\ \A p \in D : p.amount \in Nat
      BY <1>2
    <2>4. IsFiniteSet(D)
      BY <1>1
    <2> HIDE DEF D
    <2>5. sum_of(D) = c.amount + sum_of(D \ {c})
      BY <2>3, <2>4, CallsAdd
    <2>6. sum_of((C \cup {c}) \cap K) = c.amount + sum_of(C \cap K)
      BY <2>1, <2>2, <2>5 DEF D
    <2>7. c.amount \in Nat /\ counted(c, K) = c.amount
      BY <1>2, <1>4 DEF counted
    <2> QED
      BY <1>3, <2>6, <2>7
  <1>5. CASE c \notin K
    <2>1. (C \cup {c}) \cap K = C \cap K
      BY <1>5
    <2>2. counted(c, K) = 0
      BY <1>5 DEF counted
    <2> QED
      BY <1>3, <2>1, <2>2
  <1> QED
    BY <1>4, <1>5

LEMMA CallLeaves ==
  ASSUME NEW C \in SUBSET AnyCall, IsFiniteSet(C), NEW c \in C, NEW K
  PROVE  /\ sum_of(C \cap K) \in Nat
         /\ counted(c, K) \in Nat /\ counted(c, K) <= sum_of(C \cap K)
         /\ sum_of((C \ {c}) \cap K) = sum_of(C \cap K) - counted(c, K)
  <1> DEFINE D == C \ {c}
  <1>1. D \in SUBSET AnyCall /\ IsFiniteSet(D) /\ c \in AnyCall /\ c \notin D
    BY FS_RemoveElement
  <1>2. C = D \cup {c}
    OBVIOUS
  <1>3. counted(c, K) \in Nat
    BY DEF counted, AnyCall
  <1> HIDE DEF D
  <1>4. /\ sum_of(D \cap K) \in Nat
        /\ sum_of((D \cup {c}) \cap K) = sum_of(D \cap K) + counted(c, K)
    BY <1>1, CallJoins
  <1>5. sum_of(C \cap K) = sum_of(D \cap K) + counted(c, K)
    BY <1>2, <1>4
  <1>6. /\ sum_of(C \cap K) \in Nat
        /\ counted(c, K) <= sum_of(C \cap K)
        /\ sum_of(D \cap K) = sum_of(C \cap K) - counted(c, K)
    <2> DEFINE x == sum_of(D \cap K)
               y == counted(c, K)
    <2> HIDE DEF x, y
    <2>1. x \in Nat /\ y \in Nat /\ sum_of(C \cap K) = x + y
      BY <1>3, <1>4, <1>5 DEF x, y
    <2>2. /\ sum_of(C \cap K) \in Nat /\ y <= sum_of(C \cap K)
          /\ x = sum_of(C \cap K) - y
      BY <2>1
    <2> QED
      BY <2>2 DEF x, y
  <1> QED
    BY <1>3, <1>6 DEF D

LEMMA CallTurns ==
  ASSUME NEW C \in SUBSET AnyCall, IsFiniteSet(C), NEW c \in C, NEW r \in AnyCall,
         r \notin C, NEW K
  PROVE  sum_of(((C \ {c}) \cup {r}) \cap K)
           = sum_of(C \cap K) - counted(c, K) + counted(r, K)
  <1> DEFINE D == C \ {c}
  <1>1. D \in SUBSET AnyCall /\ IsFiniteSet(D) /\ r \notin D
    BY FS_RemoveElement
  <1>2. sum_of(D \cap K) = sum_of(C \cap K) - counted(c, K)
    BY CallLeaves
  <1> HIDE DEF D
  <1>3. sum_of((D \cup {r}) \cap K) = sum_of(D \cap K) + counted(r, K)
    BY <1>1, CallJoins
  <1>4. sum_of((D \cup {r}) \cap K) = sum_of(C \cap K) - counted(c, K) + counted(r, K)
    BY <1>2, <1>3
  <1> QED
    BY <1>4 DEF D

-----------------------------------------------------------------------------
(***************************************************************************)
(* The moves. First what one does to the books: so much to what is staked,  *)
(* the stake and the unstake orders, what waits unstaked, the reserve, the  *)
(* balance as recorded, the balance as it is, and the NEAR under way.       *)
(***************************************************************************)
Booked(staked, stake, unstake_, waiting, reserve, recorded, native, under_way) ==
  /\ total_actually_staked' = total_actually_staked + staked
  /\ epoch_stake_orders' = epoch_stake_orders + stake
  /\ epoch_unstake_orders' = epoch_unstake_orders + unstake_
  /\ total_unstaked_and_waiting' = total_unstaked_and_waiting + waiting
  /\ reserve_for_unstake_claims' = reserve_for_unstake_claims + reserve
  /\ contract_account_balance' = contract_account_balance + recorded
  /\ account_balance' = account_balance + native
  /\ incoming' = incoming + under_way
  /\ UNCHANGED <<user_vars, total_for_staking, total_unstake_claims>>

Unbooked == Booked(0, 0, 0, 0, 0, 0, 0, 0)

(* A call of n is sent to the pool at i, which is free, and locks it. *)
Sent(i, op, n, manual) ==
  /\ i \in DOMAIN staking_pools /\ ~staking_pools[i].busy_lock
  /\ n \in Nat /\ manual \in BOOLEAN
  /\ promises' = promises \cup {Call(op, i, n)}
  /\ staking_pools' = [staking_pools EXCEPT ![i].busy_lock = TRUE]
  /\ call_recorded(i, manual)
  /\ by_hand' = IF op = "unstake" /\ manual
                THEN [by_hand EXCEPT ![pool_accounts[i]] = @ + n] ELSE by_hand
  /\ UNCHANGED <<pool_accounts, held_at, queries, rounded, unmade>>
  /\ \/ op = "stake" /\ Booked(n, -n, 0, 0, 0, 0, -n, 0)
     \/ /\ op = "restake" /\ Booked(n, -n, 0, 0, 0, 0, 0, 0)
        /\ n <= staking_pools[i].unstaked
     \/ /\ op = "unstake" /\ Booked(-n, 0, IF manual THEN 0 ELSE -n, 0, 0, 0, 0, 0)
        /\ 0 < n /\ n <= staking_pools[i].staked
     \/ op = "retrieve" /\ Unbooked /\ n = staking_pools[i].unstaked
     \/ op = "rewards" /\ Unbooked

(* Call p is called back, its pool's record then being of so much. *)
Freed(p, staked, unstaked) ==
  /\ p \in promises /\ promises' = promises \ {p}
  /\ \E sp \in StakingPoolInfo :
       /\ sp.staked = staked /\ sp.unstaked = unstaked
       /\ staking_pools' = [staking_pools EXCEPT ![p.sp] = sp]
  /\ UNCHANGED <<pool_accounts, held_at, sent_to, queries, rounded>>

(* An unstaking by hand that failed leaves the order it did not make. *)
HandFailed(p) ==
  IF sent_to[p.sp].manual
  THEN /\ unmade' = unmade + p.amount
       /\ by_hand' = [by_hand EXCEPT ![account_of(p)] = @ - p.amount]
  ELSE UNCHANGED hand_vars

CalledBack(p) ==
  LET sp == staking_pools[p.sp]
      n == p.amount
  IN \/ /\ p.status = "ok" /\ p.op = "stake"
        /\ Freed(p, sp.staked + n, sp.unstaked)
        /\ Booked(0, 0, 0, 0, 0, -n, 0, 0) /\ UNCHANGED hand_vars
     \/ /\ p.status = "ok" /\ p.op = "restake"
        /\ Freed(p, sp.staked + n, sp.unstaked - n)
        /\ Booked(0, 0, 0, -n, n, 0, 0, 0) /\ UNCHANGED hand_vars
     \/ /\ p.status = "failed" /\ p.op \in {"stake", "restake"}
        /\ Freed(p, sp.staked, sp.unstaked)
        /\ Booked(-n, n, 0, 0, 0, 0, 0, 0) /\ UNCHANGED hand_vars
     \/ /\ p.status = "ok" /\ p.op = "unstake"
        /\ Freed(p, sp.staked - n, sp.unstaked + n)
        /\ Booked(0, 0, 0, n, 0, 0, 0, 0) /\ UNCHANGED hand_vars
     \/ /\ p.status = "failed" /\ p.op = "unstake"
        /\ Freed(p, sp.staked, sp.unstaked)
        /\ Booked(n, 0, n, 0, 0, 0, 0, 0) /\ HandFailed(p)
     \/ /\ p.status = "ok" /\ p.op = "retrieve"
        /\ Freed(p, sp.staked, 0)
        /\ Booked(0, 0, 0, -minimum(total_unstaked_and_waiting, n), n, n, 0, 0)
        /\ UNCHANGED hand_vars
     \/ /\ p.status = "failed" /\ p.op \in {"retrieve", "rewards"}
        /\ Freed(p, sp.staked, sp.unstaked)
        /\ Unbooked /\ UNCHANGED hand_vars

(* The pool at `account` then holds so much more. *)
Converted(account, staked, unstaked) ==
  /\ staked \in Int /\ unstaked \in Int
  /\ held_at[account].staked + staked \in Nat
  /\ held_at[account].unstaked + unstaked \in Nat
  /\ held_at' = [held_at EXCEPT ![account] =
       [staked |-> @.staked + staked, unstaked |-> @.unstaked + unstaked]]

(* A pool answers call p. *)
Answered(p) ==
  LET a == account_of(p)
      n == p.amount
      turned(status) ==
        promises' = (promises \ {p}) \cup {[p EXCEPT !.status = status, !.reply = 0]}
  IN /\ p \in promises /\ p.status = "sent"
     /\ no_answer_from(a)
     /\ UNCHANGED <<staking_pools, pool_accounts, sent_to, queries, hand_vars>>
     /\ \/ /\ turned("failed") /\ UNCHANGED <<held_at, rounded>>
           /\ Booked(0, 0, 0, 0, 0, 0, 0, IF p.op = "stake" THEN n ELSE 0)
        \/ /\ p.op = "stake" /\ turned("ok") /\ Unbooked
           /\ Converted(a, n, 0) /\ UNCHANGED rounded
        \/ /\ p.op = "restake" /\ turned("ok") /\ Unbooked
           /\ Converted(a, n, -n) /\ UNCHANGED rounded
        \/ /\ p.op = "retrieve" /\ turned("ok") /\ Booked(0, 0, 0, 0, 0, 0, 0, n)
           /\ Converted(a, 0, -n) /\ UNCHANGED rounded
        \/ /\ p.op = "unstake" /\ turned("ok") /\ Unbooked
           /\ \E r \in {-1, 0, 1} :
                /\ Converted(a, -(n + r), n + r)
                /\ rounded' = rounded + (IF r = 0 THEN 0 ELSE 1)

(* Records keep what they say of NEAR, and their locks while calls are under way. *)
SameNear ==
  /\ staking_pools' \in Seq(StakingPoolInfo)
  /\ Len(staking_pools') = Len(staking_pools)
  /\ \A i \in DOMAIN staking_pools :
       /\ staking_pools'[i].staked = staking_pools[i].staked
       /\ staking_pools'[i].unstaked = staking_pools[i].unstaked
  /\ \A p \in promises : staking_pools'[p.sp].busy_lock

Quiet ==
  /\ SameNear
  /\ UNCHANGED <<promises, pool_accounts, beside_vars, hand_vars>>
  /\ \/ BalancedStep \/ Unbooked
     \/ \E n \in Nat : n <= incoming /\ Booked(0, 0, 0, 0, 0, 0, n, -n)

Queried ==
  /\ UNCHANGED <<promises, pool_accounts, held_at, sent_to, rounded, hand_vars>>
  /\ Unbooked
  /\ \/ /\ UNCHANGED staking_pools
        /\ \/ queries' \subseteq queries
           \/ \E q \in Query :
                /\ q.sp \in DOMAIN pool_accounts /\ pool_accounts[q.sp] = q.account
                /\ q.status = "ok" => q.reply = held_at[q.account].unstaked
                /\ queries' \subseteq queries \cup {q}
     \/ \E q \in queries :
          /\ q.status = "ok" /\ ~staking_pools[q.sp].busy_lock
          /\ queries' = queries \ {q}
          /\ staking_pools' = [staking_pools EXCEPT ![q.sp] = synced(@, q.reply)]

PoolAdded ==
  /\ UNCHANGED <<promises, beside_vars, hand_vars>> /\ Unbooked
  /\ \E account \in Range(PoolAccounts) \ Range(pool_accounts) :
       pool_accounts' = Append(pool_accounts, account)
  /\ staking_pools' = Append(staking_pools, NewStakingPool(0))

PoolRemoved(i) ==
  /\ UNCHANGED <<promises, beside_vars, hand_vars>> /\ Unbooked
  /\ i \in DOMAIN staking_pools
  /\ ~staking_pools[i].busy_lock
  /\ staking_pools[i].staked = 0 /\ staking_pools[i].unstaked = 0
  /\ no_later_index(i)
  /\ staking_pools' = RemoveAt(staking_pools, i)
  /\ pool_accounts' = RemoveAt(pool_accounts, i)

(* What was unstaked by hand is ordered back. *)
HandCompleted(i) ==
  LET a == pool_accounts[i]
  IN /\ UNCHANGED <<promises, staking_pools, pool_accounts, beside_vars, unmade>>
     /\ i \in DOMAIN staking_pools /\ free_of_calls(i)
     /\ by_hand' = [by_hand EXCEPT ![a] = 0]
     /\ Booked(0, by_hand[a], 0, 0, -by_hand[a], 0, 0, 0)

OrdersUndone ==
  /\ UNCHANGED <<promises, staking_pools, pool_accounts, beside_vars, by_hand>>
  /\ only_unmade_orders
  /\ unmade' = 0
  /\ epoch_stake_orders' = saturating_sub(total_for_staking, total_actually_staked)
  /\ epoch_unstake_orders' = saturating_sub(total_actually_staked, total_for_staking)
  /\ UNCHANGED <<user_vars, stake_vars, claim_vars, contract_account_balance,
                 account_balance, incoming>>

Move ==
  \/ \E i, op, n, manual : Sent(i, op, n, manual)
  \/ \E p \in promises : CalledBack(p) \/ Answered(p)
  \/ Quiet \/ Queried \/ PoolAdded \/ OrdersUndone
  \/ \E i \in DOMAIN staking_pools : PoolRemoved(i) \/ HandCompleted(i)

-----------------------------------------------------------------------------
(* Every step is a move, and keeps the types of the books. *)
LEMMA UnbookedTyped ==
  ASSUME LedgerTyped, Unbooked,
         accumulated_staked_rewards' \in Nat, epoch_height' \in Nat
  PROVE  LedgerTyped'
  BY DEF Unbooked, Booked, LedgerTyped, user_vars

LEMMA SameBooks ==
  ASSUME LedgerTyped, UNCHANGED <<user_vars, order_vars, stake_vars, claim_vars, money_vars>>
  PROVE  Unbooked
  BY DEF LedgerTyped, Unbooked, Booked, order_vars, stake_vars, claim_vars, money_vars

(* A free pool is called by nobody, so the call recorded is the new one. *)
LEMMA NewCall ==
  ASSUME Placed, NEW i \in DOMAIN staking_pools, ~staking_pools[i].busy_lock,
         NEW op, NEW n, promises' = promises \cup {Call(op, i, n)},
         sent_to' = [j \in DOMAIN sent_to |->
           IF \E p \in promises' \ promises : p.sp = j
           THEN [account |-> pool_accounts[j], manual |-> FALSE] ELSE sent_to[j]]
  PROVE  call_recorded(i, FALSE)
  <1>1. Call(op, i, n).sp = i
    BY DEF Call
  <1>2. Call(op, i, n) \notin promises
    BY <1>1 DEF Placed, OneCallPerPool
  <1>3. promises' \ promises = {Call(op, i, n)}
    BY <1>2
  <1>4. \A j : (\E p \in promises' \ promises : p.sp = j) <=> j = i
    BY <1>1, <1>3
  <1>5. sent_to = [j \in DOMAIN PoolAccounts |-> sent_to[j]]
    BY DEF Placed, CallsTyped
  <1> QED
    BY <1>4, <1>5 DEF call_recorded

LEMMA SameCallsRecorded ==
  ASSUME Placed, UNCHANGED promises,
         sent_to' = [j \in DOMAIN sent_to |->
           IF \E p \in promises' \ promises : p.sp = j
           THEN [account |-> pool_accounts[j], manual |-> FALSE] ELSE sent_to[j]]
  PROVE  UNCHANGED sent_to
  <1>1. sent_to = [j \in DOMAIN PoolAccounts |-> sent_to[j]]
    BY DEF Placed, CallsTyped
  <1> QED
    BY <1>1

LEMMA Requirements ==
  ASSUME Placed, NEW i \in DOMAIN staking_pools
  PROVE  /\ required_stake(staking_pools[i]) \in Nat
         /\ required_unstake(staking_pools[i]) \in Nat
         /\ required_stake(staking_pools[i]) > 0 => ~staking_pools[i].busy_lock
         /\ required_unstake(staking_pools[i]) > 0 => ~staking_pools[i].busy_lock
  <1>1. /\ staking_pools[i].staked \in Nat /\ staking_pools[i].weight_basis_points \in Nat
        /\ total_for_staking \in Nat
    BY Listed DEF Placed, LedgerTyped
  <1>2. should_have(staking_pools[i]) \in Nat
    BY <1>1, ApplyPctNat DEF should_have
  <1>3. /\ saturating_sub(should_have(staking_pools[i]), staking_pools[i].staked) \in Nat
        /\ saturating_sub(staking_pools[i].staked, should_have(staking_pools[i])) \in Nat
    BY <1>1, <1>2, SaturatingSubNat
  <1>4. CASE staking_pools[i].busy_lock
    BY <1>4 DEF required_stake, required_unstake, may_unstake
  <1>5. CASE ~staking_pools[i].busy_lock
    BY <1>3, <1>5 DEF required_stake, required_unstake
  <1> QED
    BY <1>4, <1>5

LEMMA DirectStakeSent ==
  ASSUME Placed, NEW i \in DOMAIN staking_pools, ~staking_pools[i].busy_lock,
         NEW requested \in Nat, direct_stake(i, requested),
         NEW manual \in BOOLEAN, call_recorded(i, manual),
         UNCHANGED <<user_vars, epoch_unstake_orders, total_for_staking, claim_vars,
                     contract_account_balance, incoming, accumulated_staked_rewards,
                     epoch_height, pool_accounts, held_at, queries, rounded, hand_vars>>
  PROVE  LedgerTyped' /\ Move
  <1> DEFINE sp == staking_pools[i]
             restake == sp.unstaked >= MinRestakeAmount
             amount == IF restake THEN amount_to_restake(sp, requested) ELSE requested
             op == IF restake THEN "restake" ELSE "stake"
             sent == IF restake THEN 0 ELSE amount
  <1>1. sp.unstaked \in Nat
    BY Listed DEF Placed
  <1>2. amount \in Nat /\ (restake => amount <= sp.unstaked)
    BY <1>1, MinimumBounds DEF amount_to_restake
  <1>3. /\ lock_and_call(i, Call(op, i, amount))
        /\ amount <= epoch_stake_orders
        /\ total_actually_staked' = total_actually_staked + amount
        /\ epoch_stake_orders' = epoch_stake_orders - amount
        /\ IF restake THEN UNCHANGED account_balance
           ELSE /\ account_balance >= MinBalanceForStorage + amount
                /\ account_balance' = account_balance - amount
    BY DEF direct_stake
  <1> HIDE DEF amount, restake
  <1>4. sent \in Nat /\ account_balance' = account_balance - sent
    BY <1>2, <1>3 DEF Placed, LedgerTyped
  <1>5. account_balance - sent >= 0
    BY <1>2, <1>3, Constants DEF Placed, LedgerTyped
  <1>6. Booked(amount, -amount, 0, 0, 0, 0, -sent, 0)
    BY <1>2, <1>3, <1>4 DEF Booked, Placed, LedgerTyped, claim_vars
  <1>7. /\ total_actually_staked' \in Nat /\ epoch_stake_orders' \in Nat
        /\ account_balance' \in Nat
    BY <1>2, <1>3, <1>4, <1>5 DEF Placed, LedgerTyped
  <1>8. LedgerTyped'
    BY <1>7 DEF Placed, LedgerTyped, user_vars, claim_vars
  <1>9. Sent(i, op, amount, manual)
    <2>1. /\ promises' = promises \cup {Call(op, i, amount)}
          /\ staking_pools' = [staking_pools EXCEPT ![i].busy_lock = TRUE]
      BY <1>3 DEF lock_and_call
    <2>2. CASE restake
      BY <1>2, <1>6, <2>1, <2>2 DEF Sent, hand_vars
    <2>3. CASE ~restake
      BY <1>2, <1>6, <2>1, <2>3 DEF Sent, hand_vars
    <2> QED
      BY <2>2, <2>3
  <1> QED
    BY <1>8, <1>9 DEF Move

LEMMA QuietBooks ==
  ASSUME Placed, LedgerTyped', BalancedStep,
         UNCHANGED <<pool_accounts, beside_vars, hand_vars>>
  PROVE  LedgerTyped' /\ Move
  <1>1. UNCHANGED <<staking_pools, promises>>
    BY DEF BalancedStep, Balanced, pool_vars
  <1>2. SameNear
    BY <1>1 DEF SameNear, Placed, PoolsListed, OneCallPerPool
  <1> QED
    BY <1>1, <1>2 DEF Move, Quiet

LEMMA HeartbeatMove ==
  ASSUME Placed, heartbeat_call
  PROVE  LedgerTyped' /\ Move
  <1> DEFINE Recorded == sent_to' = [j \in DOMAIN sent_to |->
               IF \E p \in promises' \ promises : p.sp = j
               THEN [account |-> pool_accounts[j], manual |-> FALSE] ELSE sent_to[j]]
  <1>1. /\ HeartbeatCall /\ Recorded
        /\ UNCHANGED <<pool_accounts, held_at, queries, rounded, hand_vars>>
    BY DEF heartbeat_call
  <1> HIDE DEF Recorded
  <1>2. ASSUME LedgerTyped', BalancedStep
        PROVE  LedgerTyped' /\ Move
    <2>1. UNCHANGED promises
      BY <1>2 DEF BalancedStep, Balanced, pool_vars
    <2>2. UNCHANGED sent_to
      BY <1>1, <2>1, SameCallsRecorded DEF Recorded
    <2> QED
      BY <1>1, <1>2, <2>2, QuietBooks DEF beside_vars
  <1>3. CASE distribute_staking_clearing
    BY <1>2, <1>3, ClearingMoves DEF Placed
  <1>4. CASE end_of_epoch_clearing
    <2>1. /\ to_keep \in Nat
          /\ to_keep <= epoch_stake_orders /\ to_keep <= epoch_unstake_orders
      BY MinimumBounds DEF to_keep, Placed, LedgerTyped
    <2>2. LedgerTyped'
      BY <1>4, <2>1
      DEF end_of_epoch_clearing, Placed, LedgerTyped, user_vars, stake_vars, money_vars
    <2>3. Balanced(0, -to_keep, to_keep, -to_keep)
      BY <1>4, <2>1
      DEF end_of_epoch_clearing, Placed, LedgerTyped, Balanced, user_vars, stake_vars,
          pool_vars, money_vars
    <2>4. to_keep \in Int /\ -to_keep \in Int /\ 0 \in Int
      BY <2>1
    <2>5. BalancedStep
      BY <2>3, <2>4 DEF BalancedStep
    <2> QED
      BY <1>2, <2>2, <2>5
  <1>5. CASE distribute_staking_call
    <2>1. PICK i \in DOMAIN staking_pools :
            /\ is_most_unbalanced(i, stake_imbalance)
            /\ direct_stake(i, amount_to_move(required_stake(staking_pools[i]),
                                              total_amount_to_stake, TRUE))
      BY <1>5 DEF distribute_staking_call
    <2> DEFINE requested == amount_to_move(required_stake(staking_pools[i]),
                                           total_amount_to_stake, TRUE)
    <2>2. ~staking_pools[i].busy_lock
      BY <2>1, Requirements DEF is_most_unbalanced, stake_imbalance
    <2>3. total_amount_to_stake \in Nat
      <3>1. total_for_staking - total_actually_staked \in Nat
        BY <1>5 DEF distribute_staking_call, Placed, LedgerTyped
      <3> QED
        BY <3>1, MinimumBounds DEF total_amount_to_stake, Placed, LedgerTyped
    <2>4. requested \in Nat
      BY <2>3, Requirements, MoveBounds
    <2>5. direct_stake(i, requested)
      BY <2>1
    <2> HIDE DEF requested
    <2>6. PICK op, n : promises' = promises \cup {Call(op, i, n)}
      BY <2>5 DEF direct_stake, lock_and_call
    <2>7. call_recorded(i, FALSE)
      BY <1>1, <2>2, <2>6, NewCall DEF Recorded
    <2>8. UNCHANGED <<user_vars, epoch_unstake_orders, total_for_staking, claim_vars,
                      contract_account_balance, incoming, accumulated_staked_rewards,
                      epoch_height>>
      BY <1>5 DEF distribute_staking_call
    <2> QED
      BY <1>1, <2>2, <2>4, <2>5, <2>7, <2>8, DirectStakeSent
  <1>6. CASE distribute_unstaking
    <2>1. PICK i \in DOMAIN staking_pools :
            /\ is_most_unbalanced(i, unstake_imbalance)
            /\ direct_unstake(i, amount_to_unstake(staking_pools[i]))
      BY <1>6 DEF distribute_unstaking
    <2> DEFINE sp == staking_pools[i]
               selected == minimum(required_unstake(sp), total_to_unstake)
               remainder == total_to_unstake - selected
               amount == amount_to_unstake(sp)
    <2>2. ~staking_pools[i].busy_lock
      BY <2>1, Requirements DEF is_most_unbalanced, unstake_imbalance
    <2>3. total_to_unstake \in Nat
      <3>1. total_actually_staked - total_for_staking \in Nat
        BY <1>6 DEF distribute_unstaking, Placed, LedgerTyped
      <3> QED
        BY <3>1, MinimumBounds DEF total_to_unstake, Placed, LedgerTyped
    <2>4. amount \in Nat
      <3>1. amount = amount_to_move(required_unstake(sp), total_to_unstake,
                                    sp.staked > selected + remainder + 2 * MinMovement)
        BY DEF amount_to_unstake
      <3> QED
        BY <2>3, <3>1, Requirements, MoveBounds
    <2>5. /\ lock_and_call(i, Call("unstake", i, amount))
          /\ amount > 0 /\ amount <= sp.staked
          /\ amount <= total_actually_staked /\ amount <= epoch_unstake_orders
          /\ total_actually_staked' = total_actually_staked - amount
          /\ epoch_unstake_orders' = epoch_unstake_orders - amount
      BY <2>1 DEF direct_unstake
    <2> HIDE DEF amount
    <2>6. UNCHANGED <<user_vars, epoch_stake_orders, total_for_staking, claim_vars,
                      money_vars, accumulated_staked_rewards, epoch_height>>
      BY <1>6 DEF distribute_unstaking
    <2>7. /\ promises' = promises \cup {Call("unstake", i, amount)}
          /\ staking_pools' = [staking_pools EXCEPT ![i].busy_lock = TRUE]
      BY <2>5 DEF lock_and_call
    <2>8. call_recorded(i, FALSE)
      BY <1>1, <2>2, <2>7, NewCall DEF Recorded
    <2>9. total_actually_staked' \in Nat /\ epoch_unstake_orders' \in Nat
      BY <2>4, <2>5 DEF Placed, LedgerTyped
    <2>10. LedgerTyped'
      BY <2>6, <2>9 DEF Placed, LedgerTyped, user_vars, claim_vars, money_vars
    <2>11. Booked(-amount, 0, -amount, 0, 0, 0, 0, 0)
      BY <2>4, <2>5, <2>6 DEF Booked, Placed, LedgerTyped, claim_vars, money_vars
    <2>12. Sent(i, "unstake", amount, FALSE)
      BY <1>1, <2>2, <2>4, <2>5, <2>7, <2>8, <2>11 DEF Sent, hand_vars
    <2> QED
      BY <2>10, <2>12 DEF Move
  <1>7. ASSUME NEW i \in DOMAIN staking_pools, NEW op \in {"retrieve", "rewards"},
               NEW n \in Nat, op = "retrieve" => n = staking_pools[i].unstaked,
               free_to_call(i), lock_and_call(i, Call(op, i, n)),
               UNCHANGED <<user_vars, order_vars, stake_vars, claim_vars, money_vars,
                           accumulated_staked_rewards, epoch_height>>
        PROVE  LedgerTyped' /\ Move
    <2>1. ~staking_pools[i].busy_lock
      BY <1>7 DEF free_to_call
    <2>2. /\ promises' = promises \cup {Call(op, i, n)}
          /\ staking_pools' = [staking_pools EXCEPT ![i].busy_lock = TRUE]
      BY <1>7 DEF lock_and_call
    <2>3. call_recorded(i, FALSE)
      BY <1>1, <2>1, <2>2, NewCall DEF Recorded
    <2>4. Unbooked
      BY <1>7, SameBooks DEF Placed
    <2>5. LedgerTyped'
      BY <1>7, <2>4, UnbookedTyped DEF Placed, LedgerTyped
    <2>6. Sent(i, op, n, FALSE)
      BY <1>1, <1>7, <2>1, <2>2, <2>3, <2>4 DEF Sent, hand_vars
    <2> QED
      BY <2>5, <2>6 DEF Move
  <1>8. CASE \E i \in DOMAIN staking_pools : retrieve_funds_from_a_pool(i)
    BY <1>7, <1>8, Listed DEF retrieve_funds_from_a_pool, Placed
  <1>9. CASE \E i \in AskedPools \cap DOMAIN staking_pools : distribute_rewards(i)
    BY <1>7, <1>9 DEF distribute_rewards
  <1> QED
    BY <1>1, <1>3, <1>4, <1>5, <1>6, <1>8, <1>9 DEF HeartbeatCall, distribute_staking

(* Only the call that was called back is gone. *)
LEMMA HandsAfter ==
  ASSUME Placed, NEW p \in promises, promises' = promises \ {p},
         LET failed == {q \in promises \ promises' : failed_by_hand(q)}
         IN /\ unmade' = unmade + amount_of(failed)
            /\ by_hand' = [a \in DOMAIN by_hand |->
                 by_hand[a] - amount_of({q \in failed : account_of(q) = a})]
  PROVE  IF failed_by_hand(p)
         THEN /\ unmade' = unmade + p.amount
              /\ by_hand' = [by_hand EXCEPT ![account_of(p)] = @ - p.amount]
         ELSE UNCHANGED hand_vars
  <1> DEFINE failed == {q \in promises \ promises' : failed_by_hand(q)}
             of(a) == {q \in failed : account_of(q) = a}
  <1>1. promises \ promises' = {p}
    OBVIOUS
  <1>2. /\ unmade' = unmade + amount_of(failed)
        /\ by_hand' = [a \in DOMAIN by_hand |-> by_hand[a] - amount_of(of(a))]
    OBVIOUS
  <1>3. /\ unmade \in Nat /\ DOMAIN by_hand = Range(PoolAccounts)
        /\ by_hand = [a \in DOMAIN by_hand |-> by_hand[a]]
        /\ \A a \in DOMAIN by_hand : by_hand[a] \in Nat
    BY DEF Placed, CallsTyped
  <1>4. amount_of({}) = 0 /\ amount_of({p}) = p.amount
    BY DEF amount_of
  <1>5. CASE failed_by_hand(p)
    <2>1. failed = {p}
      BY <1>1, <1>5
    <2>2. \A a : of(a) = IF a = account_of(p) THEN {p} ELSE {}
      BY <2>1
    <2>3. \A a \in DOMAIN by_hand :
            by_hand[a] - amount_of(of(a))
              = IF a = account_of(p) THEN by_hand[a] - p.amount ELSE by_hand[a]
      BY <1>3, <1>4, <2>2
    <2> HIDE DEF of, failed
    <2> QED
      BY <1>2, <1>3, <1>4, <1>5, <2>1, <2>3
  <1>6. CASE ~failed_by_hand(p)
    <2>1. failed = {}
      BY <1>1, <1>6
    <2>2. \A a : of(a) = {}
      BY <2>1
    <2>3. \A a \in DOMAIN by_hand : by_hand[a] - amount_of(of(a)) = by_hand[a]
      BY <1>3, <1>4, <2>2
    <2> HIDE DEF of, failed
    <2> QED
      BY <1>2, <1>3, <1>4, <1>6, <2>1, <2>3 DEF hand_vars
  <1> QED
    BY <1>5, <1>6

LEMMA UnlockFrees ==
  ASSUME Placed, NEW p \in promises, NEW sp \in StakingPoolInfo, unlock_with(p, sp),
         UNCHANGED <<pool_accounts, beside_vars>>
  PROVE  Freed(p, sp.staked, sp.unstaked)
  <1> DEFINE free == [sp EXCEPT !.busy_lock = FALSE]
  <1>1. free \in StakingPoolInfo /\ free.staked = sp.staked /\ free.unstaked = sp.unstaked
    BY DEF StakingPoolInfo
  <1>2. /\ promises' = promises \ {p}
        /\ staking_pools' = [staking_pools EXCEPT ![p.sp] = free]
    BY DEF unlock_with
  <1> HIDE DEF free
  <1> QED
    BY <1>1, <1>2 DEF Freed, beside_vars

LEMMA CallFacts ==
  ASSUME Placed, NEW p \in promises
  PROVE  /\ p \in AnyCall /\ p.amount \in Nat /\ p.op \in Operation
         /\ p.status \in {"sent", "ok", "failed"}
         /\ p.sp \in DOMAIN staking_pools
         /\ staking_pools[p.sp] \in StakingPoolInfo
         /\ staking_pools[p.sp].staked \in Nat /\ staking_pools[p.sp].unstaked \in Nat
         /\ staking_pools[p.sp].busy_lock
         /\ account_of(p) = pool_accounts[p.sp] /\ account_of(p) \in Range(PoolAccounts)
         /\ \A q \in promises : q.sp = p.sp => q = p
         /\ CallCovered(p)
  <1>1. p \in AnyCall
    BY DEF Placed, CallsTyped
  <1>2. p.sp \in DOMAIN staking_pools /\ account_of(p) = pool_accounts[p.sp]
    BY Listed DEF Placed, CallbackFindsItsPool
  <1>3. staking_pools[p.sp].busy_lock /\ \A q \in promises : q.sp = p.sp => q = p
    BY DEF Placed, OneCallPerPool
  <1> QED
    BY <1>1, <1>2, <1>3, Listed DEF Placed, AnyCall, CallsCovered

LEMMA CallbackMove ==
  ASSUME Placed, callback
  PROVE  LedgerTyped' /\ Move
  <1>1. PICK p \in promises :
          \/ on_staking_pool_stake_maybe_deposit(p)
          \/ on_staking_pool_unstake(p)
          \/ on_retrieve_from_staking_pool(p)
          \/ on_get_sp_total_balance(p)
          \/ on_get_sp_total_balance_panics(p)
    BY DEF callback, Callback
  <1> DEFINE sp == staking_pools[p.sp]
             n == p.amount
  <1>2. /\ n \in Nat /\ sp \in StakingPoolInfo /\ sp.staked \in Nat /\ sp.unstaked \in Nat
        /\ CallCovered(p)
    BY CallFacts
  <1>3. UNCHANGED <<pool_accounts, beside_vars>>
    BY DEF callback
  <1>4. promises' = promises \ {p}
    BY <1>1 DEF on_staking_pool_stake_maybe_deposit, on_staking_pool_unstake,
                on_retrieve_from_staking_pool, on_get_sp_total_balance,
                on_get_sp_total_balance_panics, unlock_with
  <1>5. IF failed_by_hand(p)
        THEN /\ unmade' = unmade + n
             /\ by_hand' = [by_hand EXCEPT ![account_of(p)] = @ - n]
        ELSE UNCHANGED hand_vars
    BY <1>4, HandsAfter DEF callback
  <1>6. ASSUME CalledBack(p) PROVE Move
    BY <1>6 DEF Move
  <1>7. CASE on_staking_pool_stake_maybe_deposit(p)
    <2> DEFINE deposited == [sp EXCEPT !.staked = @ + n]
               restaked == [sp EXCEPT !.staked = @ + n, !.unstaked = @ - n]
    <2>1. /\ UNCHANGED <<user_vars, epoch_unstake_orders, total_for_staking, account_balance,
                         incoming, accumulated_staked_rewards, epoch_height>>
          /\ p.op \in {"stake", "restake"}
      BY <1>7 DEF on_staking_pool_stake_maybe_deposit
    <2>2. UNCHANGED hand_vars
      BY <1>5, <2>1 DEF failed_by_hand
    <2>3. CASE /\ p.status = "ok" /\ p.op = "stake"
               /\ n <= contract_account_balance
               /\ contract_account_balance' = contract_account_balance - n
               /\ unlock_with(p, deposited)
               /\ UNCHANGED <<total_actually_staked, epoch_stake_orders, claim_vars>>
      <3>1. /\ deposited \in StakingPoolInfo
            /\ deposited.staked = sp.staked + n /\ deposited.unstaked = sp.unstaked
        BY <1>2 DEF StakingPoolInfo
      <3>2. Freed(p, sp.staked + n, sp.unstaked)
        <4> HIDE DEF deposited
        <4>1. Freed(p, deposited.staked, deposited.unstaked)
          BY <1>3, <2>3, <3>1, UnlockFrees
        <4> QED
          BY <3>1, <4>1
      <3>3. LedgerTyped'
        BY <1>2, <2>1, <2>3 DEF Placed, LedgerTyped, user_vars, claim_vars
      <3>4. Booked(0, 0, 0, 0, 0, -n, 0, 0)
        BY <1>2, <2>1, <2>3 DEF Booked, Placed, LedgerTyped, claim_vars
      <3> QED
        BY <1>6, <2>2, <2>3, <3>2, <3>3, <3>4 DEF CalledBack
    <2>4. CASE /\ p.status = "ok" /\ p.op = "restake"
               /\ n <= sp.unstaked /\ n <= total_unstaked_and_waiting
               /\ unlock_with(p, restaked)
               /\ total_unstaked_and_waiting' = total_unstaked_and_waiting - n
               /\ restaked_to_reserve(n)
               /\ UNCHANGED <<total_actually_staked, epoch_stake_orders,
                              total_unstake_claims, contract_account_balance>>
      <3>1. /\ restaked \in StakingPoolInfo
            /\ restaked.staked = sp.staked + n /\ restaked.unstaked = sp.unstaked - n
        <4>1. sp.staked + n \in Nat /\ sp.unstaked - n \in Nat
          BY <1>2, <2>4
        <4> QED
          BY <1>2, <4>1 DEF StakingPoolInfo
      <3>2. Freed(p, sp.staked + n, sp.unstaked - n)
        <4> HIDE DEF restaked
        <4>1. Freed(p, restaked.staked, restaked.unstaked)
          BY <1>3, <2>4, <3>1, UnlockFrees
        <4> QED
          BY <3>1, <4>1
      <3>3. LedgerTyped'
        BY <1>2, <2>1, <2>4 DEF Placed, LedgerTyped, user_vars, restaked_to_reserve
      <3>4. Booked(0, 0, 0, -n, n, 0, 0, 0)
        BY <1>2, <2>1, <2>4 DEF Booked, Placed, LedgerTyped, restaked_to_reserve
      <3> QED
        BY <1>6, <2>2, <2>4, <3>2, <3>3, <3>4 DEF CalledBack
    <2>5. CASE /\ p.status = "failed"
               /\ n <= total_actually_staked
               /\ unlock_with(p, sp)
               /\ undo_stake(n)
               /\ UNCHANGED <<claim_vars, contract_account_balance>>
      <3>1. Freed(p, sp.staked, sp.unstaked)
        BY <1>2, <1>3, <2>5, UnlockFrees
      <3>2. LedgerTyped'
        BY <1>2, <2>1, <2>5 DEF Placed, LedgerTyped, user_vars, claim_vars, undo_stake
      <3>3. Booked(-n, n, 0, 0, 0, 0, 0, 0)
        BY <1>2, <2>1, <2>5 DEF Booked, Placed, LedgerTyped, claim_vars, undo_stake
      <3> QED
        BY <1>6, <2>1, <2>2, <2>5, <3>1, <3>2, <3>3 DEF CalledBack
    <2> QED
      BY <1>7, <2>3, <2>4, <2>5 DEF on_staking_pool_stake_maybe_deposit
  <1>8. CASE on_staking_pool_unstake(p)
    <2> DEFINE unstaked == [sp EXCEPT !.staked = @ - n, !.unstaked = @ + n,
                                      !.unstk_req_epoch_height = epoch_height]
    <2>1. /\ UNCHANGED <<user_vars, epoch_stake_orders, total_for_staking,
                         reserve_for_unstake_claims, total_unstake_claims, money_vars,
                         accumulated_staked_rewards, epoch_height>>
          /\ p.op = "unstake"
      BY <1>8 DEF on_staking_pool_unstake
    <2>2. CASE /\ p.status = "ok"
               /\ n <= sp.staked
               /\ unlock_with(p, unstaked)
               /\ total_unstaked_and_waiting' = total_unstaked_and_waiting + n
               /\ UNCHANGED <<total_actually_staked, epoch_unstake_orders>>
      <3>1. /\ unstaked \in StakingPoolInfo
            /\ unstaked.staked = sp.staked - n /\ unstaked.unstaked = sp.unstaked + n
        <4>1. sp.staked - n \in Nat /\ sp.unstaked + n \in Nat /\ epoch_height \in Nat
          BY <1>2, <2>2 DEF Placed, LedgerTyped
        <4> QED
          BY <1>2, <4>1 DEF StakingPoolInfo
      <3>2. Freed(p, sp.staked - n, sp.unstaked + n)
        <4> HIDE DEF unstaked
        <4>1. Freed(p, unstaked.staked, unstaked.unstaked)
          BY <1>3, <2>2, <3>1, UnlockFrees
        <4> QED
          BY <3>1, <4>1
      <3>3. LedgerTyped'
        BY <1>2, <2>1, <2>2 DEF Placed, LedgerTyped, user_vars, money_vars
      <3>4. Booked(0, 0, 0, n, 0, 0, 0, 0)
        BY <1>2, <2>1, <2>2 DEF Booked, Placed, LedgerTyped, money_vars
      <3>5. UNCHANGED hand_vars
        BY <1>5, <2>2 DEF failed_by_hand
      <3> QED
        BY <1>6, <2>1, <2>2, <3>2, <3>3, <3>4, <3>5 DEF CalledBack
    <2>3. CASE /\ p.status = "failed"
               /\ unlock_with(p, sp)
               /\ total_actually_staked' = total_actually_staked + n
               /\ epoch_unstake_orders' = epoch_unstake_orders + n
               /\ UNCHANGED total_unstaked_and_waiting
      <3>1. Freed(p, sp.staked, sp.unstaked)
        BY <1>2, <1>3, <2>3, UnlockFrees
      <3>2. LedgerTyped'
        BY <1>2, <2>1, <2>3 DEF Placed, LedgerTyped, user_vars, money_vars
      <3>3. Booked(n, 0, n, 0, 0, 0, 0, 0)
        BY <1>2, <2>1, <2>3 DEF Booked, Placed, LedgerTyped, money_vars
      <3>4. HandFailed(p)
        BY <1>5, <2>1, <2>3 DEF failed_by_hand, HandFailed
      <3> QED
        BY <1>6, <2>1, <2>3, <3>1, <3>2, <3>3, <3>4 DEF CalledBack
    <2> QED
      BY <1>8, <2>2, <2>3 DEF on_staking_pool_unstake
  <1>9. CASE on_retrieve_from_staking_pool(p)
    <2> DEFINE emptied == [sp EXCEPT !.unstaked = 0]
    <2>1. /\ UNCHANGED <<user_vars, order_vars, stake_vars, total_unstake_claims,
                         account_balance, incoming, accumulated_staked_rewards, epoch_height>>
          /\ p.op = "retrieve"
      BY <1>9 DEF on_retrieve_from_staking_pool
    <2>2. UNCHANGED hand_vars
      BY <1>5, <2>1 DEF failed_by_hand
    <2>3. CASE /\ p.status = "ok"
               /\ unlock_with(p, emptied)
               /\ total_unstaked_and_waiting' =
                    saturating_sub(total_unstaked_and_waiting, sp.unstaked)
               /\ contract_account_balance' = contract_account_balance + sp.unstaked
               /\ reserve_for_unstake_claims' = reserve_for_unstake_claims + sp.unstaked
      <3>1. /\ emptied \in StakingPoolInfo
            /\ emptied.staked = sp.staked /\ emptied.unstaked = 0
        BY <1>2 DEF StakingPoolInfo
      <3>2. Freed(p, sp.staked, 0)
        <4> HIDE DEF emptied
        <4>1. Freed(p, emptied.staked, emptied.unstaked)
          BY <1>3, <2>3, <3>1, UnlockFrees
        <4> QED
          BY <3>1, <4>1
      <3>3. sp.unstaked = n
        BY <1>2, <2>1 DEF CallCovered
      <3>4. LedgerTyped'
        BY <1>2, <2>1, <2>3, SaturatingSubNat
        DEF Placed, LedgerTyped, user_vars, order_vars, stake_vars
      <3>5. total_unstaked_and_waiting'
              = total_unstaked_and_waiting + (-minimum(total_unstaked_and_waiting, n))
        BY <1>2, <2>3, <3>3 DEF saturating_sub, minimum, Placed, LedgerTyped
      <3>6. Booked(0, 0, 0, -minimum(total_unstaked_and_waiting, n), n, n, 0, 0)
        BY <1>2, <2>1, <2>3, <3>3, <3>5
        DEF Booked, Placed, LedgerTyped, order_vars, stake_vars
      <3> QED
        BY <1>6, <2>1, <2>2, <2>3, <3>2, <3>4, <3>6 DEF CalledBack
    <2>4. CASE /\ p.status = "failed"
               /\ unlock_with(p, sp)
               /\ UNCHANGED <<total_unstaked_and_waiting, contract_account_balance,
                              reserve_for_unstake_claims>>
      <3>1. Freed(p, sp.staked, sp.unstaked)
        BY <1>2, <1>3, <2>4, UnlockFrees
      <3>2. UNCHANGED <<user_vars, order_vars, stake_vars, claim_vars, money_vars>>
        BY <2>1, <2>4 DEF claim_vars, money_vars
      <3>3. Unbooked
        BY <3>2, SameBooks DEF Placed
      <3>4. LedgerTyped'
        BY <2>1, <3>3, UnbookedTyped DEF Placed, LedgerTyped
      <3> QED
        BY <1>6, <2>1, <2>2, <2>4, <3>1, <3>3, <3>4 DEF CalledBack
    <2> QED
      BY <1>9, <2>3, <2>4 DEF on_retrieve_from_staking_pool
  <1>10. CASE on_get_sp_total_balance(p)
    BY <1>2, <1>10 DEF on_get_sp_total_balance, CallCovered
  <1>11. CASE on_get_sp_total_balance_panics(p)
    <2>1. /\ p.op = "rewards" /\ p.status = "failed"
          /\ UNCHANGED <<user_vars, order_vars, stake_vars, claim_vars, staking_pools,
                         money_vars, accumulated_staked_rewards, epoch_height>>
      BY <1>11 DEF on_get_sp_total_balance_panics
    <2>2. staking_pools' = [staking_pools EXCEPT ![p.sp] = sp]
      <3>1. staking_pools \in Seq(StakingPoolInfo)
        BY DEF Placed, PoolsListed
      <3> QED
        BY <2>1, <3>1, LenProperties
    <2>3. Freed(p, sp.staked, sp.unstaked)
      BY <1>2, <1>3, <1>4, <2>2 DEF Freed, beside_vars
    <2>4. UNCHANGED hand_vars
      BY <1>5, <2>1 DEF failed_by_hand
    <2>5. Unbooked
      BY <2>1, SameBooks DEF Placed
    <2>6. LedgerTyped'
      BY <2>1, <2>5, UnbookedTyped DEF Placed, LedgerTyped
    <2> QED
      BY <1>6, <2>1, <2>3, <2>4, <2>5, <2>6 DEF CalledBack
  <1> QED
    BY <1>1, <1>7, <1>8, <1>9, <1>10, <1>11

LEMMA AnswerMove ==
  ASSUME Placed, NEW p \in promises, pool_answers(p)
  PROVE  LedgerTyped' /\ Move
  <1> DEFINE a == account_of(p)
             n == p.amount
             held == held_at[a]
             turned(status) ==
               promises' = (promises \ {p}) \cup {[p EXCEPT !.status = status, !.reply = 0]}
  <1>1. /\ n \in Nat /\ a \in Range(PoolAccounts) /\ p.op \in Operation
        /\ CallCovered(p)
    BY CallFacts
  <1>2. /\ held_at \in [Range(PoolAccounts) -> [staked : Nat, unstaked : Nat]]
        /\ held.staked \in Nat /\ held.unstaked \in Nat /\ rounded \in Nat
    BY <1>1 DEF Placed, CallsTyped
  <1>3. /\ no_answer_from(a)
        /\ UNCHANGED <<pool_accounts, sent_to, queries, hand_vars>>
    BY DEF pool_answers
  <1>4. ASSUME p.status = "sent", UNCHANGED staking_pools, LedgerTyped',
               turned("failed"), UNCHANGED <<held_at, rounded>>,
               Booked(0, 0, 0, 0, 0, 0, 0, IF p.op = "stake" THEN n ELSE 0)
        PROVE  LedgerTyped' /\ Move
    <2>1. Answered(p)
      BY <1>3, <1>4 DEF Answered
    <2> QED
      BY <1>4, <2>1 DEF Move
  <1>5. CASE ~short_of(p) /\ pool_performs(p) /\ pool_converts(p)
    <2>1. /\ p.status = "sent"
          /\ UNCHANGED <<user_vars, order_vars, stake_vars, claim_vars, staking_pools,
                         contract_account_balance, account_balance,
                         accumulated_staked_rewards, epoch_height>>
      BY <1>5 DEF pool_performs
    <2>2. ASSUME Answered(p), incoming' \in Nat PROVE LedgerTyped' /\ Move
      <3>1. LedgerTyped'
        BY <2>1, <2>2 DEF Placed, LedgerTyped, user_vars, order_vars, stake_vars, claim_vars
      <3> QED
        BY <2>2, <3>1 DEF Move
    <2>3. ASSUME UNCHANGED incoming PROVE Unbooked
      BY <2>1, <2>3, SameBooks DEF Placed, money_vars
    <2>4. incoming \in Nat
      BY DEF Placed, LedgerTyped
    <2>5. CASE p.op = "stake" /\ pool_moves(p, n, 0) /\ UNCHANGED rounded
      <3>1. turned("ok") /\ UNCHANGED incoming
        BY <1>5, <2>5 DEF pool_performs, resolved
      <3>2. Converted(a, n, 0)
        BY <1>1, <1>2, <2>5 DEF Converted, pool_moves
      <3>3. Answered(p)
        BY <1>3, <2>1, <2>3, <2>5, <3>1, <3>2 DEF Answered
      <3> QED
        BY <2>2, <2>4, <3>1, <3>3
    <2>6. CASE p.op = "restake" /\ pool_moves(p, n, -n) /\ UNCHANGED rounded
      <3>1. turned("ok") /\ UNCHANGED incoming
        BY <1>5, <2>6 DEF pool_performs, resolved
      <3>2. n <= held.unstaked
        BY <1>1, <1>2, <1>5, <2>6 DEF short_of
      <3>3. Converted(a, n, -n)
        BY <1>1, <1>2, <2>6, <3>2 DEF Converted, pool_moves
      <3>4. Answered(p)
        BY <1>3, <2>1, <2>3, <2>6, <3>1, <3>3 DEF Answered
      <3> QED
        BY <2>2, <2>4, <3>1, <3>4
    <2>7. CASE p.op = "retrieve" /\ pool_moves(p, 0, -n) /\ UNCHANGED rounded
      <3>1. turned("ok") /\ incoming' = incoming + n
        BY <1>5, <2>7 DEF pool_performs, resolved
      <3>2. n <= held.unstaked
        BY <1>1, <1>2, <1>5, <2>7 DEF short_of
      <3>3. Converted(a, 0, -n)
        BY <1>1, <1>2, <2>7, <3>2 DEF Converted, pool_moves
      <3>4. Booked(0, 0, 0, 0, 0, 0, 0, n)
        BY <1>1, <2>1, <3>1
        DEF Booked, Placed, LedgerTyped, order_vars, stake_vars, claim_vars
      <3>5. Answered(p)
        BY <1>3, <2>1, <2>7, <3>1, <3>3, <3>4 DEF Answered
      <3>6. incoming' \in Nat
        BY <1>1, <2>4, <3>1
      <3> QED
        BY <2>2, <3>5, <3>6
    <2>8. ASSUME p.op = "unstake", NEW r \in {-1, 0, 1}, pool_moves(p, -(n + r), n + r),
                 held.staked >= n + r, rounded' = rounded + (IF r = 0 THEN 0 ELSE 1)
          PROVE  LedgerTyped' /\ Move
      <3>1. turned("ok") /\ UNCHANGED incoming
        BY <1>5, <2>8 DEF pool_performs, resolved
      <3>2. 0 < n
        BY <1>1, <2>8 DEF CallCovered
      <3>3. /\ -(n + r) \in Int /\ n + r \in Int
            /\ held.staked + (-(n + r)) \in Nat /\ held.unstaked + (n + r) \in Nat
        BY <1>1, <1>2, <2>8, <3>2
      <3>4. Converted(a, -(n + r), n + r)
        BY <2>8, <3>3 DEF Converted, pool_moves
      <3>5. Answered(p)
        BY <1>3, <2>1, <2>3, <2>8, <3>1, <3>4 DEF Answered
      <3> QED
        BY <2>2, <2>4, <3>1, <3>5
    <2>9. CASE p.op = "unstake" /\ pool_moves(p, -n, n) /\ UNCHANGED rounded
      <3>1. n <= held.staked
        BY <1>1, <1>2, <1>5, <2>9 DEF short_of
      <3>2. n + 0 = n /\ rounded + 0 = rounded
        BY <1>1, <1>2
      <3>3. /\ pool_moves(p, -(n + 0), n + 0) /\ held.staked >= n + 0
            /\ rounded' = rounded + 0
        BY <1>1, <1>2, <2>9, <3>1, <3>2
      <3> QED
        BY <2>8, <2>9, <3>3
    <2>10. CASE /\ p.op = "unstake" /\ rounded' = rounded + 1
                /\ \E r \in Roundings : /\ held.staked >= n + r
                                        /\ pool_moves(p, -(n + r), n + r)
      <3>1. PICK r \in {-1, 1} : held.staked >= n + r /\ pool_moves(p, -(n + r), n + r)
        BY <2>10, OperatorAssumption
      <3>2. r \in {-1, 0, 1} /\ rounded' = rounded + (IF r = 0 THEN 0 ELSE 1)
        BY <2>10, <3>1
      <3> QED
        BY <2>8, <2>10, <3>1, <3>2
    <2> QED
      BY <1>5, <2>5, <2>6, <2>7, <2>9, <2>10 DEF pool_converts
  <1>6. CASE pool_fails(p) /\ UNCHANGED <<held_at, rounded>>
    <2>1. /\ p.status = "sent" /\ turned("failed")
          /\ incoming' = incoming + (IF p.op = "stake" THEN n ELSE 0)
          /\ UNCHANGED <<user_vars, order_vars, stake_vars, claim_vars, staking_pools,
                         contract_account_balance, account_balance,
                         accumulated_staked_rewards, epoch_height>>
      BY <1>6 DEF pool_fails, resolved
    <2>2. Booked(0, 0, 0, 0, 0, 0, 0, IF p.op = "stake" THEN n ELSE 0)
      BY <1>1, <2>1
      DEF Booked, Placed, LedgerTyped, order_vars, stake_vars, claim_vars
    <2>3. LedgerTyped'
      BY <1>1, <2>1 DEF Placed, LedgerTyped, user_vars, order_vars, stake_vars, claim_vars
    <2> QED
      BY <1>4, <1>6, <2>1, <2>2, <2>3
  <1>7. CASE pool_is_short(p)
    <2>1. /\ p.status = "sent" /\ turned("failed") /\ p.op # "stake"
          /\ UNCHANGED <<user_vars, order_vars, stake_vars, claim_vars, staking_pools,
                         money_vars, accumulated_staked_rewards, epoch_height,
                         held_at, rounded>>
      BY <1>7 DEF pool_is_short, short_of, resolved
    <2>2. Unbooked
      BY <2>1, SameBooks DEF Placed
    <2>3. LedgerTyped'
      BY <2>1, <2>2, UnbookedTyped DEF Placed, LedgerTyped
    <2> QED
      BY <1>4, <2>1, <2>2, <2>3 DEF Unbooked
  <1> QED
    BY <1>5, <1>6, <1>7 DEF pool_answers

LEMMA SameNearKept ==
  ASSUME Placed, UNCHANGED <<staking_pools, promises>>
  PROVE  SameNear
  BY DEF SameNear, Placed, PoolsListed, OneCallPerPool

LEMMA UnbookedQuiet ==
  ASSUME Placed, SameNear, Unbooked, UNCHANGED <<promises, pool_accounts, beside_vars, hand_vars>>
  PROVE  Quiet
  BY DEF Quiet

LEMMA ElsewhereMove ==
  ASSUME Placed, elsewhere
  PROVE  LedgerTyped' /\ Move
  <1>1. UNCHANGED <<pool_accounts, beside_vars, hand_vars>>
    BY DEF elsewhere
  <1>2. CASE UserStep
    BY <1>1, <1>2, UserStepMoves, QuietBooks DEF Placed
  <1>3. CASE transfer_arrives
    <2>1. /\ account_balance' = account_balance + incoming /\ incoming' = 0
          /\ UNCHANGED <<user_vars, order_vars, stake_vars, claim_vars, pool_vars,
                         contract_account_balance, accumulated_staked_rewards, epoch_height>>
      BY <1>3 DEF transfer_arrives
    <2>2. LedgerTyped'
      BY <2>1 DEF Placed, LedgerTyped, user_vars, order_vars, stake_vars, claim_vars
    <2>3. incoming \in Nat /\ incoming <= incoming /\ incoming' = incoming + (-incoming)
      BY <2>1 DEF Placed, LedgerTyped
    <2>4. Booked(0, 0, 0, 0, 0, 0, incoming, -incoming)
      BY <2>1, <2>3
      DEF Booked, Placed, LedgerTyped, order_vars, stake_vars, claim_vars
    <2>5. SameNear
      BY <2>1, SameNearKept DEF pool_vars
    <2>6. Quiet
      BY <1>1, <2>1, <2>3, <2>4, <2>5 DEF Quiet, pool_vars
    <2> QED
      BY <2>2, <2>6 DEF Move
  <1>4. CASE next_epoch
    <2>1. /\ epoch_height' = epoch_height + 1
          /\ UNCHANGED <<user_vars, order_vars, stake_vars, claim_vars, pool_vars,
                         money_vars, accumulated_staked_rewards>>
      BY <1>4 DEF next_epoch
    <2>2. Unbooked
      BY <2>1, SameBooks DEF Placed
    <2>3. LedgerTyped'
      BY <2>1, <2>2, UnbookedTyped DEF Placed, LedgerTyped
    <2>4. SameNear
      BY <2>1, SameNearKept DEF pool_vars
    <2>5. Quiet
      BY <1>1, <2>1, <2>2, <2>4, UnbookedQuiet DEF pool_vars
    <2> QED
      BY <2>3, <2>5 DEF Move
  <1> QED
    BY <1>2, <1>3, <1>4 DEF elsewhere

LEMMA SynchronizationMove ==
  ASSUME Placed, NEW q \in queries, pool_replies(q) \/ on_get_sp_unstaked_balance(q)
  PROVE  LedgerTyped' /\ Move
  <1>1. sync_only
    BY DEF pool_replies, on_get_sp_unstaked_balance
  <1>2. /\ UNCHANGED <<promises, pool_accounts, held_at, sent_to, rounded, hand_vars>>
        /\ UNCHANGED <<user_vars, order_vars, stake_vars, claim_vars, money_vars,
                       accumulated_staked_rewards, epoch_height>>
    BY <1>1 DEF sync_only
  <1>3. Unbooked
    BY <1>2, SameBooks DEF Placed
  <1>4. LedgerTyped'
    BY <1>2, <1>3, UnbookedTyped DEF Placed, LedgerTyped
  <1>5. /\ q \in Query /\ queries \subseteq Query
        /\ q.sp \in DOMAIN pool_accounts /\ pool_accounts[q.sp] = q.account
    BY DEF Placed, CallsTyped, CallbackFindsItsPool
  <1>6. CASE pool_replies(q)
    <2> DEFINE r == [q EXCEPT !.status = "ok", !.reply = held_at[q.account].unstaked]
    <2>1. held_at[q.account].unstaked \in Nat
      BY <1>5 DEF Placed, CallsTyped, Query
    <2>2. /\ r \in Query /\ r.sp = q.sp /\ r.account = q.account
          /\ r.reply = held_at[r.account].unstaked
      BY <1>5, <2>1 DEF Query
    <2>3. queries' = (queries \ {q}) \cup {r} /\ UNCHANGED staking_pools
      BY <1>6 DEF pool_replies
    <2> HIDE DEF r
    <2>4. Queried
      BY <1>2, <1>3, <1>5, <2>2, <2>3 DEF Queried
    <2> QED
      BY <1>4, <2>4 DEF Move
  <1>7. CASE on_get_sp_unstaked_balance(q)
    <2>1. queries' = queries \ {q}
      BY <1>7 DEF on_get_sp_unstaked_balance
    <2>2. CASE UNCHANGED staking_pools
      <3>1. queries' \subseteq queries
        BY <2>1
      <3>2. Queried
        BY <1>2, <1>3, <2>2, <3>1 DEF Queried
      <3> QED
        BY <1>4, <3>2 DEF Move
    <2>3. CASE /\ applicable(q)
               /\ staking_pools' = [staking_pools EXCEPT ![q.sp] = synced(@, q.reply)]
      <3>1. q.status = "ok" /\ ~staking_pools[q.sp].busy_lock
        BY <2>3 DEF applicable, may_be_updated
      <3>2. Queried
        BY <1>2, <1>3, <2>1, <2>3, <3>1 DEF Queried
      <3> QED
        BY <1>4, <3>2 DEF Move
    <2> QED
      BY <1>7, <2>2, <2>3 DEF on_get_sp_unstaked_balance
  <1> QED
    BY <1>6, <1>7


(* Only weights or locks are written, of pools no call needs locked. *)
LEMMA OneLockWritten ==
  ASSUME Placed, NEW i \in DOMAIN staking_pools, free_of_calls(i), sp_busy(i, FALSE)
  PROVE  LedgerTyped' /\ Move
  <1> DEFINE sp == [staking_pools[i] EXCEPT !.busy_lock = FALSE]
  <1>1. /\ staking_pools' = [staking_pools EXCEPT ![i] = sp]
        /\ UNCHANGED <<user_vars, order_vars, stake_vars, claim_vars, promises, money_vars,
                       accumulated_staked_rewards, epoch_height, pool_accounts,
                       beside_vars, hand_vars>>
    BY DEF sp_busy, locks_only
  <1>2. staking_pools[i] \in StakingPoolInfo
    BY Listed DEF Placed
  <1>3. /\ sp \in StakingPoolInfo /\ sp.staked = staking_pools[i].staked
        /\ sp.unstaked = staking_pools[i].unstaked
    BY <1>2 DEF StakingPoolInfo
  <1> HIDE DEF sp
  <1>4. /\ staking_pools' \in Seq(StakingPoolInfo)
        /\ Len(staking_pools') = Len(staking_pools)
        /\ staking_pools'[i] = sp
        /\ \A j \in DOMAIN staking_pools : j # i => staking_pools'[j] = staking_pools[j]
    BY <1>1, <1>3, OneRewritten DEF Placed
  <1>5. \A j \in DOMAIN staking_pools :
          /\ staking_pools'[j].staked = staking_pools[j].staked
          /\ staking_pools'[j].unstaked = staking_pools[j].unstaked
    BY <1>3, <1>4
  <1>6. \A p \in promises : staking_pools'[p.sp].busy_lock
    BY <1>4, CallFacts DEF free_of_calls
  <1>7. SameNear
    BY <1>4, <1>5, <1>6 DEF SameNear
  <1>8. Unbooked
    BY <1>1, SameBooks DEF Placed
  <1>9. LedgerTyped'
    BY <1>1, <1>8, UnbookedTyped DEF Placed, LedgerTyped
  <1> QED
    BY <1>1, <1>7, <1>8, <1>9, UnbookedQuiet DEF Move

LEMMA SetBusyMove ==
  ASSUME Placed, NEW value, set_busy(value)
  PROVE  LedgerTyped' /\ Move
  <1>1. UNCHANGED <<user_vars, order_vars, stake_vars, claim_vars, promises, money_vars,
                    accumulated_staked_rewards, epoch_height, pool_accounts,
                    staking_pools, beside_vars, hand_vars>>
    BY DEF set_busy, locks_only
  <1>2. Unbooked
    BY <1>1, SameBooks DEF Placed
  <1>3. LedgerTyped'
    BY <1>1, <1>2, UnbookedTyped DEF Placed, LedgerTyped
  <1> QED
    BY <1>1, <1>2, <1>3, SameNearKept, UnbookedQuiet DEF Move

LEMMA ReleaseMove ==
  ASSUME Placed, release_by_hand
  PROVE  LedgerTyped' /\ Move
  BY OneLockWritten, SetBusyMove DEF release_by_hand

LEMMA SetPoolsMove ==
  ASSUME Placed, NEW weighting \in Weightings, set_staking_pools(weighting)
  PROVE  LedgerTyped' /\ Move
  <1> DEFINE written(i) == [staking_pools[i] EXCEPT !.weight_basis_points = weighting[i]]
  <1>1. /\ DOMAIN weighting = DOMAIN staking_pools
        /\ staking_pools' = [i \in DOMAIN staking_pools |-> written(i)]
        /\ UNCHANGED pool_accounts /\ list_only
    BY DEF set_staking_pools
  <1>2. UNCHANGED <<user_vars, order_vars, stake_vars, claim_vars, promises, money_vars,
                    accumulated_staked_rewards, epoch_height, pool_accounts,
                    beside_vars, hand_vars>>
    BY <1>1 DEF list_only
  <1>3. ASSUME NEW i \in DOMAIN staking_pools
        PROVE  /\ written(i) \in StakingPoolInfo
               /\ written(i).staked = staking_pools[i].staked
               /\ written(i).unstaked = staking_pools[i].unstaked
               /\ written(i).busy_lock = staking_pools[i].busy_lock
    <2>1. staking_pools[i] \in StakingPoolInfo
      BY Listed DEF Placed
    <2>2. weighting \in Seq(Nat)
      BY OperatorAssumption
    <2>3. weighting[i] \in Nat
      BY <1>1, <2>2, ElementOfSeq, LenProperties
    <2> QED
      BY <2>1, <2>3 DEF StakingPoolInfo
  <1> HIDE DEF written
  <1>4. DOMAIN staking_pools = 1..Len(staking_pools) /\ Len(staking_pools) \in Nat
    BY Listed DEF Placed
  <1>5. staking_pools' \in Seq(StakingPoolInfo)
    BY <1>1, <1>3, <1>4, SeqDef
  <1>6. Len(staking_pools') = Len(staking_pools)
    BY <1>1, <1>4, <1>5, LenProperties
  <1>7. SameNear
    BY <1>1, <1>3, <1>5, <1>6, CallFacts DEF SameNear
  <1>8. Unbooked
    BY <1>2, SameBooks DEF Placed
  <1>9. LedgerTyped'
    BY <1>2, <1>8, UnbookedTyped DEF Placed, LedgerTyped
  <1> QED
    BY <1>2, <1>7, <1>8, <1>9, UnbookedQuiet DEF Move

LEMMA OperatorCallMove ==
  ASSUME Placed, OperatorCall
  PROVE  LedgerTyped' /\ Move
  <1>1. ASSUME NEW account \in Range(PoolAccounts), add_staking_pool(account)
        PROVE  LedgerTyped' /\ Move
    <2>1. UNCHANGED <<user_vars, order_vars, stake_vars, claim_vars, promises, money_vars,
                      accumulated_staked_rewards, epoch_height, beside_vars, hand_vars>>
      BY <1>1 DEF add_staking_pool, list_only
    <2>2. Unbooked
      BY <2>1, SameBooks DEF Placed
    <2>3. LedgerTyped'
      BY <2>1, <2>2, UnbookedTyped DEF Placed, LedgerTyped
    <2>4. PoolAdded
      BY <1>1, <2>1, <2>2 DEF PoolAdded, add_staking_pool
    <2> QED
      BY <2>3, <2>4 DEF Move
  <1>2. ASSUME NEW i \in DOMAIN staking_pools, no_later_index(i), remove_staking_pool(i)
        PROVE  LedgerTyped' /\ Move
    <2>1. UNCHANGED <<user_vars, order_vars, stake_vars, claim_vars, promises, money_vars,
                      accumulated_staked_rewards, epoch_height, beside_vars, hand_vars>>
      BY <1>2 DEF remove_staking_pool, list_only
    <2>2. Unbooked
      BY <2>1, SameBooks DEF Placed
    <2>3. LedgerTyped'
      BY <2>1, <2>2, UnbookedTyped DEF Placed, LedgerTyped
    <2>4. PoolRemoved(i)
      BY <1>2, <2>1, <2>2 DEF PoolRemoved, remove_staking_pool, is_empty
    <2> QED
      BY <2>3, <2>4 DEF Move
  <1>3. ASSUME NEW i \in DOMAIN staking_pools, NEW amount \in ManualAmounts,
               manual_stake(i, amount)
        PROVE  LedgerTyped' /\ Move
    BY <1>3, OperatorAssumption, DirectStakeSent DEF manual_stake, pool_is_free
  <1>4. ASSUME NEW i \in DOMAIN staking_pools, start_manual_unstake(i)
        PROVE  LedgerTyped' /\ Move
    <2> DEFINE n == staking_pools[i].staked
    <2>1. /\ n \in Nat /\ 0 < n /\ n <= total_actually_staked /\ n <= staking_pools[i].staked
          /\ total_actually_staked' = total_actually_staked - n
          /\ ~staking_pools[i].busy_lock
          /\ promises' = promises \cup {Call("unstake", i, n)}
          /\ staking_pools' = [staking_pools EXCEPT ![i].busy_lock = TRUE]
      BY <1>4, Listed
      DEF start_manual_unstake, unstaking_by_hand, lock_and_call, free_to_call, Placed
    <2>2. /\ by_hand' = [by_hand EXCEPT ![pool_accounts[i]] = @ + n]
          /\ call_recorded(i, TRUE)
          /\ UNCHANGED <<user_vars, order_vars, total_for_staking, claim_vars, money_vars,
                         accumulated_staked_rewards, epoch_height, pool_accounts, held_at,
                         queries, rounded, unmade>>
      BY <1>4 DEF start_manual_unstake, unstaking_by_hand, order_vars
    <2> HIDE DEF n
    <2>3. LedgerTyped'
      BY <2>1, <2>2
      DEF Placed, LedgerTyped, user_vars, order_vars, claim_vars, money_vars
    <2>4. Booked(-n, 0, 0, 0, 0, 0, 0, 0)
      BY <2>1, <2>2 DEF Booked, Placed, LedgerTyped, order_vars, claim_vars, money_vars
    <2>5. Sent(i, "unstake", n, TRUE)
      BY <2>1, <2>2, <2>4 DEF Sent
    <2> QED
      BY <2>3, <2>5 DEF Move
  <1>5. ASSUME NEW i \in DOMAIN staking_pools, free_of_calls(i),
               complete_manual_unstake(i, by_hand[pool_accounts[i]])
        PROVE  LedgerTyped' /\ Move
    <2> DEFINE a == pool_accounts[i]
               n == by_hand[a]
    <2>1. a \in Range(PoolAccounts)
      BY Listed DEF Placed
    <2>2. /\ by_hand \in [Range(PoolAccounts) -> Nat] /\ n \in Nat
      BY <2>1 DEF Placed, CallsTyped
    <2>3. /\ n <= reserve_for_unstake_claims
          /\ reserve_for_unstake_claims' = reserve_for_unstake_claims - n
          /\ epoch_stake_orders' = epoch_stake_orders + n
          /\ by_hand' = [by_hand EXCEPT ![a] = @ - n]
          /\ UNCHANGED <<user_vars, epoch_unstake_orders, stake_vars,
                         total_unstaked_and_waiting, total_unstake_claims, pool_vars,
                         money_vars, accumulated_staked_rewards, epoch_height,
                         pool_accounts, beside_vars, unmade>>
      BY <1>5 DEF complete_manual_unstake, reserve_to_orders
    <2>4. by_hand' = [by_hand EXCEPT ![a] = 0]
      <3>1. n - n = 0
        BY <2>2
      <3> QED
        BY <2>3, <3>1
    <2>5. LedgerTyped'
      BY <2>2, <2>3 DEF Placed, LedgerTyped, user_vars, stake_vars, money_vars
    <2>6. Booked(0, n, 0, 0, -n, 0, 0, 0)
      BY <2>2, <2>3 DEF Booked, Placed, LedgerTyped, stake_vars, money_vars
    <2>7. HandCompleted(i)
      BY <1>5, <2>3, <2>4, <2>6 DEF HandCompleted, pool_vars
    <2> QED
      BY <2>5, <2>7 DEF Move
  <1>6. ASSUME only_unmade_orders, undo_end_of_epoch
        PROVE  LedgerTyped' /\ Move
    <2>1. /\ saturating_sub(total_for_staking, total_actually_staked) \in Nat
          /\ saturating_sub(total_actually_staked, total_for_staking) \in Nat
      BY SaturatingSubNat DEF Placed, LedgerTyped
    <2>2. LedgerTyped'
      BY <1>6, <2>1
      DEF undo_end_of_epoch, Placed, LedgerTyped, user_vars, stake_vars, claim_vars,
          money_vars
    <2>3. OrdersUndone
      BY <1>6 DEF undo_end_of_epoch, OrdersUndone, pool_vars, money_vars
    <2> QED
      BY <2>2, <2>3 DEF Move
  <1>7. ASSUME NEW i \in DOMAIN staking_pools, sync_unstaked_balance(i)
        PROVE  LedgerTyped' /\ Move
    <2> DEFINE q == [sp |-> i, account |-> pool_accounts[i], status |-> "sent", reply |-> 0]
    <2>1. queries' = queries \cup {q} /\ UNCHANGED staking_pools /\ sync_only
      BY <1>7 DEF sync_unstaked_balance
    <2>2. q \in Query /\ i \in DOMAIN pool_accounts
      BY Listed DEF Placed, Query
    <2>3. q.sp = i /\ q.account = pool_accounts[i] /\ q.status # "ok"
      OBVIOUS
    <2>4. UNCHANGED <<user_vars, order_vars, stake_vars, claim_vars, promises, money_vars,
                      accumulated_staked_rewards, epoch_height, pool_accounts, held_at,
                      sent_to, rounded, hand_vars>>
      BY <2>1 DEF sync_only
    <2>5. Unbooked
      BY <2>4, SameBooks DEF Placed
    <2>6. LedgerTyped'
      BY <2>4, <2>5, UnbookedTyped DEF Placed, LedgerTyped
    <2> HIDE DEF q
    <2>7. Queried
      BY <2>1, <2>2, <2>3, <2>4, <2>5 DEF Queried
    <2> QED
      BY <2>6, <2>7 DEF Move
  <1>8. ASSUME NEW u \in Users, NEW amount \in PlannedUnstakes, unstake(u, amount),
               UNCHANGED <<pool_accounts, beside_vars, hand_vars>>
        PROVE  LedgerTyped' /\ Move
    BY <1>8, OperatorAssumption, UnstakeMoves, QuietBooks DEF Placed
  <1> QED
    BY <1>1, <1>2, <1>3, <1>4, <1>5, <1>6, <1>7, <1>8, SetBusyMove, SetPoolsMove
    DEF OperatorCall

LEMMA EveryMove == Placed /\ [OperatorNext]_operator_vars => LedgerTyped' /\ Move
  <1> SUFFICES ASSUME Placed, [OperatorNext]_operator_vars
               PROVE  LedgerTyped' /\ Move
    OBVIOUS
  <1>1. CASE UNCHANGED operator_vars
    <2>1. UNCHANGED <<user_vars, order_vars, stake_vars, claim_vars, promises, money_vars,
                      accumulated_staked_rewards, epoch_height, pool_accounts,
                      staking_pools, beside_vars, hand_vars>>
      BY <1>1 DEF operator_vars, vars, pool_vars
    <2>2. Unbooked
      BY <2>1, SameBooks DEF Placed
    <2>3. LedgerTyped'
      BY <2>1, <2>2, UnbookedTyped DEF Placed, LedgerTyped
    <2>4. SameNear
      BY <2>1, SameNearKept
    <2>5. Quiet
      BY <2>1, <2>2, <2>4, UnbookedQuiet
    <2> QED
      BY <2>3, <2>5 DEF Move
  <1>2. CASE OperatorNext
    BY <1>2, HeartbeatMove, CallbackMove, ElsewhereMove, SynchronizationMove, AnswerMove,
       OperatorCallMove, ReleaseMove DEF OperatorNext, synchronization
  <1> QED
    BY <1>1, <1>2

-----------------------------------------------------------------------------
(***************************************************************************)
(* Each move keeps the calls where they are.                                *)
(***************************************************************************)
LEMMA SentFacts ==
  ASSUME Placed, NEW i, NEW op, NEW n, NEW manual, Sent(i, op, n, manual)
  PROVE  /\ i \in DOMAIN staking_pools /\ i \in Nat
         /\ n \in Nat /\ op \in Operation /\ manual \in BOOLEAN
         /\ Call(op, i, n) \in AnyCall /\ Call(op, i, n) \notin promises
         /\ promises' = promises \cup {Call(op, i, n)}
         /\ Call(op, i, n).op = op /\ Call(op, i, n).sp = i
         /\ Call(op, i, n).amount = n /\ Call(op, i, n).status = "sent"
         /\ \A p \in promises : p.sp # i
         /\ staking_pools' \in Seq(StakingPoolInfo)
         /\ Len(staking_pools') = Len(staking_pools)
         /\ DOMAIN staking_pools' = DOMAIN staking_pools
         /\ staking_pools'[i].busy_lock
         /\ staking_pools'[i].staked = staking_pools[i].staked
         /\ staking_pools'[i].unstaked = staking_pools[i].unstaked
         /\ \A j \in DOMAIN staking_pools : j # i => staking_pools'[j] = staking_pools[j]
  <1> DEFINE c == Call(op, i, n)
             free == staking_pools[i]
             locked == [free EXCEPT !.busy_lock = TRUE]
  <1>1. /\ i \in DOMAIN staking_pools /\ ~free.busy_lock /\ n \in Nat /\ op \in Operation
        /\ manual \in BOOLEAN /\ promises' = promises \cup {c}
        /\ staking_pools' = [staking_pools EXCEPT ![i] = locked]
    BY DEF Sent, Operation
  <1>2. i \in Nat /\ free \in StakingPoolInfo
    BY <1>1, Listed DEF Placed
  <1>3. /\ c \in AnyCall
        /\ c.op = op /\ c.sp = i /\ c.amount = n /\ c.status = "sent"
    BY <1>1, <1>2 DEF Call, AnyCall
  <1>4. \A p \in promises : p.sp # i
    BY <1>1, CallFacts
  <1>5. /\ locked \in StakingPoolInfo /\ locked.busy_lock
        /\ locked.staked = free.staked /\ locked.unstaked = free.unstaked
    BY <1>2 DEF StakingPoolInfo
  <1> HIDE DEF c, locked
  <1>6. /\ staking_pools' \in Seq(StakingPoolInfo)
        /\ Len(staking_pools') = Len(staking_pools)
        /\ DOMAIN staking_pools' = DOMAIN staking_pools
        /\ staking_pools'[i] = locked
        /\ \A j \in DOMAIN staking_pools : j # i => staking_pools'[j] = staking_pools[j]
    BY <1>1, <1>5, OneRewritten DEF Placed
  <1> QED
    BY <1>1, <1>2, <1>3, <1>4, <1>5, <1>6 DEF c

LEMMA SentKeeps ==
  ASSUME Placed, LedgerTyped', NEW i, NEW op, NEW n, NEW manual, Sent(i, op, n, manual)
  PROVE  Placed'
  <1> DEFINE c == Call(op, i, n)
             a == pool_accounts[i]
             sp == staking_pools'[i]
  <1>1. /\ i \in DOMAIN staking_pools /\ i \in DOMAIN PoolAccounts
        /\ n \in Nat /\ manual \in BOOLEAN
        /\ c \in AnyCall /\ promises' = promises \cup {c}
        /\ c.op = op /\ c.sp = i /\ c.amount = n /\ c.status = "sent"
        /\ \A p \in promises : p.sp # i
    BY SentFacts, Listed DEF Placed
  <1>2. /\ staking_pools' \in Seq(StakingPoolInfo)
        /\ Len(staking_pools') = Len(staking_pools)
        /\ sp.busy_lock
        /\ sp.staked = staking_pools[i].staked /\ sp.unstaked = staking_pools[i].unstaked
        /\ \A j \in DOMAIN staking_pools : j # i => staking_pools'[j] = staking_pools[j]
    BY SentFacts
  <1>3. /\ a \in Range(PoolAccounts)
        /\ by_hand \in [Range(PoolAccounts) -> Nat] /\ unmade \in Nat
        /\ sent_to \in [DOMAIN PoolAccounts -> [account : Range(PoolAccounts), manual : BOOLEAN]]
    BY <1>1, Listed DEF Placed, CallsTyped
  <1>4. /\ sent_to' = [sent_to EXCEPT ![i] = [account |-> a, manual |-> manual]]
        /\ by_hand' = IF op = "unstake" /\ manual
                      THEN [by_hand EXCEPT ![a] = @ + n] ELSE by_hand
        /\ UNCHANGED <<pool_accounts, held_at, queries, rounded, unmade>>
    BY DEF Sent, call_recorded
  <1>5. /\ op = "restake" => n <= sp.unstaked
        /\ op = "unstake" => 0 < n /\ n <= sp.staked
        /\ op = "retrieve" => n = sp.unstaked
    BY <1>2 DEF Sent
  <1>6. /\ sent_to' \in [DOMAIN PoolAccounts -> [account : Range(PoolAccounts), manual : BOOLEAN]]
        /\ sent_to'[i].account = a /\ sent_to'[i].manual = manual
        /\ \A j \in DOMAIN PoolAccounts : j # i => sent_to'[j] = sent_to[j]
    BY <1>1, <1>3, <1>4
  <1>7. /\ by_hand' \in [Range(PoolAccounts) -> Nat]
        /\ \A b \in Range(PoolAccounts) : by_hand[b] <= by_hand'[b]
        /\ op = "unstake" /\ manual => n <= by_hand'[a]
    <2>1. CASE op = "unstake" /\ manual
      <3>1. by_hand' = [by_hand EXCEPT ![a] = @ + n] /\ by_hand[a] + n \in Nat
        BY <1>1, <1>3, <1>4, <2>1
      <3> QED
        BY <1>1, <1>3, <2>1, <3>1
    <2>2. CASE ~(op = "unstake" /\ manual)
      BY <1>3, <1>4, <2>2
    <2> QED
      BY <2>1, <2>2
  <1>8. PoolsListed'
    BY <1>2, <1>4 DEF Placed, PoolsListed
  <1>9. CallsTyped'
    <2>1. IsFiniteSet(promises') /\ promises' \subseteq AnyCall
      BY <1>1, FS_AddElement DEF Placed, CallsTyped
    <2> QED
      BY <1>4, <1>6, <1>7, <2>1 DEF Placed, CallsTyped
  <1> HIDE DEF c, sp
  <1>10. ASSUME NEW p \in promises', p # c
         PROVE  /\ p \in promises /\ p.sp # i /\ p.sp \in DOMAIN PoolAccounts
                /\ staking_pools'[p.sp] = staking_pools[p.sp]
                /\ sent_to'[p.sp] = sent_to[p.sp]
    BY <1>1, <1>2, <1>6, <1>10, CallFacts, Listed DEF Placed
  <1>11. OneCallPerPool'
    <2>1. ASSUME NEW p \in promises'
          PROVE  /\ staking_pools'[p.sp].busy_lock
                 /\ \A q \in promises' : q.sp = p.sp => q = p
      <3>1. CASE p = c
        BY <1>1, <1>2, <1>10, <3>1 DEF sp
      <3>2. CASE p # c
        <4>1. p \in promises /\ staking_pools'[p.sp].busy_lock
          BY <1>10, <3>2, CallFacts
        <4> QED
          BY <1>1, <1>10, <3>2, <4>1, CallFacts
      <3> QED
        BY <3>1, <3>2
    <2> QED
      BY <2>1 DEF OneCallPerPool
  <1>12. CallbackFindsItsPool'
    <2>1. ASSUME NEW p \in promises'
          PROVE  p.sp \in DOMAIN pool_accounts' /\ pool_accounts'[p.sp] = account_of(p)'
      <3>1. CASE p = c
        BY <1>1, <1>4, <1>6, <3>1, Listed DEF Placed, account_of
      <3>2. CASE p # c
        BY <1>4, <1>10, <3>2 DEF Placed, CallbackFindsItsPool, account_of
      <3> QED
        BY <3>1, <3>2
    <2> QED
      BY <1>4, <2>1 DEF Placed, CallbackFindsItsPool
  <1>13. CallsCovered'
    <2>1. ASSUME NEW p \in promises' PROVE CallCovered(p)'
      <3>1. CASE p = c
        BY <1>1, <1>5, <1>6, <1>7, <3>1 DEF CallCovered, account_of, sp
      <3>2. CASE p # c
        <4>1. /\ CallCovered(p) /\ account_of(p) \in Range(PoolAccounts) /\ p.amount \in Nat
          BY <1>10, <3>2, CallFacts
        <4>2. account_of(p)' = account_of(p)
          BY <1>10, <3>2 DEF account_of
        <4>3. /\ by_hand[account_of(p)] \in Nat /\ by_hand'[account_of(p)] \in Nat
              /\ by_hand[account_of(p)] <= by_hand'[account_of(p)]
          BY <1>3, <1>7, <4>1
        <4>4. p.op = "unstake" /\ sent_to[p.sp].manual => p.amount <= by_hand'[account_of(p)]
          BY <4>1, <4>3 DEF CallCovered
        <4> QED
          BY <1>10, <3>2, <4>1, <4>2, <4>4 DEF CallCovered
      <3> QED
        BY <3>1, <3>2
    <2> QED
      BY <2>1 DEF CallsCovered
  <1> QED
    BY <1>8, <1>9, <1>11, <1>12, <1>13 DEF Placed

LEMMA FreedFacts ==
  ASSUME Placed, NEW p, NEW staked, NEW unstaked, Freed(p, staked, unstaked)
  PROVE  /\ p \in promises /\ promises' = promises \ {p}
         /\ p.sp \in DOMAIN staking_pools
         /\ staking_pools' \in Seq(StakingPoolInfo)
         /\ Len(staking_pools') = Len(staking_pools)
         /\ DOMAIN staking_pools' = DOMAIN staking_pools
         /\ staking_pools'[p.sp].staked = staked /\ staking_pools'[p.sp].unstaked = unstaked
         /\ \A j \in DOMAIN staking_pools : j # p.sp => staking_pools'[j] = staking_pools[j]
         /\ \A q \in promises' : q \in promises /\ q.sp # p.sp
                                 /\ staking_pools'[q.sp] = staking_pools[q.sp]
         /\ UNCHANGED <<pool_accounts, held_at, sent_to, queries, rounded>>
  <1>1. /\ p \in promises /\ promises' = promises \ {p}
        /\ UNCHANGED <<pool_accounts, held_at, sent_to, queries, rounded>>
    BY DEF Freed
  <1>2. PICK sp \in StakingPoolInfo :
          /\ sp.staked = staked /\ sp.unstaked = unstaked
          /\ staking_pools' = [staking_pools EXCEPT ![p.sp] = sp]
    BY DEF Freed
  <1>3. p.sp \in DOMAIN staking_pools
    BY <1>1, CallFacts
  <1>4. /\ staking_pools' \in Seq(StakingPoolInfo)
        /\ Len(staking_pools') = Len(staking_pools)
        /\ DOMAIN staking_pools' = DOMAIN staking_pools
        /\ staking_pools'[p.sp] = sp
        /\ \A j \in DOMAIN staking_pools : j # p.sp => staking_pools'[j] = staking_pools[j]
    BY <1>2, <1>3, OneRewritten DEF Placed
  <1>5. \A q \in promises' : q \in promises /\ q.sp # p.sp /\ q.sp \in DOMAIN staking_pools
    BY <1>1, CallFacts
  <1> QED
    BY <1>1, <1>2, <1>3, <1>4, <1>5

LEMMA CalledBackKeeps ==
  ASSUME Placed, LedgerTyped', NEW p \in promises, CalledBack(p)
  PROVE  Placed'
  <1>1. PICK staked, unstaked : Freed(p, staked, unstaked)
    BY DEF CalledBack
  <1>2. /\ promises' = promises \ {p}
        /\ staking_pools' \in Seq(StakingPoolInfo)
        /\ Len(staking_pools') = Len(staking_pools)
        /\ \A q \in promises' : q \in promises /\ q.sp # p.sp
                                /\ staking_pools'[q.sp] = staking_pools[q.sp]
        /\ UNCHANGED <<pool_accounts, held_at, sent_to, queries, rounded>>
    BY <1>1, FreedFacts
  <1>3. PoolsListed'
    BY <1>2 DEF Placed, PoolsListed
  <1>4. OneCallPerPool'
    BY <1>2, CallFacts DEF OneCallPerPool
  <1>5. CallbackFindsItsPool'
    BY <1>2 DEF Placed, CallbackFindsItsPool, account_of
  <1>6. /\ by_hand \in [Range(PoolAccounts) -> Nat] /\ unmade \in Nat
        /\ p.amount \in Nat /\ account_of(p) \in Range(PoolAccounts)
    BY CallFacts DEF Placed, CallsTyped
  <1>7. /\ by_hand' \in [Range(PoolAccounts) -> Nat] /\ unmade' \in Nat
        /\ \A b \in Range(PoolAccounts) : b # account_of(p) => by_hand'[b] = by_hand[b]
    <2>1. CASE UNCHANGED hand_vars
      BY <1>6, <2>1 DEF hand_vars
    <2>2. CASE p.op = "unstake" /\ HandFailed(p) /\ sent_to[p.sp].manual
      <3>1. p.amount <= by_hand[account_of(p)]
        BY <2>2, CallFacts DEF CallCovered
      <3>2. by_hand[account_of(p)] - p.amount \in Nat
        BY <1>6, <3>1
      <3>3. /\ unmade' = unmade + p.amount
            /\ by_hand' = [by_hand EXCEPT ![account_of(p)] = @ - p.amount]
        BY <2>2 DEF HandFailed
      <3> QED
        BY <1>6, <3>2, <3>3
    <2> QED
      BY <2>1, <2>2 DEF CalledBack, HandFailed
  <1>8. CallsTyped'
    <2>1. IsFiniteSet(promises') /\ promises' \subseteq AnyCall
      BY <1>2, FS_RemoveElement DEF Placed, CallsTyped
    <2> QED
      BY <1>2, <1>7, <2>1 DEF Placed, CallsTyped
  <1>9. CallsCovered'
    <2>1. ASSUME NEW q \in promises' PROVE CallCovered(q)'
      <3>1. /\ q \in promises /\ q.sp # p.sp /\ staking_pools'[q.sp] = staking_pools[q.sp]
            /\ UNCHANGED sent_to
        BY <1>2
      <3>2. /\ account_of(q) # account_of(p) /\ account_of(q) \in Range(PoolAccounts)
        <4>1. /\ account_of(q) = pool_accounts[q.sp] /\ q.sp \in DOMAIN pool_accounts
              /\ account_of(p) = pool_accounts[p.sp] /\ p.sp \in DOMAIN pool_accounts
              /\ account_of(q) \in Range(PoolAccounts)
          BY <3>1, CallFacts, Listed DEF Placed
        <4> QED
          BY <3>1, <4>1 DEF Placed, PoolsListed
      <3>3. by_hand'[account_of(q)] = by_hand[account_of(q)]
        BY <1>7, <3>2
      <3>4. CallCovered(q)
        BY <3>1, CallFacts
      <3> QED
        BY <3>1, <3>3, <3>4 DEF CallCovered, account_of
    <2> QED
      BY <2>1 DEF CallsCovered
  <1> QED
    BY <1>3, <1>4, <1>5, <1>8, <1>9 DEF Placed


(* The call answered is the same one, but for its status. *)
Turned(p, r) ==
  /\ r \in AnyCall /\ r \notin promises
  /\ r.op = p.op /\ r.sp = p.sp /\ r.amount = p.amount
  /\ r.status \in {"ok", "failed"} /\ (r.op = "rewards" => r.status = "failed")
  /\ promises' = (promises \ {p}) \cup {r}

LEMMA AnyTurned ==
  ASSUME Placed, NEW p \in promises, p.status = "sent", NEW status \in {"ok", "failed"},
         p.op = "rewards" => status = "failed",
         promises' = (promises \ {p}) \cup {[p EXCEPT !.status = status, !.reply = 0]}
  PROVE  \E r : Turned(p, r) /\ r.status = status
  <1> DEFINE r == [p EXCEPT !.status = status, !.reply = 0]
  <1>1. p \in AnyCall
    BY CallFacts
  <1>2. /\ r \in AnyCall /\ r.op = p.op /\ r.sp = p.sp /\ r.amount = p.amount
        /\ r.status = status
    BY <1>1 DEF AnyCall
  <1>3. promises' = (promises \ {p}) \cup {r}
    OBVIOUS
  <1> HIDE DEF r
  <1>4. r \notin promises
    BY <1>2, CallFacts
  <1>5. Turned(p, r)
    BY <1>2, <1>3, <1>4 DEF Turned
  <1> QED
    BY <1>2, <1>5

LEMMA AnsweredFacts ==
  ASSUME Placed, NEW p \in promises, Answered(p)
  PROVE  /\ p.status = "sent" /\ no_answer_from(account_of(p))
         /\ \E r : Turned(p, r)
         /\ UNCHANGED <<staking_pools, pool_accounts, sent_to, queries, hand_vars>>
         /\ held_at' \in [Range(PoolAccounts) -> [staked : Nat, unstaked : Nat]]
         /\ \A b \in Range(PoolAccounts) : b # account_of(p) => held_at'[b] = held_at[b]
         /\ rounded' \in Nat
  <1> DEFINE a == account_of(p)
  <1>1. /\ p.status = "sent" /\ no_answer_from(a)
        /\ UNCHANGED <<staking_pools, pool_accounts, sent_to, queries, hand_vars>>
    BY DEF Answered
  <1>2. \E r : Turned(p, r)
    BY <1>1, AnyTurned DEF Answered
  <1>3. /\ a \in Range(PoolAccounts) /\ rounded \in Nat
        /\ held_at \in [Range(PoolAccounts) -> [staked : Nat, unstaked : Nat]]
    BY CallFacts DEF Placed, CallsTyped
  <1>4. \/ UNCHANGED held_at
        \/ \E staked, unstaked : Converted(a, staked, unstaked)
    BY DEF Answered
  <1>5. rounded' \in Nat
    BY <1>3 DEF Answered
  <1>6. /\ held_at' \in [Range(PoolAccounts) -> [staked : Nat, unstaked : Nat]]
        /\ \A b \in Range(PoolAccounts) : b # a => held_at'[b] = held_at[b]
    BY <1>3, <1>4 DEF Converted
  <1> QED
    BY <1>1, <1>2, <1>5, <1>6

LEMMA AnsweredKeeps ==
  ASSUME Placed, LedgerTyped', NEW p \in promises, Answered(p)
  PROVE  Placed'
  <1>1. PICK r : Turned(p, r)
    BY AnsweredFacts
  <1>2. UNCHANGED <<staking_pools, pool_accounts, sent_to, queries, hand_vars>>
    BY AnsweredFacts
  <1>3. /\ r \in AnyCall /\ promises' = (promises \ {p}) \cup {r}
        /\ r.op = p.op /\ r.sp = p.sp /\ r.amount = p.amount
        /\ r.op = "rewards" => r.status = "failed"
    BY <1>1 DEF Turned
  <1>4. PoolsListed'
    BY <1>2 DEF Placed, PoolsListed
  <1>5. CallsTyped'
    <2>1. IsFiniteSet(promises') /\ promises' \subseteq AnyCall
      <3>1. IsFiniteSet(promises \ {p}) /\ promises \subseteq AnyCall
        BY FS_RemoveElement DEF Placed, CallsTyped
      <3> QED
        BY <1>3, <3>1, FS_AddElement
    <2> QED
      BY <1>2, <2>1, AnsweredFacts DEF Placed, CallsTyped, hand_vars
  <1>6. OneCallPerPool'
    BY <1>2, <1>3, CallFacts DEF OneCallPerPool
  <1>7. CallbackFindsItsPool'
    BY <1>2, <1>3 DEF Placed, CallbackFindsItsPool, account_of
  <1>8. CallsCovered'
    <2>1. ASSUME NEW q \in promises' PROVE CallCovered(q)'
      <3>1. CASE q = r
        <4>1. CallCovered(p)
          BY CallFacts
        <4> QED
          BY <1>2, <1>3, <3>1, <4>1 DEF CallCovered, account_of, hand_vars
      <3>2. CASE q # r
        <4>1. CallCovered(q)
          BY <1>3, <3>2, CallFacts
        <4> QED
          BY <1>2, <4>1 DEF CallCovered, account_of, hand_vars
      <3> QED
        BY <3>1, <3>2
    <2> QED
      BY <2>1 DEF CallsCovered
  <1> QED
    BY <1>4, <1>5, <1>6, <1>7, <1>8 DEF Placed

LEMMA QuietKeeps ==
  ASSUME Placed, LedgerTyped', Quiet
  PROVE  Placed'
  <1>1. /\ staking_pools' \in Seq(StakingPoolInfo)
        /\ Len(staking_pools') = Len(staking_pools)
        /\ \A i \in DOMAIN staking_pools :
             /\ staking_pools'[i].staked = staking_pools[i].staked
             /\ staking_pools'[i].unstaked = staking_pools[i].unstaked
        /\ \A p \in promises : staking_pools'[p.sp].busy_lock
        /\ UNCHANGED <<promises, pool_accounts, held_at, sent_to, queries, rounded,
                       by_hand, unmade>>
    BY DEF Quiet, SameNear, beside_vars, hand_vars
  <1>2. PoolsListed'
    BY <1>1 DEF Placed, PoolsListed
  <1>3. CallsTyped'
    BY <1>1 DEF Placed, CallsTyped
  <1>4. OneCallPerPool'
    BY <1>1 DEF Placed, OneCallPerPool
  <1>5. CallbackFindsItsPool'
    BY <1>1 DEF Placed, CallbackFindsItsPool, account_of
  <1>6. CallsCovered'
    <2>1. ASSUME NEW p \in promises' PROVE CallCovered(p)'
      <3>1. /\ CallCovered(p)
            /\ staking_pools'[p.sp].staked = staking_pools[p.sp].staked
            /\ staking_pools'[p.sp].unstaked = staking_pools[p.sp].unstaked
        BY <1>1, CallFacts
      <3> QED
        BY <1>1, <3>1 DEF CallCovered, account_of
    <2> QED
      BY <2>1 DEF CallsCovered
  <1> QED
    BY <1>2, <1>3, <1>4, <1>5, <1>6 DEF Placed

(* What is recorded of a free pool may be corrected: no call relies on it. *)
LEMMA FreeRewritten ==
  ASSUME Placed, LedgerTyped', NEW i \in DOMAIN staking_pools, ~staking_pools[i].busy_lock,
         NEW sp \in StakingPoolInfo, staking_pools' = [staking_pools EXCEPT ![i] = sp],
         UNCHANGED <<promises, pool_accounts, held_at, sent_to, rounded, hand_vars>>,
         queries' \subseteq queries
  PROVE  Placed'
  <1>1. /\ staking_pools' \in Seq(StakingPoolInfo)
        /\ Len(staking_pools') = Len(staking_pools)
        /\ \A p \in promises : staking_pools'[p.sp] = staking_pools[p.sp]
    BY OneRewritten, CallFacts DEF Placed
  <1>2. UNCHANGED <<promises, pool_accounts, held_at, sent_to, rounded, by_hand, unmade>>
    BY DEF hand_vars
  <1>3. PoolsListed'
    BY <1>1, <1>2 DEF Placed, PoolsListed
  <1>4. CallsTyped'
    BY <1>2 DEF Placed, CallsTyped
  <1>5. OneCallPerPool'
    BY <1>1, <1>2 DEF Placed, OneCallPerPool
  <1>6. CallbackFindsItsPool'
    BY <1>2 DEF Placed, CallbackFindsItsPool, account_of
  <1>7. CallsCovered'
    BY <1>1, <1>2 DEF Placed, CallsCovered, CallCovered, account_of
  <1> QED
    BY <1>3, <1>4, <1>5, <1>6, <1>7 DEF Placed

LEMMA SyncedTyped ==
  ASSUME NEW sp \in StakingPoolInfo, NEW real \in Nat
  PROVE  /\ synced(sp, real) \in StakingPoolInfo
         /\ synced(sp, real).unstaked = real
         /\ synced(sp, real).staked = IF real > sp.unstaked
                                      THEN saturating_sub(sp.staked, real - sp.unstaked)
                                      ELSE sp.staked + (sp.unstaked - real)
  <1> DEFINE staked == IF real > sp.unstaked
                       THEN saturating_sub(sp.staked, real - sp.unstaked)
                       ELSE sp.staked + (sp.unstaked - real)
  <1>1. sp.staked \in Nat /\ sp.unstaked \in Nat
    BY DEF StakingPoolInfo
  <1>2. staked \in Nat
    <2>1. CASE real > sp.unstaked
      <3>1. real - sp.unstaked \in Nat
        BY <1>1, <2>1
      <3> QED
        BY <1>1, <2>1, <3>1, SaturatingSubNat
    <2>2. CASE ~(real > sp.unstaked)
      BY <1>1, <2>2
    <2> QED
      BY <2>1, <2>2
  <1>3. synced(sp, real) = [sp EXCEPT !.unstaked = real, !.staked = staked]
    BY DEF synced
  <1> HIDE DEF staked
  <1>4. /\ synced(sp, real) \in StakingPoolInfo
        /\ synced(sp, real).unstaked = real /\ synced(sp, real).staked = staked
    BY <1>2, <1>3 DEF StakingPoolInfo
  <1> QED
    BY <1>4 DEF staked

LEMMA QueriedKeeps ==
  ASSUME Placed, LedgerTyped', Queried
  PROVE  Placed'
  <1>1. UNCHANGED <<promises, pool_accounts, held_at, sent_to, rounded, by_hand, unmade>>
    BY DEF Queried, hand_vars
  <1>2. CASE /\ UNCHANGED staking_pools
             /\ \E q \in Query :
                  /\ q.sp \in DOMAIN pool_accounts /\ pool_accounts[q.sp] = q.account
                  /\ queries' \subseteq queries \cup {q}
    <2>1. PoolsListed'
      BY <1>1, <1>2 DEF Placed, PoolsListed
    <2>2. CallsTyped'
      BY <1>1, <1>2 DEF Placed, CallsTyped
    <2>3. OneCallPerPool'
      BY <1>1, <1>2 DEF Placed, OneCallPerPool
    <2>4. CallbackFindsItsPool'
      BY <1>1, <1>2 DEF Placed, CallbackFindsItsPool, account_of
    <2>5. CallsCovered'
      BY <1>1, <1>2 DEF Placed, CallsCovered, CallCovered, account_of
    <2> QED
      BY <2>1, <2>2, <2>3, <2>4, <2>5 DEF Placed
  <1>3. CASE UNCHANGED staking_pools /\ queries' \subseteq queries
    <2>1. PoolsListed'
      BY <1>1, <1>3 DEF Placed, PoolsListed
    <2>2. CallsTyped'
      BY <1>1, <1>3 DEF Placed, CallsTyped
    <2>3. OneCallPerPool'
      BY <1>1, <1>3 DEF Placed, OneCallPerPool
    <2>4. CallbackFindsItsPool'
      BY <1>1, <1>3 DEF Placed, CallbackFindsItsPool, account_of
    <2>5. CallsCovered'
      BY <1>1, <1>3 DEF Placed, CallsCovered, CallCovered, account_of
    <2> QED
      BY <2>1, <2>2, <2>3, <2>4, <2>5 DEF Placed
  <1>4. CASE \E q \in queries :
               /\ q.status = "ok" /\ ~staking_pools[q.sp].busy_lock
               /\ queries' = queries \ {q}
               /\ staking_pools' = [staking_pools EXCEPT ![q.sp] = synced(@, q.reply)]
    <2>1. PICK q \in queries :
            /\ ~staking_pools[q.sp].busy_lock
            /\ queries' \subseteq queries
            /\ staking_pools' = [staking_pools EXCEPT ![q.sp] = synced(@, q.reply)]
      BY <1>4
    <2>2. q.sp \in DOMAIN staking_pools /\ q.reply \in Nat
      BY Listed DEF Placed, CallsTyped, CallbackFindsItsPool, Query
    <2> DEFINE sp == synced(staking_pools[q.sp], q.reply)
    <2>3. sp \in StakingPoolInfo
      BY <2>2, SyncedTyped, Listed DEF Placed
    <2>4. staking_pools' = [staking_pools EXCEPT ![q.sp] = sp]
      BY <2>1
    <2> HIDE DEF sp
    <2> QED
      BY <1>1, <2>1, <2>2, <2>3, <2>4, FreeRewritten DEF hand_vars
  <1> QED
    BY <1>2, <1>3, <1>4 DEF Queried


(* Accounts that differ are no more than those there are. *)
LEMMA RoomForOneMore ==
  ASSUME PoolsListed, NEW account \in Range(PoolAccounts) \ Range(pool_accounts)
  PROVE  Len(pool_accounts) + 1 <= Len(PoolAccounts)
  <1> DEFINE m == Len(pool_accounts)
             known == Len(PoolAccounts)
             grown(k) == IF k = m + 1 THEN account ELSE pool_accounts[k]
             at == [k \in 1..(m + 1) |-> CHOOSE j \in 1..known : PoolAccounts[j] = grown(k)]
  <1>1. /\ m \in Nat /\ known \in Nat
        /\ DOMAIN PoolAccounts = 1..known
        /\ DOMAIN pool_accounts = 1..m
    BY Listed, LenProperties DEF PoolsListed
  <1>2. \A k \in 1..(m + 1) : grown(k) \in Range(PoolAccounts)
    BY <1>1, Listed DEF PoolsListed
  <1>3. \A k \in 1..(m + 1) : at[k] \in 1..known /\ PoolAccounts[at[k]] = grown(k)
    <2>1. ASSUME NEW k \in 1..(m + 1)
          PROVE  \E j \in 1..known : PoolAccounts[j] = grown(k)
      BY <1>1, <1>2 DEF Range
    <2> HIDE DEF grown
    <2> QED
      BY <2>1
  <1>4. \A k, l \in 1..(m + 1) : grown(k) = grown(l) => k = l
    <2>1. \A k \in 1..m : pool_accounts[k] \in Range(pool_accounts)
      BY <1>1 DEF Range
    <2>2. \A k, l \in 1..m : pool_accounts[k] = pool_accounts[l] => k = l
      BY <1>1 DEF PoolsListed
    <2>3. \A k \in 1..(m + 1) : k # m + 1 => k \in 1..m
      BY <1>1
    <2> QED
      BY <2>1, <2>2, <2>3
  <1> HIDE DEF m, known
  <1>5. /\ IsFiniteSet(1..(m + 1)) /\ Cardinality(1..(m + 1)) = m + 1
        /\ IsFiniteSet(1..known) /\ Cardinality(1..known) = known
    <2>1. /\ IsFiniteSet(1..(m + 1))
          /\ Cardinality(1..(m + 1)) = IF 1 > m + 1 THEN 0 ELSE (m + 1) - 1 + 1
      BY <1>1, FS_Interval
    <2>2. /\ IsFiniteSet(1..known)
          /\ Cardinality(1..known) = IF 1 > known THEN 0 ELSE known - 1 + 1
      BY <1>1, FS_Interval
    <2> QED
      BY <1>1, <2>1, <2>2
  <1>6. at \in [1..(m + 1) -> 1..known]
    BY <1>3
  <1> HIDE DEF at, grown
  <1>7. ASSUME known < m + 1 PROVE FALSE
    <2>1. \E k, l \in 1..(m + 1) : k # l /\ at[k] = at[l]
      BY <1>5, <1>6, <1>7, FS_PigeonHole
    <2> QED
      BY <1>3, <1>4, <2>1
  <1> QED
    BY <1>1, <1>7 DEF m, known

LEMMA PoolAddedFacts ==
  ASSUME Placed, PoolAdded
  PROVE  /\ staking_pools' \in Seq(StakingPoolInfo)
         /\ pool_accounts' \in Seq(Range(PoolAccounts))
         /\ Len(staking_pools') = Len(staking_pools) + 1
         /\ Len(pool_accounts') = Len(pool_accounts) + 1
         /\ \A j \in DOMAIN staking_pools :
              /\ j \in DOMAIN staking_pools' /\ j \in DOMAIN pool_accounts'
              /\ staking_pools'[j] = staking_pools[j] /\ pool_accounts'[j] = pool_accounts[j]
         /\ DOMAIN staking_pools' = 1..(Len(staking_pools) + 1)
         /\ DOMAIN pool_accounts' = 1..(Len(staking_pools) + 1)
         /\ pool_accounts'[Len(staking_pools) + 1] \in Range(PoolAccounts) \ Range(pool_accounts)
         /\ staking_pools'[Len(staking_pools) + 1] = NewStakingPool(0)
  <1>1. PICK account \in Range(PoolAccounts) \ Range(pool_accounts) :
          pool_accounts' = Append(pool_accounts, account)
    BY DEF PoolAdded
  <1>2. staking_pools' = Append(staking_pools, NewStakingPool(0))
    BY DEF PoolAdded
  <1>3. NewStakingPool(0) \in StakingPoolInfo
    BY DEF NewStakingPool, StakingPoolInfo
  <1>4. /\ staking_pools \in Seq(StakingPoolInfo)
        /\ pool_accounts \in Seq(Range(PoolAccounts))
        /\ Len(pool_accounts) = Len(staking_pools) /\ Len(staking_pools) \in Nat
        /\ DOMAIN staking_pools = 1..Len(staking_pools)
    BY Listed DEF Placed, PoolsListed
  <1> DEFINE new == NewStakingPool(0)
             m == Len(staking_pools)
  <1> HIDE DEF new, m
  <1>5. /\ staking_pools' \in Seq(StakingPoolInfo)
        /\ Len(staking_pools') = m + 1
        /\ \A j \in 1..m : staking_pools'[j] = staking_pools[j]
        /\ staking_pools'[m + 1] = new
    BY <1>2, <1>3, <1>4, AppendProperties DEF new, m
  <1>6. /\ pool_accounts' \in Seq(Range(PoolAccounts))
        /\ Len(pool_accounts') = m + 1
        /\ \A j \in 1..m : pool_accounts'[j] = pool_accounts[j]
        /\ pool_accounts'[m + 1] = account
    BY <1>1, <1>4, AppendProperties DEF m
  <1>7. DOMAIN staking_pools' = 1..(m + 1) /\ DOMAIN pool_accounts' = 1..(m + 1)
    BY <1>5, <1>6, LenProperties
  <1> QED
    BY <1>1, <1>4, <1>5, <1>6, <1>7 DEF new, m

LEMMA PoolAddedKeeps ==
  ASSUME Placed, LedgerTyped', PoolAdded
  PROVE  Placed'
  <1>1. UNCHANGED <<promises, held_at, sent_to, queries, rounded, by_hand, unmade>>
    BY DEF PoolAdded, beside_vars, hand_vars
  <1>2. /\ staking_pools' \in Seq(StakingPoolInfo)
        /\ pool_accounts' \in Seq(Range(PoolAccounts))
        /\ Len(pool_accounts') = Len(staking_pools')
        /\ \A j \in DOMAIN staking_pools :
             /\ j \in DOMAIN pool_accounts'
             /\ staking_pools'[j] = staking_pools[j] /\ pool_accounts'[j] = pool_accounts[j]
    BY PoolAddedFacts DEF Placed, PoolsListed
  <1>3. PoolsListed'
    <2> DEFINE m == Len(staking_pools)
    <2>1. /\ m \in Nat /\ DOMAIN pool_accounts' = 1..(m + 1)
          /\ DOMAIN pool_accounts = 1..m
          /\ \A j \in 1..m : pool_accounts'[j] = pool_accounts[j]
          /\ pool_accounts'[m + 1] \notin Range(pool_accounts)
          /\ Len(pool_accounts') = Len(pool_accounts) + 1
      BY PoolAddedFacts, Listed DEF Placed
    <2> HIDE DEF m
    <2>2. \A j \in 1..m : pool_accounts[j] \in Range(pool_accounts)
      BY <2>1 DEF Range
    <2>3. \A j \in 1..(m + 1) : j = m + 1 \/ j \in 1..m
      BY <2>1
    <2>4. \A j, k \in 1..m : pool_accounts[j] = pool_accounts[k] => j = k
      BY <2>1 DEF Placed, PoolsListed
    <2>5. \A j, k \in DOMAIN pool_accounts' : pool_accounts'[j] = pool_accounts'[k] => j = k
      BY <2>1, <2>2, <2>3, <2>4
    <2>6. Len(pool_accounts') <= Len(PoolAccounts)
      <3>1. \E account : account \in Range(PoolAccounts) \ Range(pool_accounts)
        BY DEF PoolAdded
      <3> QED
        BY <2>1, <3>1, RoomForOneMore DEF Placed
    <2> QED
      BY <1>2, <2>5, <2>6 DEF PoolsListed
  <1>4. CallsTyped'
    BY <1>1 DEF Placed, CallsTyped
  <1>5. \A p \in promises : p.sp \in DOMAIN staking_pools
    BY CallFacts
  <1>6. OneCallPerPool'
    BY <1>1, <1>2, <1>5 DEF Placed, OneCallPerPool
  <1>7. CallbackFindsItsPool'
    <2>1. \A q \in queries : q.sp \in DOMAIN staking_pools
      BY Listed DEF Placed, CallbackFindsItsPool
    <2> QED
      BY <1>1, <1>2, <1>5, <2>1 DEF Placed, CallbackFindsItsPool, account_of
  <1>8. CallsCovered'
    BY <1>1, <1>2, <1>5 DEF Placed, CallsCovered, CallCovered, account_of
  <1> QED
    BY <1>3, <1>4, <1>6, <1>7, <1>8 DEF Placed

LEMMA PoolRemovedFacts ==
  ASSUME Placed, NEW i \in DOMAIN staking_pools, PoolRemoved(i)
  PROVE  /\ staking_pools' \in Seq(StakingPoolInfo)
         /\ pool_accounts' \in Seq(Range(PoolAccounts))
         /\ Len(staking_pools') = Len(staking_pools) - 1
         /\ Len(pool_accounts') = Len(staking_pools) - 1
         /\ DOMAIN staking_pools' = 1..(Len(staking_pools) - 1)
         /\ DOMAIN pool_accounts' = 1..(Len(staking_pools) - 1)
         /\ \A j \in 1..(Len(staking_pools) - 1) :
              /\ staking_pools'[j] = IF j < i THEN staking_pools[j] ELSE staking_pools[j + 1]
              /\ pool_accounts'[j] = IF j < i THEN pool_accounts[j] ELSE pool_accounts[j + 1]
         /\ \A p \in promises : p.sp < i
         /\ \A q \in queries : q.sp < i
  <1>1. /\ staking_pools \in Seq(StakingPoolInfo)
        /\ pool_accounts \in Seq(Range(PoolAccounts))
        /\ Len(pool_accounts) = Len(staking_pools) /\ Len(staking_pools) \in Nat
        /\ i \in 1..Len(staking_pools) /\ i \in 1..Len(pool_accounts) /\ i \in Nat
    BY Listed DEF Placed, PoolsListed
  <1>2. /\ staking_pools' = RemoveAt(staking_pools, i)
        /\ pool_accounts' = RemoveAt(pool_accounts, i)
        /\ no_later_index(i) /\ ~staking_pools[i].busy_lock
    BY DEF PoolRemoved
  <1>3. /\ staking_pools' \in Seq(StakingPoolInfo)
        /\ Len(staking_pools') = Len(staking_pools) - 1
        /\ \A j \in 1..(Len(staking_pools) - 1) :
             staking_pools'[j] = IF j < i THEN staking_pools[j] ELSE staking_pools[j + 1]
    BY <1>1, <1>2, Removed
  <1>4. /\ pool_accounts' \in Seq(Range(PoolAccounts))
        /\ Len(pool_accounts') = Len(pool_accounts) - 1
        /\ \A j \in 1..(Len(pool_accounts) - 1) :
             pool_accounts'[j] = IF j < i THEN pool_accounts[j] ELSE pool_accounts[j + 1]
    BY <1>1, <1>2, Removed
  <1>5. /\ DOMAIN staking_pools' = 1..(Len(staking_pools) - 1)
        /\ DOMAIN pool_accounts' = 1..(Len(staking_pools) - 1)
    BY <1>1, <1>3, <1>4, LenProperties
  <1>6. ASSUME NEW p \in promises PROVE p.sp < i
    <2>1. p.sp \in DOMAIN staking_pools /\ p.sp # i /\ p.sp <= i
      BY <1>2, CallFacts DEF no_later_index
    <2> QED
      BY <1>1, <2>1, Listed DEF Placed
  <1> QED
    BY <1>1, <1>2, <1>3, <1>4, <1>5, <1>6 DEF no_later_index

LEMMA PoolRemovedKeeps ==
  ASSUME Placed, LedgerTyped', NEW i \in DOMAIN staking_pools, PoolRemoved(i)
  PROVE  Placed'
  <1> DEFINE m == Len(staking_pools)
  <1>1. UNCHANGED <<promises, held_at, sent_to, queries, rounded, by_hand, unmade>>
    BY DEF PoolRemoved, beside_vars, hand_vars
  <1>2. /\ m \in Nat /\ i \in 1..m /\ i \in Nat
        /\ DOMAIN staking_pools = 1..m /\ DOMAIN pool_accounts = 1..m
        /\ Len(pool_accounts) = m /\ m <= Len(PoolAccounts) /\ Len(PoolAccounts) \in Nat
    BY Listed DEF Placed, PoolsListed
  <1>3. /\ staking_pools' \in Seq(StakingPoolInfo)
        /\ pool_accounts' \in Seq(Range(PoolAccounts))
        /\ Len(staking_pools') = m - 1 /\ Len(pool_accounts') = m - 1
        /\ DOMAIN staking_pools' = 1..(m - 1) /\ DOMAIN pool_accounts' = 1..(m - 1)
        /\ \A j \in 1..(m - 1) :
             /\ staking_pools'[j] = IF j < i THEN staking_pools[j] ELSE staking_pools[j + 1]
             /\ pool_accounts'[j] = IF j < i THEN pool_accounts[j] ELSE pool_accounts[j + 1]
        /\ \A p \in promises : p.sp < i
        /\ \A q \in queries : q.sp < i
    BY PoolRemovedFacts
  <1> HIDE DEF m
  <1>4. \A j \in 1..m : j < i =>
          /\ j \in 1..(m - 1)
          /\ staking_pools'[j] = staking_pools[j] /\ pool_accounts'[j] = pool_accounts[j]
    BY <1>2, <1>3
  <1>5. PoolsListed'
    <2>1. \A j, k \in 1..m : pool_accounts[j] = pool_accounts[k] => j = k
      BY <1>2 DEF Placed, PoolsListed
    <2>2. ASSUME NEW j \in 1..(m - 1), NEW k \in 1..(m - 1),
                 pool_accounts'[j] = pool_accounts'[k]
          PROVE  j = k
      <3> DEFINE was(x) == IF x < i THEN x ELSE x + 1
      <3>1. was(j) \in 1..m /\ was(k) \in 1..m
        BY <1>2
      <3>2. pool_accounts[was(j)] = pool_accounts[was(k)]
        BY <1>3, <2>2
      <3>3. was(j) = was(k)
        BY <2>1, <3>1, <3>2
      <3> QED
        BY <1>2, <3>3
    <2>3. m - 1 <= Len(PoolAccounts)
      BY <1>2
    <2> QED
      BY <1>3, <2>2, <2>3 DEF PoolsListed
  <1>6. CallsTyped'
    BY <1>1 DEF Placed, CallsTyped
  <1>7. ASSUME NEW p \in promises
        PROVE  /\ p.sp \in 1..(m - 1)
               /\ staking_pools'[p.sp] = staking_pools[p.sp]
               /\ pool_accounts'[p.sp] = pool_accounts[p.sp]
    BY <1>2, <1>3, <1>4, CallFacts
  <1>8. ASSUME NEW q \in queries
        PROVE  /\ q.sp \in 1..(m - 1)
               /\ pool_accounts'[q.sp] = pool_accounts[q.sp]
    <2>1. q.sp \in 1..m
      BY <1>2 DEF Placed, CallbackFindsItsPool
    <2> QED
      BY <1>3, <1>4, <2>1
  <1>9. OneCallPerPool'
    BY <1>1, <1>7 DEF Placed, OneCallPerPool
  <1>10. CallbackFindsItsPool'
    BY <1>1, <1>3, <1>7, <1>8 DEF Placed, CallbackFindsItsPool, account_of
  <1>11. CallsCovered'
    BY <1>1, <1>7 DEF Placed, CallsCovered, CallCovered, account_of
  <1> QED
    BY <1>5, <1>6, <1>9, <1>10, <1>11 DEF Placed

LEMMA HandCompletedKeeps ==
  ASSUME Placed, LedgerTyped', NEW i \in DOMAIN staking_pools, HandCompleted(i)
  PROVE  Placed'
  <1>1. /\ UNCHANGED <<promises, staking_pools, pool_accounts, held_at, sent_to, queries,
                       rounded, unmade>>
        /\ by_hand' = [by_hand EXCEPT ![pool_accounts[i]] = 0]
        /\ free_of_calls(i)
    BY DEF HandCompleted, beside_vars
  <1>2. by_hand \in [Range(PoolAccounts) -> Nat] /\ pool_accounts[i] \in Range(PoolAccounts)
    BY Listed DEF Placed, CallsTyped
  <1>3. PoolsListed'
    BY <1>1 DEF Placed, PoolsListed
  <1>4. CallsTyped'
    BY <1>1, <1>2 DEF Placed, CallsTyped
  <1>5. OneCallPerPool'
    BY <1>1 DEF Placed, OneCallPerPool
  <1>6. CallbackFindsItsPool'
    BY <1>1 DEF Placed, CallbackFindsItsPool, account_of
  <1>7. CallsCovered'
    <2>1. ASSUME NEW p \in promises' PROVE CallCovered(p)'
      <3>1. /\ p \in promises /\ CallCovered(p)
            /\ account_of(p) = pool_accounts[p.sp] /\ p.sp \in DOMAIN pool_accounts
            /\ account_of(p) \in Range(PoolAccounts)
        BY <1>1, CallFacts, Listed DEF Placed
      <3>2. p.sp # i /\ i \in DOMAIN pool_accounts
        BY <1>1, <3>1, Listed DEF free_of_calls, Placed
      <3>3. account_of(p) # pool_accounts[i]
        BY <3>1, <3>2 DEF Placed, PoolsListed
      <3>4. by_hand'[account_of(p)] = by_hand[account_of(p)]
        BY <1>1, <1>2, <3>1, <3>3
      <3> QED
        BY <1>1, <3>1, <3>4 DEF CallCovered, account_of
    <2> QED
      BY <2>1 DEF CallsCovered
  <1> QED
    BY <1>3, <1>4, <1>5, <1>6, <1>7 DEF Placed

LEMMA OrdersUndoneKeeps ==
  ASSUME Placed, LedgerTyped', OrdersUndone
  PROVE  Placed'
  <1>1. /\ UNCHANGED <<promises, staking_pools, pool_accounts, held_at, sent_to, queries,
                       rounded, by_hand>>
        /\ unmade' = 0
    BY DEF OrdersUndone, beside_vars
  <1>2. PoolsListed'
    BY <1>1 DEF Placed, PoolsListed
  <1>3. CallsTyped'
    BY <1>1 DEF Placed, CallsTyped
  <1>4. OneCallPerPool'
    BY <1>1 DEF Placed, OneCallPerPool
  <1>5. CallbackFindsItsPool'
    BY <1>1 DEF Placed, CallbackFindsItsPool, account_of
  <1>6. CallsCovered'
    BY <1>1 DEF Placed, CallsCovered, CallCovered, account_of
  <1> QED
    BY <1>2, <1>3, <1>4, <1>5, <1>6 DEF Placed

LEMMA MovesKeep == Placed /\ LedgerTyped' /\ Move => Placed'
  BY SentKeeps, CalledBackKeeps, AnsweredKeeps, QuietKeeps, QueriedKeeps, PoolAddedKeeps,
     PoolRemovedKeeps, HandCompletedKeeps, OrdersUndoneKeeps DEF Move


LEMMA InitPlaced == OperatorInit => Placed
  <1> SUFFICES ASSUME OperatorInit PROVE Placed
    OBVIOUS
  <1>1. /\ Init
        /\ pool_accounts = SubSeq(PoolAccounts, 1, Len(Weights))
        /\ held_at = [a \in Range(PoolAccounts) |-> [staked |-> 0, unstaked |-> 0]]
        /\ sent_to = [i \in DOMAIN PoolAccounts |->
                        [account |-> PoolAccounts[i], manual |-> FALSE]]
        /\ queries = {} /\ unmade = 0 /\ rounded = 0
        /\ by_hand = [a \in Range(PoolAccounts) |-> 0]
    BY DEF OperatorInit
  <1>2. /\ Weights \in Seq(Nat) /\ Len(Weights) \in Nat /\ DOMAIN Weights = 1..Len(Weights)
        /\ Len(Weights) <= Len(PoolAccounts)
    BY ParametersAssumption, OperatorAssumption, LenProperties
  <1>3. /\ Len(PoolAccounts) \in Nat /\ DOMAIN PoolAccounts = 1..Len(PoolAccounts)
        /\ \A i \in DOMAIN PoolAccounts : PoolAccounts[i] \in Range(PoolAccounts)
    BY OperatorAssumption, LenProperties DEF Range
  <1>4. LedgerTyped
    BY <1>1, InitTyped, TypedLedger
  <1>5. staking_pools = [i \in DOMAIN Weights |-> NewStakingPool(Weights[i])]
        /\ promises = {}
    BY <1>1 DEF Init
  <1>6. staking_pools \in Seq(StakingPoolInfo) /\ Len(staking_pools) = Len(Weights)
    <2>1. \A i \in DOMAIN Weights : NewStakingPool(Weights[i]) \in StakingPoolInfo
      BY <1>2, ElementOfSeq DEF NewStakingPool, StakingPoolInfo
    <2>2. staking_pools \in Seq(StakingPoolInfo)
      BY <1>2, <1>5, <2>1, SeqDef
    <2> QED
      BY <1>2, <1>5, <2>2, LenProperties
  <1>7. /\ pool_accounts \in Seq(Range(PoolAccounts)) /\ Len(pool_accounts) = Len(Weights)
        /\ \A i \in 1..Len(Weights) : pool_accounts[i] = PoolAccounts[i]
    <2>1. \A i \in 1..Len(Weights) : PoolAccounts[i] \in Range(PoolAccounts)
      BY <1>2, <1>3
    <2> DEFINE m == Len(Weights)
    <2>2. m \in Nat /\ pool_accounts = SubSeq(PoolAccounts, 1, m)
      BY <1>1, <1>2
    <2> HIDE DEF m
    <2>3. /\ pool_accounts \in Seq(Range(PoolAccounts))
          /\ Len(pool_accounts) = IF 1 <= m THEN m - 1 + 1 ELSE 0
          /\ \A i \in 1..(m - 1 + 1) : pool_accounts[i] = PoolAccounts[1 + i - 1]
      BY <2>1, <2>2, SubSeqProperties DEF m
    <2>4. m - 1 + 1 = m /\ \A i \in 1..m : 1 + i - 1 = i
      BY <2>2
    <2> QED
      BY <2>2, <2>3, <2>4 DEF m
  <1>8. DOMAIN pool_accounts = 1..Len(Weights)
    BY <1>7, LenProperties
  <1>9. PoolsListed
    BY <1>2, <1>3, <1>6, <1>7, <1>8, OperatorAssumption DEF PoolsListed
  <1>10. CallsTyped
    BY <1>1, <1>3, <1>5, FS_EmptySet DEF CallsTyped
  <1>11. OneCallPerPool /\ CallbackFindsItsPool /\ CallsCovered
    BY <1>1, <1>5 DEF OneCallPerPool, CallbackFindsItsPool, CallsCovered
  <1> QED
    BY <1>4, <1>9, <1>10, <1>11 DEF Placed

(***************************************************************************)
(* Whatever is done to the list and by hand, calls stay where they are.     *)
(***************************************************************************)
THEOREM PlacedAlways == OperatorSpec => []Placed
  <1>1. Placed /\ [OperatorNext]_operator_vars => Placed'
    BY EveryMove, MovesKeep
  <1> QED
    BY <1>1, InitPlaced, PTL DEF OperatorSpec

(* The list, what is kept beside it and the orders have their types, for     *)
(* every list of pools and whatever is called by hand (staking_pools.rs).    *)
THEOREM OperatorTypesKept == OperatorSpec => []OperatorTypeOK
  <1>1. Placed => OperatorTypeOK
    BY Listed DEF Placed, LedgerTyped, PoolsListed, CallsTyped, OperatorTypeOK
  <1> QED
    BY <1>1, PlacedAlways, PTL

(* At most one call is ever in flight to a pool, and the pool is locked,     *)
(* though staking by hand starts beside any other call.                      *)
THEOREM PoolsCalledOnce == OperatorSpec => []OneCallPerPool
  <1>1. Placed => OneCallPerPool
    BY DEF Placed
  <1> QED
    BY <1>1, PlacedAlways, PTL

-----------------------------------------------------------------------------
(***************************************************************************)
(* What is in flight and what was unstaked by hand, as the moves change it. *)
(***************************************************************************)
LEMMA PoolsFinite == IsFiniteSet(Range(PoolAccounts))
  <1> DEFINE m == Len(PoolAccounts)
             f == [k \in 1..m |-> PoolAccounts[k]]
  <1>1. m \in Nat /\ DOMAIN PoolAccounts = 1..m
    BY OperatorAssumption, LenProperties
  <1>2. IsFiniteSet(1..m)
    BY <1>1, FS_Interval
  <1>3. f \in Surjection(1..m, Range(PoolAccounts))
    BY <1>1 DEF Surjection, Range
  <1> HIDE DEF f, m
  <1> QED
    BY <1>2, <1>3, FS_Surjection

LEMMA PoolSumNat ==
  ASSUME NEW f \in [Range(PoolAccounts) -> Nat]
  PROVE  /\ SumFunction(f) \in Nat
         /\ \A a \in Range(PoolAccounts) : f[a] <= SumFunction(f)
  <1> DEFINE P == Range(PoolAccounts)
  <1>1. SumFunction(f) = SumFunctionOnSet(f, P)
    BY DEF SumFunction
  <1>2. IsFiniteSet(P) /\ \A a \in P : f[a] \in Nat
    BY PoolsFinite
  <1> HIDE DEF P
  <1>3. /\ SumFunctionOnSet(f, P) \in Nat
        /\ \A a \in P : f[a] <= SumFunctionOnSet(f, P)
    BY <1>2, SumNat
  <1> QED
    BY <1>1, <1>3 DEF P

LEMMA PoolSumZero ==
  ASSUME NEW f \in [Range(PoolAccounts) -> Nat], \A a \in Range(PoolAccounts) : f[a] = 0
  PROVE  SumFunction(f) = 0
  <1>1. SumFunction(f) = SumFunctionOnSet(f, Range(PoolAccounts))
    BY DEF SumFunction
  <1> QED
    BY <1>1, PoolsFinite, SumZero

LEMMA PoolSumChange ==
  ASSUME NEW f \in [Range(PoolAccounts) -> Nat], NEW a \in Range(PoolAccounts), NEW v \in Nat
  PROVE  /\ [f EXCEPT ![a] = v] \in [Range(PoolAccounts) -> Nat]
         /\ SumFunction([f EXCEPT ![a] = v]) = SumFunction(f) + (v - f[a])
  <1> DEFINE P == Range(PoolAccounts)
             h == [f EXCEPT ![a] = v]
  <1>1. h \in [P -> Nat]
    OBVIOUS
  <1>2. SumFunction(f) = SumFunctionOnSet(f, P) /\ SumFunction(h) = SumFunctionOnSet(h, P)
    BY <1>1 DEF SumFunction
  <1>3. /\ IsFiniteSet(P) /\ a \in P
        /\ \A x \in P : f[x] \in Int /\ h[x] \in Int
        /\ \A x \in P \ {a} : h[x] = f[x]
        /\ h[a] = v
    BY PoolsFinite
  <1> HIDE DEF P, h
  <1>4. SumFunctionOnSet(h, P) = SumFunctionOnSet(f, P) + (h[a] - f[a])
    BY <1>3, SumOfOneChange
  <1>5. h \in [P -> Nat] /\ SumFunction(h) = SumFunction(f) + (v - f[a])
    BY <1>1, <1>2, <1>3, <1>4
  <1> QED
    BY <1>5 DEF h, P

(* The calls that stake, those that unstake, those whose NEAR is on its way  *)
(* back and those whose NEAR has left.                                       *)
Staking == {p \in AnyCall : p.op \in {"stake", "restake"}}
Unstaking == {p \in AnyCall : p.op = "unstake"}
Retrieved == {p \in AnyCall : p.op = "retrieve" /\ p.status = "ok"}
Deposited == {p \in AnyCall : p.op = "stake" /\ p.status \in {"sent", "ok"}}

staking_in_flight == sum_of(promises \cap Staking)
unstaking_in_flight == sum_of(promises \cap Unstaking)
retrieved_in_flight == sum_of(promises \cap Retrieved)
deposited_in_flight == sum_of(promises \cap Deposited)

LEMMA InFlightAmounts ==
  ASSUME CallsTyped
  PROVE  /\ all_in_flight({"stake", "restake"}) = staking_in_flight
         /\ all_in_flight({"unstake"}) = unstaking_in_flight
         /\ retrieved_not_recorded = retrieved_in_flight
         /\ staked_not_deducted = deposited_in_flight
  <1>1. /\ {p \in promises : p.op \in {"stake", "restake"}} = promises \cap Staking
        /\ {p \in promises : p.op \in {"unstake"}} = promises \cap Unstaking
        /\ {p \in promises : p.op = "retrieve" /\ p.status = "ok"} = promises \cap Retrieved
        /\ {p \in promises : p.op = "stake" /\ p.status \in {"sent", "ok"}}
             = promises \cap Deposited
    BY DEF CallsTyped, Staking, Unstaking, Retrieved, Deposited
  <1> QED
    BY <1>1 DEF all_in_flight, retrieved_not_recorded, staked_not_deducted,
                staking_in_flight, unstaking_in_flight, retrieved_in_flight,
                deposited_in_flight

LEMMA AmountsNat ==
  ASSUME CallsTyped
  PROVE  /\ staking_in_flight \in Nat /\ unstaking_in_flight \in Nat
         /\ retrieved_in_flight \in Nat /\ deposited_in_flight \in Nat
         /\ SumFunction(by_hand) \in Nat /\ unstaked_by_hand \in Nat
  <1>1. ASSUME NEW K PROVE sum_of(promises \cap K) \in Nat
    <2>1. IsFiniteSet(promises \cap K) /\ \A p \in promises \cap K : p.amount \in Nat
      BY FS_Subset DEF CallsTyped, AnyCall
    <2> QED
      BY <2>1, CallsNat
  <1>2. SumFunction(by_hand) \in Nat /\ unmade \in Nat
    BY PoolSumNat DEF CallsTyped
  <1> QED
    BY <1>1, <1>2 DEF staking_in_flight, unstaking_in_flight, retrieved_in_flight,
                      deposited_in_flight, unstaked_by_hand

(* So much more is being staked, unstaked, retrieved and deposited, and so   *)
(* much more was unstaked by hand.                                           *)
Amounts(stake, unstake_, retrieve, deposit, hand) ==
  /\ staking_in_flight' = staking_in_flight + stake
  /\ unstaking_in_flight' = unstaking_in_flight + unstake_
  /\ retrieved_in_flight' = retrieved_in_flight + retrieve
  /\ deposited_in_flight' = deposited_in_flight + deposit
  /\ unstaked_by_hand' = unstaked_by_hand + hand

LEMMA SameAmounts ==
  ASSUME Placed, UNCHANGED <<promises, hand_vars>>
  PROVE  Amounts(0, 0, 0, 0, 0)
  <1>1. /\ UNCHANGED <<staking_in_flight, unstaking_in_flight, retrieved_in_flight,
                       deposited_in_flight>>
    BY DEF staking_in_flight, unstaking_in_flight, retrieved_in_flight,
           deposited_in_flight
  <1>2. UNCHANGED unstaked_by_hand
    BY DEF unstaked_by_hand, hand_vars
  <1>3. /\ staking_in_flight \in Nat /\ unstaking_in_flight \in Nat
        /\ retrieved_in_flight \in Nat /\ deposited_in_flight \in Nat
        /\ unstaked_by_hand \in Nat
    BY AmountsNat DEF Placed
  <1> QED
    BY <1>1, <1>2, <1>3 DEF Amounts


LEMMA SentAmounts ==
  ASSUME Placed, NEW i, NEW op, NEW n, NEW manual, Sent(i, op, n, manual)
  PROVE  /\ n \in Nat /\ op \in Operation
         /\ op = "stake" => Amounts(n, 0, 0, n, 0)
         /\ op = "restake" => Amounts(n, 0, 0, 0, 0)
         /\ op = "unstake" /\ manual => Amounts(0, n, 0, 0, n)
         /\ op = "unstake" /\ ~manual => Amounts(0, n, 0, 0, 0)
         /\ op \in {"retrieve", "rewards"} => Amounts(0, 0, 0, 0, 0)
  <1> DEFINE c == Call(op, i, n)
  <1>1. /\ promises \in SUBSET AnyCall /\ IsFiniteSet(promises)
        /\ c \in AnyCall /\ c \notin promises /\ promises' = promises \cup {c}
        /\ c.op = op /\ c.amount = n /\ c.status = "sent" /\ n \in Nat /\ op \in Operation
        /\ i \in DOMAIN staking_pools
    BY SentFacts DEF Placed, CallsTyped
  <1> HIDE DEF c
  <1>2. ASSUME NEW K
        PROVE  sum_of(promises' \cap K) = sum_of(promises \cap K) + counted(c, K)
    BY <1>1, CallJoins
  <1>3. /\ staking_in_flight' = staking_in_flight + counted(c, Staking)
        /\ unstaking_in_flight' = unstaking_in_flight + counted(c, Unstaking)
        /\ retrieved_in_flight' = retrieved_in_flight + counted(c, Retrieved)
        /\ deposited_in_flight' = deposited_in_flight + counted(c, Deposited)
    BY <1>2 DEF staking_in_flight, unstaking_in_flight, retrieved_in_flight,
                deposited_in_flight, Staking, Unstaking, Retrieved, Deposited, AnyCall
  <1>4. /\ counted(c, Staking) = IF op \in {"stake", "restake"} THEN n ELSE 0
        /\ counted(c, Unstaking) = IF op = "unstake" THEN n ELSE 0
        /\ counted(c, Retrieved) = 0
        /\ counted(c, Deposited) = IF op = "stake" THEN n ELSE 0
    BY <1>1 DEF counted, Staking, Unstaking, Retrieved, Deposited
  <1>5. /\ op = "unstake" /\ manual => unstaked_by_hand' = unstaked_by_hand + n
        /\ ~(op = "unstake" /\ manual) => UNCHANGED unstaked_by_hand
    <2>1. /\ by_hand \in [Range(PoolAccounts) -> Nat] /\ unmade \in Nat
          /\ pool_accounts[i] \in Range(PoolAccounts)
      BY <1>1, Listed DEF Placed, CallsTyped
    <2>2. /\ by_hand' = IF op = "unstake" /\ manual
                        THEN [by_hand EXCEPT ![pool_accounts[i]] = @ + n] ELSE by_hand
          /\ unmade' = unmade
      BY DEF Sent
    <2>3. CASE op = "unstake" /\ manual
      <3> DEFINE a == pool_accounts[i]
                 v == by_hand[a] + n
      <3>1. by_hand' = [by_hand EXCEPT ![a] = v] /\ v \in Nat /\ a \in Range(PoolAccounts)
            /\ by_hand[a] \in Nat
        BY <1>1, <2>1, <2>2, <2>3
      <3>2. v - by_hand[a] = n
        BY <1>1, <3>1
      <3> HIDE DEF v, a
      <3>3. SumFunction(by_hand') = SumFunction(by_hand) + (v - by_hand[a])
        BY <2>1, <3>1, PoolSumChange
      <3>4. SumFunction(by_hand) \in Nat
        BY <2>1, PoolSumNat
      <3> QED
        BY <1>1, <2>1, <2>2, <2>3, <3>2, <3>3, <3>4 DEF unstaked_by_hand
    <2>4. CASE ~(op = "unstake" /\ manual)
      BY <2>2, <2>4 DEF unstaked_by_hand
    <2> QED
      BY <2>3, <2>4
  <1>6. /\ staking_in_flight \in Nat /\ unstaking_in_flight \in Nat
        /\ retrieved_in_flight \in Nat /\ deposited_in_flight \in Nat
        /\ unstaked_by_hand \in Nat
    BY AmountsNat DEF Placed
  <1>7. CASE op = "stake"
    BY <1>1, <1>3, <1>4, <1>5, <1>6, <1>7 DEF Amounts
  <1>8. CASE op = "restake"
    BY <1>1, <1>3, <1>4, <1>5, <1>6, <1>8 DEF Amounts
  <1>9. CASE op = "unstake"
    BY <1>1, <1>3, <1>4, <1>5, <1>6, <1>9 DEF Amounts
  <1>10. CASE op \in {"retrieve", "rewards"}
    BY <1>1, <1>3, <1>4, <1>5, <1>6, <1>10 DEF Amounts
  <1> QED
    BY <1>1, <1>7, <1>8, <1>9, <1>10 DEF Operation

LEMMA CalledBackAmounts ==
  ASSUME Placed, NEW p \in promises, CalledBack(p)
  PROVE  /\ p.amount \in Nat
         /\ p.op = "stake" /\ p.status = "ok" => Amounts(-p.amount, 0, 0, -p.amount, 0)
         /\ p.op = "restake" => Amounts(-p.amount, 0, 0, 0, 0)
         /\ p.op = "stake" /\ p.status = "failed" => Amounts(-p.amount, 0, 0, 0, 0)
         /\ p.op = "unstake" => Amounts(0, -p.amount, 0, 0, 0)
         /\ p.op = "retrieve" /\ p.status = "ok" => Amounts(0, 0, -p.amount, 0, 0)
         /\ p.op \in {"retrieve", "rewards"} /\ p.status = "failed" => Amounts(0, 0, 0, 0, 0)
  <1> DEFINE n == p.amount
  <1>1. /\ promises \in SUBSET AnyCall /\ IsFiniteSet(promises) /\ p \in AnyCall
        /\ n \in Nat /\ p.op \in Operation
    BY CallFacts DEF Placed, CallsTyped
  <1>2. promises' = promises \ {p}
    BY FreedFacts DEF CalledBack
  <1>3. ASSUME NEW K
        PROVE  sum_of(promises' \cap K) = sum_of(promises \cap K) - counted(p, K)
    BY <1>1, <1>2, CallLeaves
  <1>4. /\ staking_in_flight' = staking_in_flight - counted(p, Staking)
        /\ unstaking_in_flight' = unstaking_in_flight - counted(p, Unstaking)
        /\ retrieved_in_flight' = retrieved_in_flight - counted(p, Retrieved)
        /\ deposited_in_flight' = deposited_in_flight - counted(p, Deposited)
    BY <1>3 DEF staking_in_flight, unstaking_in_flight, retrieved_in_flight,
                deposited_in_flight, Staking, Unstaking, Retrieved, Deposited, AnyCall
  <1>5. /\ counted(p, Staking) = IF p.op \in {"stake", "restake"} THEN n ELSE 0
        /\ counted(p, Unstaking) = IF p.op = "unstake" THEN n ELSE 0
        /\ counted(p, Retrieved) = IF p.op = "retrieve" /\ p.status = "ok" THEN n ELSE 0
        /\ counted(p, Deposited) = IF p.op = "stake" /\ p.status \in {"sent", "ok"}
                                   THEN n ELSE 0
    BY <1>1 DEF counted, Staking, Unstaking, Retrieved, Deposited
  <1>6. UNCHANGED unstaked_by_hand
    <2>1. CASE UNCHANGED hand_vars
      BY <2>1 DEF unstaked_by_hand, hand_vars
    <2>2. CASE HandFailed(p) /\ sent_to[p.sp].manual /\ p.op = "unstake"
      <3> DEFINE a == account_of(p)
                 v == by_hand[a] - n
      <3>1. /\ by_hand \in [Range(PoolAccounts) -> Nat] /\ unmade \in Nat
            /\ a \in Range(PoolAccounts) /\ n <= by_hand[a]
        BY <2>2, CallFacts DEF Placed, CallsTyped, CallCovered
      <3>2. v \in Nat /\ v - by_hand[a] = -n
        BY <1>1, <3>1
      <3>3. unmade' = unmade + n /\ by_hand' = [by_hand EXCEPT ![a] = v]
        BY <2>2 DEF HandFailed
      <3> HIDE DEF v, a
      <3>4. SumFunction(by_hand') = SumFunction(by_hand) + (v - by_hand[a])
        BY <3>1, <3>2, <3>3, PoolSumChange
      <3>5. SumFunction(by_hand) \in Nat
        BY <3>1, PoolSumNat
      <3> QED
        BY <1>1, <3>1, <3>2, <3>3, <3>4, <3>5 DEF unstaked_by_hand
    <2> QED
      BY <2>1, <2>2 DEF CalledBack, HandFailed
  <1>7. /\ staking_in_flight \in Nat /\ unstaking_in_flight \in Nat
        /\ retrieved_in_flight \in Nat /\ deposited_in_flight \in Nat
        /\ unstaked_by_hand \in Nat
    BY AmountsNat DEF Placed
  <1> HIDE DEF n
  <1>8. CASE p.op = "stake" /\ p.status = "ok"
    <2>1. Amounts(-n, 0, 0, -n, 0)
      BY <1>1, <1>4, <1>5, <1>6, <1>7, <1>8 DEF Amounts
    <2> QED
      BY <1>1, <1>8, <2>1 DEF n
  <1>9. CASE p.op = "restake" \/ (p.op = "stake" /\ p.status = "failed")
    <2>1. Amounts(-n, 0, 0, 0, 0)
      BY <1>1, <1>4, <1>5, <1>6, <1>7, <1>9 DEF Amounts
    <2> QED
      BY <1>1, <1>9, <2>1 DEF n
  <1>10. CASE p.op = "unstake"
    <2>1. Amounts(0, -n, 0, 0, 0)
      BY <1>1, <1>4, <1>5, <1>6, <1>7, <1>10 DEF Amounts
    <2> QED
      BY <1>1, <1>10, <2>1 DEF n
  <1>11. CASE p.op = "retrieve" /\ p.status = "ok"
    <2>1. Amounts(0, 0, -n, 0, 0)
      BY <1>1, <1>4, <1>5, <1>6, <1>7, <1>11 DEF Amounts
    <2> QED
      BY <1>1, <1>11, <2>1 DEF n
  <1>12. CASE p.op \in {"retrieve", "rewards"} /\ p.status = "failed"
    <2>1. Amounts(0, 0, 0, 0, 0)
      BY <1>1, <1>4, <1>5, <1>6, <1>7, <1>12 DEF Amounts
    <2> QED
      BY <1>1, <1>12, <2>1 DEF n
  <1>13. p.status = "failed" \/ (p.status = "ok" /\ p.op # "rewards")
    BY DEF CalledBack
  <1> QED
    BY <1>1, <1>8, <1>9, <1>10, <1>11, <1>12, <1>13 DEF n, Operation

LEMMA AnsweredAmounts ==
  ASSUME Placed, NEW p \in promises, p.status = "sent", NEW r, Turned(p, r),
         UNCHANGED hand_vars
  PROVE  /\ p.amount \in Nat
         /\ p.op = "stake" /\ r.status = "failed" => Amounts(0, 0, 0, -p.amount, 0)
         /\ p.op = "retrieve" /\ r.status = "ok" => Amounts(0, 0, p.amount, 0, 0)
         /\ ~(p.op = "stake" /\ r.status = "failed") /\ ~(p.op = "retrieve" /\ r.status = "ok")
              => Amounts(0, 0, 0, 0, 0)
  <1> DEFINE n == p.amount
  <1>1. /\ promises \in SUBSET AnyCall /\ IsFiniteSet(promises) /\ p \in AnyCall
        /\ n \in Nat /\ p.op \in Operation
    BY CallFacts DEF Placed, CallsTyped
  <1>2. /\ r \in AnyCall /\ r \notin promises /\ r.op = p.op /\ r.amount = n
        /\ r.status \in {"ok", "failed"}
        /\ promises' = (promises \ {p}) \cup {r}
    BY DEF Turned
  <1>3. ASSUME NEW K
        PROVE  sum_of(promises' \cap K)
                 = sum_of(promises \cap K) - counted(p, K) + counted(r, K)
    BY <1>1, <1>2, CallTurns
  <1>4. /\ staking_in_flight'
             = staking_in_flight - counted(p, Staking) + counted(r, Staking)
        /\ unstaking_in_flight'
             = unstaking_in_flight - counted(p, Unstaking) + counted(r, Unstaking)
        /\ retrieved_in_flight'
             = retrieved_in_flight - counted(p, Retrieved) + counted(r, Retrieved)
        /\ deposited_in_flight'
             = deposited_in_flight - counted(p, Deposited) + counted(r, Deposited)
    BY <1>3 DEF staking_in_flight, unstaking_in_flight, retrieved_in_flight,
                deposited_in_flight, Staking, Unstaking, Retrieved, Deposited, AnyCall
  <1>5. /\ counted(p, Staking) \in Nat /\ counted(r, Staking) = counted(p, Staking)
        /\ counted(p, Unstaking) \in Nat /\ counted(r, Unstaking) = counted(p, Unstaking)
        /\ counted(p, Retrieved) = 0
        /\ counted(r, Retrieved) = IF p.op = "retrieve" /\ r.status = "ok" THEN n ELSE 0
        /\ counted(p, Deposited) = IF p.op = "stake" THEN n ELSE 0
        /\ counted(r, Deposited) = IF p.op = "stake" /\ r.status = "ok" THEN n ELSE 0
    BY <1>1, <1>2 DEF counted, Staking, Unstaking, Retrieved, Deposited
  <1>6. UNCHANGED unstaked_by_hand
    BY DEF unstaked_by_hand, hand_vars
  <1>7. /\ staking_in_flight \in Nat /\ unstaking_in_flight \in Nat
        /\ retrieved_in_flight \in Nat /\ deposited_in_flight \in Nat
        /\ unstaked_by_hand \in Nat
    BY AmountsNat DEF Placed
  <1> DEFINE x == counted(p, Staking)
             y == counted(p, Unstaking)
  <1>8. /\ staking_in_flight' = staking_in_flight /\ unstaking_in_flight' = unstaking_in_flight
    <2>1. x \in Nat /\ staking_in_flight' = staking_in_flight - x + x
      BY <1>4, <1>5
    <2>2. y \in Nat /\ unstaking_in_flight' = unstaking_in_flight - y + y
      BY <1>4, <1>5
    <2> HIDE DEF x, y
    <2> QED
      BY <1>7, <2>1, <2>2
  <1> HIDE DEF n
  <1>9. CASE p.op = "stake" /\ r.status = "failed"
    <2>1. Amounts(0, 0, 0, -n, 0)
      BY <1>1, <1>4, <1>5, <1>6, <1>7, <1>8, <1>9 DEF Amounts
    <2> QED
      BY <1>1, <1>9, <2>1 DEF n
  <1>10. CASE p.op = "retrieve" /\ r.status = "ok"
    <2>1. Amounts(0, 0, n, 0, 0)
      BY <1>1, <1>4, <1>5, <1>6, <1>7, <1>8, <1>10 DEF Amounts
    <2> QED
      BY <1>1, <1>10, <2>1 DEF n
  <1>11. CASE ~(p.op = "stake" /\ r.status = "failed") /\ ~(p.op = "retrieve" /\ r.status = "ok")
    <2>1. Amounts(0, 0, 0, 0, 0)
      BY <1>1, <1>2, <1>4, <1>5, <1>6, <1>7, <1>8, <1>11 DEF Amounts
    <2> QED
      BY <1>1, <1>11, <2>1 DEF n
  <1> QED
    BY <1>1, <1>9, <1>10, <1>11 DEF n

-----------------------------------------------------------------------------
(***************************************************************************)
(* What a move of n does to the books and to what is in flight, whichever   *)
(* pool and call it is of.                                                  *)
(***************************************************************************)
SendingFlow(n) ==
  \/ Booked(n, -n, 0, 0, 0, 0, -n, 0) /\ Amounts(n, 0, 0, n, 0)
  \/ Booked(n, -n, 0, 0, 0, 0, 0, 0) /\ Amounts(n, 0, 0, 0, 0)
  \/ Booked(-n, 0, -n, 0, 0, 0, 0, 0) /\ Amounts(0, n, 0, 0, 0)
  \/ Booked(-n, 0, 0, 0, 0, 0, 0, 0) /\ Amounts(0, n, 0, 0, n)

ReturningFlow(n) ==
  \/ Booked(0, 0, 0, 0, 0, -n, 0, 0) /\ Amounts(-n, 0, 0, -n, 0)
  \/ Booked(0, 0, 0, -n, n, 0, 0, 0) /\ Amounts(-n, 0, 0, 0, 0)
  \/ Booked(-n, n, 0, 0, 0, 0, 0, 0) /\ Amounts(-n, 0, 0, 0, 0)
  \/ Booked(0, 0, 0, n, 0, 0, 0, 0) /\ Amounts(0, -n, 0, 0, 0)
  \/ Booked(n, 0, n, 0, 0, 0, 0, 0) /\ Amounts(0, -n, 0, 0, 0)
  \/ /\ Booked(0, 0, 0, -minimum(total_unstaked_and_waiting, n), n, n, 0, 0)
     /\ Amounts(0, 0, -n, 0, 0)

ArrivingFlow(n) ==
  \/ Booked(0, 0, 0, 0, 0, 0, 0, n) /\ Amounts(0, 0, 0, -n, 0)
  \/ Booked(0, 0, 0, 0, 0, 0, 0, n) /\ Amounts(0, 0, n, 0, 0)
  \/ Booked(0, 0, 0, 0, 0, 0, n, -n) /\ Amounts(0, 0, 0, 0, 0)

OrderingFlow(n) ==
  \/ Booked(0, n, 0, 0, -n, 0, 0, 0) /\ Amounts(0, 0, 0, 0, -n)
  \/ /\ OrdersUndone /\ unmade = n /\ unstaked_by_hand = n
     /\ Amounts(0, 0, 0, 0, -n)

SteadyFlow == (BalancedStep \/ Unbooked) /\ Amounts(0, 0, 0, 0, 0)

Flow(n) == SendingFlow(n) \/ ReturningFlow(n) \/ ArrivingFlow(n) \/ OrderingFlow(n) \/ SteadyFlow

LEMMA SentFlow ==
  ASSUME Placed, NEW i, NEW op, NEW n, NEW manual, Sent(i, op, n, manual)
  PROVE  n \in Nat /\ (SendingFlow(n) \/ SteadyFlow)
  <1>1. /\ n \in Nat /\ manual \in BOOLEAN
        /\ op \in {"stake", "restake", "unstake", "retrieve", "rewards"}
    BY SentAmounts DEF Sent, Operation
  <1>2. CASE op = "stake"
    <2>1. Booked(n, -n, 0, 0, 0, 0, -n, 0)
      BY <1>2 DEF Sent
    <2>2. Amounts(n, 0, 0, n, 0)
      BY <1>2, SentAmounts
    <2> QED
      BY <1>1, <2>1, <2>2 DEF SendingFlow
  <1>3. CASE op = "restake"
    <2>1. Booked(n, -n, 0, 0, 0, 0, 0, 0)
      BY <1>3 DEF Sent
    <2>2. Amounts(n, 0, 0, 0, 0)
      BY <1>3, SentAmounts
    <2> QED
      BY <1>1, <2>1, <2>2 DEF SendingFlow
  <1>4. CASE op = "unstake" /\ manual
    <2>1. Booked(-n, 0, 0, 0, 0, 0, 0, 0)
      BY <1>4 DEF Sent
    <2>2. Amounts(0, n, 0, 0, n)
      BY <1>4, SentAmounts
    <2> QED
      BY <1>1, <2>1, <2>2 DEF SendingFlow
  <1>5. CASE op = "unstake" /\ ~manual
    <2>1. Booked(-n, 0, -n, 0, 0, 0, 0, 0)
      BY <1>5 DEF Sent
    <2>2. Amounts(0, n, 0, 0, 0)
      BY <1>5, SentAmounts
    <2> QED
      BY <1>1, <2>1, <2>2 DEF SendingFlow
  <1>6. CASE op \in {"retrieve", "rewards"}
    <2>1. Unbooked
      BY <1>6 DEF Sent
    <2>2. Amounts(0, 0, 0, 0, 0)
      BY <1>6, SentAmounts
    <2> QED
      BY <1>1, <2>1, <2>2 DEF SteadyFlow
  <1> QED
    BY <1>1, <1>2, <1>3, <1>4, <1>5, <1>6

LEMMA CalledBackFlow ==
  ASSUME Placed, NEW p \in promises, CalledBack(p)
  PROVE  p.amount \in Nat /\ (ReturningFlow(p.amount) \/ SteadyFlow)
  <1> DEFINE n == p.amount
  <1>1. n \in Nat /\ p.op \in {"stake", "restake", "unstake", "retrieve", "rewards"}
    BY CallFacts DEF Operation
  <1>2. CASE p.status = "ok" /\ p.op = "stake"
    <2>1. Booked(0, 0, 0, 0, 0, -n, 0, 0)
      BY <1>2 DEF CalledBack
    <2>2. Amounts(-n, 0, 0, -n, 0)
      BY <1>2, CalledBackAmounts
    <2> QED
      BY <1>1, <2>1, <2>2 DEF ReturningFlow
  <1>3. CASE p.status = "ok" /\ p.op = "restake"
    <2>1. Booked(0, 0, 0, -n, n, 0, 0, 0)
      BY <1>3 DEF CalledBack
    <2>2. Amounts(-n, 0, 0, 0, 0)
      BY <1>3, CalledBackAmounts
    <2> QED
      BY <1>1, <2>1, <2>2 DEF ReturningFlow
  <1>4. CASE p.status = "failed" /\ p.op \in {"stake", "restake"}
    <2>1. Booked(-n, n, 0, 0, 0, 0, 0, 0)
      BY <1>4 DEF CalledBack
    <2>2. Amounts(-n, 0, 0, 0, 0)
      BY <1>4, CalledBackAmounts
    <2> QED
      BY <1>1, <2>1, <2>2 DEF ReturningFlow
  <1>5. CASE p.status = "ok" /\ p.op = "unstake"
    <2>1. Booked(0, 0, 0, n, 0, 0, 0, 0)
      BY <1>5 DEF CalledBack
    <2>2. Amounts(0, -n, 0, 0, 0)
      BY <1>5, CalledBackAmounts
    <2> QED
      BY <1>1, <2>1, <2>2 DEF ReturningFlow
  <1>6. CASE p.status = "failed" /\ p.op = "unstake"
    <2>1. Booked(n, 0, n, 0, 0, 0, 0, 0)
      BY <1>6 DEF CalledBack
    <2>2. Amounts(0, -n, 0, 0, 0)
      BY <1>6, CalledBackAmounts
    <2> QED
      BY <1>1, <2>1, <2>2 DEF ReturningFlow
  <1>7. CASE p.status = "ok" /\ p.op = "retrieve"
    <2>1. Booked(0, 0, 0, -minimum(total_unstaked_and_waiting, n), n, n, 0, 0)
      BY <1>7 DEF CalledBack
    <2>2. Amounts(0, 0, -n, 0, 0)
      BY <1>7, CalledBackAmounts
    <2> QED
      BY <1>1, <2>1, <2>2 DEF ReturningFlow
  <1>8. CASE p.status = "failed" /\ p.op \in {"retrieve", "rewards"}
    <2>1. Unbooked
      BY <1>8 DEF CalledBack
    <2>2. Amounts(0, 0, 0, 0, 0)
      BY <1>8, CalledBackAmounts
    <2> QED
      BY <1>1, <2>1, <2>2 DEF SteadyFlow
  <1>9. p.status = "failed" \/ (p.status = "ok" /\ p.op # "rewards")
    BY DEF CalledBack
  <1> QED
    BY <1>1, <1>2, <1>3, <1>4, <1>5, <1>6, <1>7, <1>8, <1>9

LEMMA AnsweredFlow ==
  ASSUME Placed, NEW p \in promises, Answered(p)
  PROVE  p.amount \in Nat /\ (ArrivingFlow(p.amount) \/ SteadyFlow)
  <1> DEFINE n == p.amount
             turned(status) ==
               promises' = (promises \ {p}) \cup {[p EXCEPT !.status = status, !.reply = 0]}
  <1>1. /\ n \in Nat /\ p.op \in {"stake", "restake", "unstake", "retrieve", "rewards"}
        /\ p.status = "sent" /\ UNCHANGED hand_vars
    BY CallFacts, AnsweredFacts DEF Operation
  <1>2. CASE /\ turned("failed")
             /\ Booked(0, 0, 0, 0, 0, 0, 0, IF p.op = "stake" THEN n ELSE 0)
    <2>1. PICK r : Turned(p, r) /\ r.status = "failed"
      BY <1>1, <1>2, AnyTurned
    <2>2. CASE p.op = "stake"
      <3>1. Amounts(0, 0, 0, -n, 0)
        BY <1>1, <2>1, <2>2, AnsweredAmounts
      <3>2. Booked(0, 0, 0, 0, 0, 0, 0, n)
        BY <1>2, <2>2
      <3> QED
        BY <1>1, <3>1, <3>2 DEF ArrivingFlow
    <2>3. CASE p.op # "stake"
      <3>1. Amounts(0, 0, 0, 0, 0)
        BY <1>1, <2>1, <2>3, AnsweredAmounts
      <3>2. Unbooked
        BY <1>2, <2>3 DEF Unbooked
      <3> QED
        BY <1>1, <3>1, <3>2 DEF SteadyFlow
    <2> QED
      BY <2>2, <2>3
  <1>3. CASE p.op = "retrieve" /\ turned("ok") /\ Booked(0, 0, 0, 0, 0, 0, 0, n)
    <2>1. PICK r : Turned(p, r) /\ r.status = "ok"
      BY <1>1, <1>3, AnyTurned
    <2>2. Amounts(0, 0, n, 0, 0)
      BY <1>1, <1>3, <2>1, AnsweredAmounts
    <2> QED
      BY <1>1, <1>3, <2>2 DEF ArrivingFlow
  <1>4. CASE p.op \in {"stake", "restake", "unstake"} /\ turned("ok") /\ Unbooked
    <2>1. PICK r : Turned(p, r) /\ r.status = "ok"
      BY <1>1, <1>4, AnyTurned
    <2>2. Amounts(0, 0, 0, 0, 0)
      BY <1>1, <1>4, <2>1, AnsweredAmounts
    <2> QED
      BY <1>1, <1>4, <2>2 DEF SteadyFlow
  <1> QED
    BY <1>2, <1>3, <1>4 DEF Answered

(* A move that is of no call. *)
OtherMove ==
  \/ Quiet \/ Queried \/ PoolAdded \/ OrdersUndone
  \/ \E i \in DOMAIN staking_pools : PoolRemoved(i) \/ HandCompleted(i)

OtherFlow(n) == ArrivingFlow(n) \/ OrderingFlow(n) \/ SteadyFlow

LEMMA EveryOtherFlow ==
  ASSUME Placed, OtherMove
  PROVE  \E n \in Nat : OtherFlow(n)
  <1>1. CASE Quiet
    <2>1. Amounts(0, 0, 0, 0, 0)
      BY <1>1, SameAmounts DEF Quiet
    <2>2. CASE BalancedStep \/ Unbooked
      BY <2>1, <2>2 DEF OtherFlow, SteadyFlow
    <2>3. CASE \E n \in Nat : n <= incoming /\ Booked(0, 0, 0, 0, 0, 0, n, -n)
      BY <2>1, <2>3 DEF OtherFlow, ArrivingFlow
    <2> QED
      BY <1>1, <2>2, <2>3 DEF Quiet
  <1>2. ASSUME Unbooked, UNCHANGED <<promises, hand_vars>>
        PROVE  SteadyFlow
    BY <1>2, SameAmounts DEF SteadyFlow
  <1>3. ASSUME NEW i \in DOMAIN staking_pools, HandCompleted(i)
        PROVE  \E n \in Nat : OrderingFlow(n)
    <2> DEFINE a == pool_accounts[i]
               n == by_hand[a]
    <2>1. /\ a \in Range(PoolAccounts) /\ n \in Nat
          /\ by_hand \in [Range(PoolAccounts) -> Nat] /\ unmade \in Nat
      BY Listed DEF Placed, CallsTyped
    <2>2. /\ Booked(0, n, 0, 0, -n, 0, 0, 0)
          /\ by_hand' = [by_hand EXCEPT ![a] = 0]
          /\ UNCHANGED <<promises, unmade>>
      BY <1>3 DEF HandCompleted
    <2>3. SumFunction(by_hand') = SumFunction(by_hand) + (0 - n)
      BY <2>1, <2>2, PoolSumChange
    <2>4. SumFunction(by_hand) \in Nat
      BY <2>1, PoolSumNat
    <2> HIDE DEF n, a
    <2>5. unstaked_by_hand' = unstaked_by_hand + (-n)
      BY <2>1, <2>2, <2>3, <2>4 DEF unstaked_by_hand
    <2>6. /\ UNCHANGED <<staking_in_flight, unstaking_in_flight, retrieved_in_flight,
                         deposited_in_flight>>
          /\ staking_in_flight \in Nat /\ unstaking_in_flight \in Nat
          /\ retrieved_in_flight \in Nat /\ deposited_in_flight \in Nat
      BY <2>2, AmountsNat DEF Placed, staking_in_flight, unstaking_in_flight,
         retrieved_in_flight, deposited_in_flight
    <2>7. Amounts(0, 0, 0, 0, -n)
      BY <2>5, <2>6 DEF Amounts
    <2> QED
      BY <2>1, <2>2, <2>7 DEF OrderingFlow
  <1>4. CASE OrdersUndone
    <2> DEFINE n == unmade
    <2>1. /\ UNCHANGED <<promises, by_hand>> /\ unmade' = 0
          /\ \A a \in DOMAIN by_hand : by_hand[a] = 0
          /\ by_hand \in [Range(PoolAccounts) -> Nat] /\ n \in Nat
      BY <1>4 DEF OrdersUndone, only_unmade_orders, Placed, CallsTyped
    <2>2. SumFunction(by_hand) = 0
      BY <2>1, PoolSumZero
    <2>3. unstaked_by_hand = n /\ unstaked_by_hand' = unstaked_by_hand + (-n)
      BY <2>1, <2>2 DEF unstaked_by_hand
    <2>4. /\ UNCHANGED <<staking_in_flight, unstaking_in_flight, retrieved_in_flight,
                         deposited_in_flight>>
          /\ staking_in_flight \in Nat /\ unstaking_in_flight \in Nat
          /\ retrieved_in_flight \in Nat /\ deposited_in_flight \in Nat
      BY <2>1, AmountsNat DEF Placed, staking_in_flight, unstaking_in_flight,
         retrieved_in_flight, deposited_in_flight
    <2>5. Amounts(0, 0, 0, 0, -n)
      BY <2>3, <2>4 DEF Amounts
    <2>6. OrderingFlow(n)
      BY <1>4, <2>3, <2>5 DEF OrderingFlow
    <2> QED
      BY <2>1, <2>6 DEF OtherFlow
  <1>5. 0 \in Nat
    OBVIOUS
  <1>6. CASE Queried \/ PoolAdded \/ \E i \in DOMAIN staking_pools : PoolRemoved(i)
    BY <1>2, <1>5, <1>6 DEF Queried, PoolAdded, PoolRemoved, OtherFlow
  <1> QED
    BY <1>1, <1>3, <1>4, <1>6 DEF OtherMove, OtherFlow

LEMMA EveryFlow ==
  ASSUME Placed, Move
  PROVE  \E n \in Nat : Flow(n)
  <1>1. CASE OtherMove
    BY <1>1, EveryOtherFlow DEF OtherFlow, Flow
  <1>2. CASE ~OtherMove
    BY <1>2, SentFlow, CalledBackFlow, AnsweredFlow DEF Move, OtherMove, Flow
  <1> QED
    BY <1>1, <1>2

-----------------------------------------------------------------------------
(***************************************************************************)
(* Orders are what backs stNEAR and is not staked, or the reverse, but for  *)
(* what was unstaked by hand; the cash and the balance are as the runs have *)
(* them. All three follow from what a move does to the books.               *)
(***************************************************************************)
OrdersMatchStake ==
  total_for_staking + epoch_unstake_orders
    = total_actually_staked + epoch_stake_orders + unstaked_by_hand

CashHeld ==
  contract_account_balance
    = total_available + reserve_for_unstake_claims + epoch_stake_orders + staking_in_flight

BalanceHeld ==
  account_balance + incoming + deposited_in_flight
    = MinBalanceForStorage + contract_account_balance + retrieved_in_flight

Books == OrdersMatchStake /\ CashHeld /\ BalanceHeld

LEMMA UndoneOrders ==
  ASSUME LedgerTyped, CallsTyped, OrdersMatchStake, OrdersUndone, unstaked_by_hand = unmade
  PROVE  /\ epoch_stake_orders' = epoch_stake_orders
         /\ epoch_unstake_orders' = epoch_unstake_orders - unmade
  <1>1. /\ total_for_staking + epoch_unstake_orders
             = total_actually_staked + epoch_stake_orders + unmade
        /\ unmade \in Nat
    BY DEF OrdersMatchStake, CallsTyped
  <1>2. \/ epoch_unstake_orders = unmade
        \/ epoch_unstake_orders > unmade /\ epoch_stake_orders = 0
    BY DEF OrdersUndone, only_unmade_orders
  <1>3. /\ epoch_stake_orders' = saturating_sub(total_for_staking, total_actually_staked)
        /\ epoch_unstake_orders' = saturating_sub(total_actually_staked, total_for_staking)
    BY DEF OrdersUndone
  <1> QED
    BY <1>1, <1>2, <1>3 DEF saturating_sub, LedgerTyped

LEMMA FlowKeepsBooks ==
  ASSUME Placed, LedgerTyped', Books, NEW n \in Nat, Flow(n)
  PROVE  Books'
  <1>1. /\ staking_in_flight \in Nat /\ unstaking_in_flight \in Nat
        /\ retrieved_in_flight \in Nat /\ deposited_in_flight \in Nat
        /\ unstaked_by_hand \in Nat
    BY AmountsNat DEF Placed
  <1>2. LedgerTyped /\ MinBalanceForStorage \in Nat
    BY Constants DEF Placed
  <1>3. CASE SendingFlow(n)
    BY <1>1, <1>2, <1>3
    DEF SendingFlow, Booked, Amounts, LedgerTyped, user_vars, Books, OrdersMatchStake,
        CashHeld, BalanceHeld
  <1>4. CASE ReturningFlow(n)
    BY <1>1, <1>2, <1>4
    DEF ReturningFlow, Booked, Amounts, LedgerTyped, user_vars, Books, OrdersMatchStake,
        CashHeld, BalanceHeld
  <1>5. CASE ArrivingFlow(n)
    BY <1>1, <1>2, <1>5
    DEF ArrivingFlow, Booked, Amounts, LedgerTyped, user_vars, Books, OrdersMatchStake,
        CashHeld, BalanceHeld
  <1>6. CASE Booked(0, n, 0, 0, -n, 0, 0, 0) /\ Amounts(0, 0, 0, 0, -n)
    BY <1>1, <1>2, <1>6
    DEF Booked, Amounts, LedgerTyped, user_vars, Books, OrdersMatchStake,
        CashHeld, BalanceHeld
  <1>7. CASE /\ OrdersUndone /\ unmade = n /\ unstaked_by_hand = n
             /\ Amounts(0, 0, 0, 0, -n)
    <2>1. /\ epoch_stake_orders' = epoch_stake_orders
          /\ epoch_unstake_orders' = epoch_unstake_orders - n
      BY <1>7, UndoneOrders DEF Placed, Books
    <2>2. UNCHANGED <<user_vars, stake_vars, claim_vars, contract_account_balance,
                      account_balance, incoming>>
      BY <1>7 DEF OrdersUndone
    <2> QED
      BY <1>1, <1>2, <1>7, <2>1, <2>2
      DEF Amounts, LedgerTyped, user_vars, stake_vars, claim_vars, Books, OrdersMatchStake,
          CashHeld, BalanceHeld
  <1>8. CASE BalancedStep /\ Amounts(0, 0, 0, 0, 0)
    BY <1>1, <1>2, <1>8
    DEF BalancedStep, Balanced, Amounts, LedgerTyped, Books, OrdersMatchStake,
        CashHeld, BalanceHeld
  <1>9. CASE Unbooked /\ Amounts(0, 0, 0, 0, 0)
    BY <1>1, <1>2, <1>9
    DEF Unbooked, Booked, Amounts, LedgerTyped, user_vars, Books, OrdersMatchStake,
        CashHeld, BalanceHeld
  <1> QED
    BY <1>3, <1>4, <1>5, <1>6, <1>7, <1>8, <1>9 DEF Flow, OrderingFlow, SteadyFlow

LEMMA InitBooks == OperatorInit => Books
  <1> SUFFICES ASSUME OperatorInit PROVE Books
    OBVIOUS
  <1>1. promises = {} /\ unmade = 0
    BY DEF OperatorInit, Init
  <1>2. /\ staking_in_flight = 0 /\ retrieved_in_flight = 0 /\ deposited_in_flight = 0
    <2>1. \A K : promises \cap K = {}
      BY <1>1
    <2> QED
      BY <2>1, NoCalls
      DEF staking_in_flight, retrieved_in_flight, deposited_in_flight
  <1>3. unstaked_by_hand = 0
    <2>1. by_hand = [a \in Range(PoolAccounts) |-> 0]
      BY DEF OperatorInit
    <2>2. SumFunction(by_hand) = 0
      BY <2>1, PoolSumZero
    <2> QED
      BY <1>1, <2>2 DEF unstaked_by_hand
  <1> QED
    BY <1>2, <1>3, Constants
    DEF OperatorInit, Init, Books, OrdersMatchStake, CashHeld, BalanceHeld

LEMMA BooksAlways == OperatorSpec => []Books
  <1>1. Placed /\ Books /\ [OperatorNext]_operator_vars => Books'
    BY EveryMove, EveryFlow, FlowKeepsBooks
  <1> QED
    BY <1>1, InitBooks, PlacedAlways, PTL DEF OperatorSpec

(* The NEAR the contract believes it holds is what is available, reserved or *)
(* ordered to be staked, each unit once, with any number of calls in flight, *)
(* staking by hand, NEAR unstaked by hand ordered back and orders rewritten  *)
(* (distribute.rs:205, 257 and 283).                                         *)
THEOREM CashStays == OperatorSpec => []CashStaysBacked
  <1>1. Placed /\ Books => CashStaysBacked
    <2> SUFFICES ASSUME Placed, Books PROVE CashStaysBacked
      OBVIOUS
    <2>1. all_in_flight({"stake", "restake"}) = staking_in_flight
      BY InFlightAmounts DEF Placed
    <2> QED
      BY <2>1 DEF Books, CashHeld, CashStaysBacked
  <1> QED
    BY <1>1, BooksAlways, PlacedAlways, PTL

(* "It should match env::balance()" (lib.rs:110), whatever is done by hand   *)
(* and however late a pool's answer about its unstaked balance is.           *)
THEOREM BalanceStaysMatched == OperatorSpec => []BalanceStillMatches
  <1>1. Placed /\ Books => BalanceStillMatches
    <2> SUFFICES ASSUME Placed, Books PROVE BalanceStillMatches
      OBVIOUS
    <2>1. /\ retrieved_not_recorded = retrieved_in_flight
          /\ staked_not_deducted = deposited_in_flight
      BY InFlightAmounts DEF Placed
    <2> QED
      BY <2>1 DEF Books, BalanceHeld, BalanceStillMatches
  <1> QED
    BY <1>1, BooksAlways, PlacedAlways, PTL


-----------------------------------------------------------------------------
(***************************************************************************)
(* The claims. What a pool holds unstaked is NEAR that was unstaked for     *)
(* them, and the contract must not come to reserve more than it unstaked:   *)
(* w is, of each pool, what has been unstaked there and not yet been        *)
(* reserved. It covers what the pool holds, before and after it answers.    *)
(***************************************************************************)
Withdrawing == {"retrieve", "restake"}

WaitsAt(w, a) ==
  /\ (\A p \in promises : account_of(p) = a /\ p.status = "ok"
                            => p.op \notin Withdrawing /\ p.op # "unstake")
       => held_at[a].unstaked <= w[a]
  /\ \A p \in promises : account_of(p) = a /\ p.status = "ok" =>
       /\ p.op \in Withdrawing => held_at[a].unstaked + p.amount <= w[a]
       /\ p.op = "unstake" => held_at[a].unstaked <= w[a] + p.amount

WaitsFor(w) == \A a \in Range(PoolAccounts) : WaitsAt(w, a)

owed_by_now == total_unstake_claims + unstaked_by_hand

Backed(reserved) ==
  reserve_for_unstake_claims + epoch_unstake_orders + unstaking_in_flight + reserved
    <= owed_by_now + rounded

ClaimsMet ==
  LET covered == reserve_for_unstake_claims + total_unstaked_and_waiting
                 + epoch_unstake_orders + unstaking_in_flight
  IN owed_by_now <= covered /\ covered <= owed_by_now + rounded

Claims ==
  /\ ClaimsMet
  /\ \E w \in [Range(PoolAccounts) -> Nat] : WaitsFor(w) /\ Backed(SumFunction(w))

LEMMA OtherFlowsClaims ==
  ASSUME Placed, LedgerTyped', Books, UNCHANGED rounded, ClaimsMet,
         NEW reserved \in Nat, Backed(reserved),
         NEW n \in Nat, SendingFlow(n) \/ OtherFlow(n)
  PROVE  ClaimsMet' /\ Backed(reserved)'
  <1>1. /\ unstaking_in_flight \in Nat /\ unstaked_by_hand \in Nat /\ rounded \in Nat
        /\ LedgerTyped
    BY AmountsNat DEF Placed, CallsTyped
  <1>2. CASE SendingFlow(n)
    BY <1>1, <1>2
    DEF SendingFlow, Booked, Amounts, LedgerTyped, ClaimsMet, Backed, owed_by_now
  <1>3. CASE ArrivingFlow(n)
    BY <1>1, <1>3
    DEF ArrivingFlow, Booked, Amounts, LedgerTyped, ClaimsMet, Backed, owed_by_now
  <1>4. CASE Booked(0, n, 0, 0, -n, 0, 0, 0) /\ Amounts(0, 0, 0, 0, -n)
    BY <1>1, <1>4 DEF Booked, Amounts, LedgerTyped, ClaimsMet, Backed, owed_by_now
  <1>5. CASE /\ OrdersUndone /\ unmade = n /\ unstaked_by_hand = n
             /\ Amounts(0, 0, 0, 0, -n)
    <2>1. epoch_unstake_orders' = epoch_unstake_orders - n
      BY <1>5, UndoneOrders DEF Placed, Books
    <2>2. UNCHANGED claim_vars
      BY <1>5 DEF OrdersUndone
    <2> QED
      BY <1>1, <1>5, <2>1, <2>2
      DEF Amounts, LedgerTyped, claim_vars, ClaimsMet, Backed, owed_by_now
  <1>6. CASE BalancedStep /\ Amounts(0, 0, 0, 0, 0)
    BY <1>1, <1>6
    DEF BalancedStep, Balanced, Amounts, LedgerTyped, ClaimsMet, Backed, owed_by_now
  <1>7. CASE Unbooked /\ Amounts(0, 0, 0, 0, 0)
    BY <1>1, <1>7 DEF Unbooked, Booked, Amounts, LedgerTyped, ClaimsMet, Backed, owed_by_now
  <1> QED
    BY <1>2, <1>3, <1>4, <1>5, <1>6, <1>7 DEF OtherFlow, OrderingFlow, SteadyFlow

(* At every pool but one nothing changes. *)
LEMMA WaitsElsewhere ==
  ASSUME NEW a \in Range(PoolAccounts), NEW w, NEW v, WaitsFor(w),
         \A b \in Range(PoolAccounts) : b # a => v[b] = w[b] /\ held_at'[b] = held_at[b],
         \A q \in promises : account_of(q) # a =>
           q \in promises' /\ account_of(q)' = account_of(q),
         \A q \in promises' : account_of(q)' # a =>
           q \in promises /\ account_of(q)' = account_of(q),
         WaitsAt(v, a)'
  PROVE  WaitsFor(v)'
  <1>1. ASSUME NEW b \in Range(PoolAccounts), b # a PROVE WaitsAt(v, b)'
    <2>1. v[b] = w[b] /\ held_at'[b] = held_at[b]
      BY <1>1
    <2>2. WaitsAt(w, b)
      BY DEF WaitsFor
    <2>3. \A q \in promises' : account_of(q)' = b => q \in promises /\ account_of(q) = b
      BY <1>1
    <2>4. \A q \in promises : account_of(q) = b => q \in promises' /\ account_of(q)' = b
      BY <1>1
    <2> QED
      BY <2>1, <2>2, <2>3, <2>4 DEF WaitsAt
  <1> QED
    BY <1>1 DEF WaitsFor

LEMMA SentWaits ==
  ASSUME Placed, NEW i, NEW op, NEW n, NEW manual, Sent(i, op, n, manual),
         NEW w, WaitsFor(w)
  PROVE  WaitsFor(w)'
  <1> SUFFICES ASSUME NEW a, a = pool_accounts[i] PROVE WaitsFor(w)'
    OBVIOUS
  <1> DEFINE c == Call(op, i, n)
  <1>1. /\ i \in DOMAIN staking_pools /\ promises' = promises \cup {c}
        /\ c.sp = i /\ c.status = "sent" /\ \A p \in promises : p.sp # i
    BY SentFacts
  <1>2. /\ sent_to \in [DOMAIN PoolAccounts -> [account : Range(PoolAccounts), manual : BOOLEAN]]
        /\ i \in DOMAIN PoolAccounts /\ a \in Range(PoolAccounts)
    BY <1>1, Listed DEF Placed, CallsTyped
  <1>3. sent_to' = [sent_to EXCEPT ![i] = [account |-> a, manual |-> manual]]
        /\ UNCHANGED held_at
    BY DEF Sent, call_recorded
  <1> HIDE DEF c
  <1>4. account_of(c)' = a
    BY <1>1, <1>2, <1>3 DEF account_of
  <1>5. ASSUME NEW q \in promises
        PROVE  account_of(q)' = account_of(q) /\ account_of(q) # a
    <2>1. q.sp # i /\ account_of(q) = pool_accounts[q.sp]
          /\ q.sp \in DOMAIN pool_accounts /\ i \in DOMAIN pool_accounts
      BY <1>1, CallFacts, Listed DEF Placed
    <2>2. account_of(q) # a
      BY <2>1 DEF Placed, PoolsListed
    <2>3. sent_to'[q.sp] = sent_to[q.sp]
      BY <1>2, <1>3, <2>1
    <2> QED
      BY <2>2, <2>3 DEF account_of
  <1>6. WaitsAt(w, a)'
    <2>1. WaitsAt(w, a)
      BY <1>2 DEF WaitsFor
    <2>2. held_at[a].unstaked <= w[a]
      BY <1>5, <2>1 DEF WaitsAt
    <2>3. \A p \in promises' : account_of(p)' = a => p.status # "ok"
      BY <1>1, <1>5
    <2>4. held_at'[a].unstaked <= w[a]
      BY <1>3, <2>2
    <2> QED
      BY <2>3, <2>4 DEF WaitsAt
  <1>7. \A q \in promises : account_of(q) # a =>
          q \in promises' /\ account_of(q)' = account_of(q)
    BY <1>1, <1>5
  <1>8. \A q \in promises' : account_of(q)' # a =>
          q \in promises /\ account_of(q)' = account_of(q)
    BY <1>1, <1>4, <1>5
  <1>9. \A b \in Range(PoolAccounts) : b # a => w[b] = w[b] /\ held_at'[b] = held_at[b]
    BY <1>3
  <1> QED
    BY <1>2, <1>6, <1>7, <1>8, <1>9, WaitsElsewhere

LEMMA OtherWaits ==
  ASSUME OtherMove, NEW w, WaitsFor(w)
  PROVE  WaitsFor(w)' /\ UNCHANGED rounded
  <1>1. UNCHANGED <<promises, held_at, sent_to, rounded>>
    BY DEF OtherMove, Quiet, Queried, PoolAdded, OrdersUndone, PoolRemoved, HandCompleted,
           beside_vars
  <1> QED
    BY <1>1 DEF WaitsFor, WaitsAt, account_of

LEMMA OnlyCallThere ==
  ASSUME Placed, NEW p \in promises, NEW q \in promises, account_of(q) = account_of(p)
  PROVE  q = p
  <1>1. /\ account_of(q) = pool_accounts[q.sp] /\ q.sp \in DOMAIN pool_accounts
        /\ account_of(p) = pool_accounts[p.sp] /\ p.sp \in DOMAIN pool_accounts
    BY CallFacts, Listed DEF Placed
  <1>2. q.sp = p.sp
    BY <1>1 DEF Placed, PoolsListed
  <1> QED
    BY <1>2 DEF Placed, OneCallPerPool

(* Before a call is called back: what its pool holds, from the call's state. *)
LEMMA HeldBefore ==
  ASSUME Placed, NEW p \in promises, NEW w, WaitsFor(w)
  PROVE  /\ p.status = "ok" /\ p.op \in Withdrawing =>
              held_at[account_of(p)].unstaked + p.amount <= w[account_of(p)]
         /\ p.status = "ok" /\ p.op = "unstake" =>
              held_at[account_of(p)].unstaked <= w[account_of(p)] + p.amount
         /\ p.status # "ok" \/ p.op \notin Withdrawing \cup {"unstake"} =>
              held_at[account_of(p)].unstaked <= w[account_of(p)]
  <1>1. account_of(p) \in Range(PoolAccounts)
    BY CallFacts
  <1>2. WaitsAt(w, account_of(p))
    BY <1>1 DEF WaitsFor
  <1>3. \A q \in promises : account_of(q) = account_of(p) => q = p
    BY OnlyCallThere
  <1> QED
    BY <1>2, <1>3 DEF WaitsAt

LEMMA FreedWaits ==
  ASSUME Placed, NEW p \in promises, NEW a \in Range(PoolAccounts), a = account_of(p),
         promises' = promises \ {p}, UNCHANGED <<sent_to, held_at>>,
         NEW w, NEW v, WaitsFor(w),
         \A b \in Range(PoolAccounts) : b # a => v[b] = w[b],
         held_at[a].unstaked <= v[a]
  PROVE  WaitsFor(v)'
  <1>1. \A q : account_of(q)' = account_of(q)
    BY DEF account_of
  <1>2. \A q \in promises' : account_of(q)' # a
    BY <1>1, OnlyCallThere
  <1>3. \A q \in promises : account_of(q) # a =>
          q \in promises' /\ account_of(q)' = account_of(q)
    BY <1>1
  <1>4. \A q \in promises' : account_of(q)' # a =>
          q \in promises /\ account_of(q)' = account_of(q)
    BY <1>1
  <1>5. \A b \in Range(PoolAccounts) : b # a => v[b] = w[b] /\ held_at'[b] = held_at[b]
    OBVIOUS
  <1>6. WaitsAt(v, a)'
    <2>1. held_at'[a].unstaked <= v[a]
      OBVIOUS
    <2> QED
      BY <1>2, <2>1 DEF WaitsAt
  <1> QED
    BY <1>3, <1>4, <1>5, <1>6, WaitsElsewhere

LEMMA TurnedWaits ==
  ASSUME Placed, NEW p \in promises, NEW a \in Range(PoolAccounts), a = account_of(p),
         NEW r, Turned(p, r), UNCHANGED sent_to, no_answer_from(a),
         held_at' \in [Range(PoolAccounts) -> [staked : Nat, unstaked : Nat]],
         \A b \in Range(PoolAccounts) : b # a => held_at'[b] = held_at[b],
         NEW w, NEW v, WaitsFor(w),
         \A b \in Range(PoolAccounts) : b # a => v[b] = w[b],
         /\ r.status = "ok" /\ r.op \in Withdrawing =>
              held_at'[a].unstaked + p.amount <= v[a]
         /\ r.status = "ok" /\ r.op = "unstake" =>
              held_at'[a].unstaked <= v[a] + p.amount
         /\ r.status # "ok" \/ r.op \notin Withdrawing \cup {"unstake"} =>
              held_at'[a].unstaked <= v[a]
  PROVE  WaitsFor(v)'
  <1>1. \A q : account_of(q)' = account_of(q)
    BY DEF account_of
  <1>2. /\ promises' = (promises \ {p}) \cup {r} /\ account_of(r) = a
        /\ r.amount = p.amount
    BY DEF Turned, account_of
  <1>3. \A q \in promises' : account_of(q)' = a => q = r
    BY <1>1, <1>2, OnlyCallThere
  <1>4. \A q \in promises : account_of(q) # a =>
          q \in promises' /\ account_of(q)' = account_of(q)
    BY <1>1, <1>2
  <1>5. \A q \in promises' : account_of(q)' # a =>
          q \in promises /\ account_of(q)' = account_of(q)
    BY <1>1, <1>2
  <1>6. r \in promises' /\ account_of(r)' = a
    BY <1>1, <1>2
  <1>7. WaitsAt(v, a)'
    <2>1. CASE r.status = "ok" /\ r.op \in Withdrawing
      <3>1. r.op # "unstake"
        BY <2>1 DEF Withdrawing
      <3> QED
        BY <1>2, <1>3, <1>6, <2>1, <3>1 DEF WaitsAt
    <2>2. CASE r.status = "ok" /\ r.op = "unstake"
      <3>1. r.op \notin Withdrawing
        BY <2>2 DEF Withdrawing
      <3> QED
        BY <1>2, <1>3, <1>6, <2>2, <3>1 DEF WaitsAt
    <2>3. CASE r.status # "ok" \/ r.op \notin Withdrawing \cup {"unstake"}
      BY <1>2, <1>3, <1>6, <2>3 DEF WaitsAt
    <2> QED
      BY <2>1, <2>2, <2>3
  <1> QED
    BY <1>4, <1>5, <1>7, WaitsElsewhere

(* What a callback moves from a pool's share w of what waits to the reserve. *)
LEMMA CalledBackClaims ==
  ASSUME Placed, LedgerTyped', NEW p \in promises, CalledBack(p), Claims
  PROVE  Claims'
  <1> SUFFICES ASSUME NEW a, a = account_of(p), NEW n, n = p.amount PROVE Claims'
    OBVIOUS
  <1>1. /\ a \in Range(PoolAccounts) /\ n \in Nat /\ promises' = promises \ {p}
        /\ UNCHANGED <<sent_to, held_at, rounded>>
        /\ held_at[a].unstaked \in Nat
    <2>1. \E staked, unstaked : Freed(p, staked, unstaked)
      BY DEF CalledBack
    <2> QED
      BY <2>1, CallFacts, FreedFacts DEF Placed, CallsTyped
  <1>2. PICK w \in [Range(PoolAccounts) -> Nat] : WaitsFor(w) /\ Backed(SumFunction(w))
    BY DEF Claims
  <1>3. /\ p.status = "ok" /\ p.op \in Withdrawing => held_at[a].unstaked + n <= w[a]
        /\ p.status = "ok" /\ p.op = "unstake" => held_at[a].unstaked <= w[a] + n
        /\ p.status # "ok" \/ p.op \notin Withdrawing \cup {"unstake"}
             => held_at[a].unstaked <= w[a]
    BY <1>2, HeldBefore
  <1>4. /\ SumFunction(w) \in Nat /\ w[a] \in Nat /\ w[a] <= SumFunction(w)
        /\ unstaking_in_flight \in Nat /\ unstaked_by_hand \in Nat /\ rounded \in Nat
        /\ LedgerTyped /\ ClaimsMet
    BY <1>1, PoolSumNat, AmountsNat DEF Placed, CallsTyped, Claims
  <1>5. ASSUME NEW u \in Nat, held_at[a].unstaked <= u
        PROVE  /\ [w EXCEPT ![a] = u] \in [Range(PoolAccounts) -> Nat]
               /\ WaitsFor([w EXCEPT ![a] = u])'
               /\ SumFunction([w EXCEPT ![a] = u]) = SumFunction(w) + (u - w[a])
    <2> DEFINE v == [w EXCEPT ![a] = u]
    <2>1. /\ v \in [Range(PoolAccounts) -> Nat]
          /\ SumFunction(v) = SumFunction(w) + (u - w[a])
      BY <1>1, PoolSumChange
    <2>2. v[a] = u /\ \A b \in Range(PoolAccounts) : b # a => v[b] = w[b]
      BY <1>1
    <2> HIDE DEF v
    <2>3. WaitsFor(v)'
      BY <1>1, <1>2, <1>5, <2>2, FreedWaits
    <2> QED
      BY <2>1, <2>3 DEF v
  <1>6. ASSUME NEW u \in Nat, held_at[a].unstaked <= u, ClaimsMet',
               Backed(SumFunction(w) + (u - w[a]))'
        PROVE  Claims'
    <2> DEFINE v == [w EXCEPT ![a] = u]
    <2>1. /\ v \in [Range(PoolAccounts) -> Nat] /\ WaitsFor(v)'
          /\ SumFunction(v) = SumFunction(w) + (u - w[a])
      BY <1>5, <1>6
    <2> HIDE DEF v
    <2>2. Backed(SumFunction(v))'
      BY <1>6, <2>1
    <2> QED
      BY <1>6, <2>1, <2>2 DEF Claims
  <1> DEFINE s == SumFunction(w)
  <1>7. s \in Nat /\ w[a] <= s /\ Backed(s)
    BY <1>2, <1>4
  <1>8. ASSUME NEW u \in Nat, held_at[a].unstaked <= u, ClaimsMet', Backed(s + (u - w[a]))'
        PROVE  Claims'
    BY <1>6, <1>8
  <1> HIDE DEF s
  <1>9. CASE p.status = "ok" /\ p.op = "restake"
    <2>1. /\ Booked(0, 0, 0, -n, n, 0, 0, 0) /\ Amounts(-n, 0, 0, 0, 0)
          /\ n <= w[a] /\ w[a] - n \in Nat /\ held_at[a].unstaked <= w[a] - n
      BY <1>1, <1>3, <1>4, <1>9, CalledBackAmounts DEF CalledBack, Withdrawing
    <2>2. ClaimsMet' /\ Backed(s + ((w[a] - n) - w[a]))'
      BY <1>1, <1>4, <1>7, <2>1
      DEF Booked, Amounts, LedgerTyped, ClaimsMet, Backed, owed_by_now
    <2> QED
      BY <1>8, <2>1, <2>2
  <1>10. CASE p.status = "ok" /\ p.op = "retrieve"
    <2>1. /\ Booked(0, 0, 0, -minimum(total_unstaked_and_waiting, n), n, n, 0, 0)
          /\ Amounts(0, 0, -n, 0, 0)
          /\ n <= w[a] /\ w[a] - n \in Nat /\ held_at[a].unstaked <= w[a] - n
      BY <1>1, <1>3, <1>4, <1>10, CalledBackAmounts DEF CalledBack, Withdrawing
    <2>2. ClaimsMet' /\ Backed(s + ((w[a] - n) - w[a]))'
      BY <1>1, <1>4, <1>7, <2>1
      DEF Booked, Amounts, LedgerTyped, ClaimsMet, Backed, owed_by_now, minimum
    <2> QED
      BY <1>8, <2>1, <2>2
  <1>11. CASE p.status = "ok" /\ p.op = "unstake"
    <2>1. /\ Booked(0, 0, 0, n, 0, 0, 0, 0) /\ Amounts(0, -n, 0, 0, 0)
          /\ w[a] + n \in Nat /\ held_at[a].unstaked <= w[a] + n
      BY <1>1, <1>3, <1>4, <1>11, CalledBackAmounts DEF CalledBack
    <2>2. ClaimsMet' /\ Backed(s + ((w[a] + n) - w[a]))'
      BY <1>1, <1>4, <1>7, <2>1
      DEF Booked, Amounts, LedgerTyped, ClaimsMet, Backed, owed_by_now
    <2> QED
      BY <1>8, <2>1, <2>2
  <1>12. CASE p.status # "ok" \/ p.op \notin Withdrawing \cup {"unstake"}
    <2>1. held_at[a].unstaked <= w[a]
      BY <1>3, <1>12
    <2>2. \/ Booked(0, 0, 0, 0, 0, -n, 0, 0) /\ Amounts(-n, 0, 0, -n, 0)
          \/ Booked(-n, n, 0, 0, 0, 0, 0, 0) /\ Amounts(-n, 0, 0, 0, 0)
          \/ Booked(n, 0, n, 0, 0, 0, 0, 0) /\ Amounts(0, -n, 0, 0, 0)
          \/ Booked(0, 0, 0, 0, 0, 0, 0, 0) /\ Amounts(0, 0, 0, 0, 0)
      BY <1>12, CalledBackAmounts DEF CalledBack, Withdrawing, Unbooked
    <2>3. ClaimsMet' /\ Backed(s + (w[a] - w[a]))'
      BY <1>1, <1>4, <1>7, <2>2
      DEF Booked, Amounts, LedgerTyped, ClaimsMet, Backed, owed_by_now
    <2> QED
      BY <1>4, <1>8, <2>1, <2>3
  <1> QED
    BY <1>9, <1>10, <1>11, <1>12 DEF Withdrawing

(* An answer moves nothing between the books, but for the unit of a rounding. *)
LEMMA AnsweredBooks ==
  ASSUME Placed, NEW p \in promises, Answered(p)
  PROVE  /\ UNCHANGED <<reserve_for_unstake_claims, total_unstaked_and_waiting,
                        epoch_unstake_orders, total_unstake_claims>>
         /\ UNCHANGED <<unstaking_in_flight, unstaked_by_hand>>
  <1>1. \E native : Booked(0, 0, 0, 0, 0, 0, 0, native)
    BY DEF Answered, Unbooked
  <1>2. /\ UNCHANGED total_unstake_claims
        /\ reserve_for_unstake_claims' = reserve_for_unstake_claims + 0
        /\ total_unstaked_and_waiting' = total_unstaked_and_waiting + 0
        /\ epoch_unstake_orders' = epoch_unstake_orders + 0
    BY <1>1 DEF Booked
  <1>3. LedgerTyped /\ p.status = "sent" /\ UNCHANGED hand_vars
    BY AnsweredFacts DEF Placed
  <1>4. PICK r : Turned(p, r)
    BY AnsweredFacts
  <1>5. \/ Amounts(0, 0, 0, -p.amount, 0) \/ Amounts(0, 0, p.amount, 0, 0)
        \/ Amounts(0, 0, 0, 0, 0)
    BY <1>3, <1>4, AnsweredAmounts
  <1>6. unstaking_in_flight' = unstaking_in_flight + 0 /\ unstaked_by_hand' = unstaked_by_hand + 0
    BY <1>5 DEF Amounts
  <1>7. unstaking_in_flight \in Nat /\ unstaked_by_hand \in Nat
    BY AmountsNat DEF Placed
  <1> QED
    BY <1>2, <1>3, <1>6, <1>7 DEF LedgerTyped

LEMMA AnsweredClaims ==
  ASSUME Placed, NEW p \in promises, Answered(p), Claims
  PROVE  Claims'
  <1> SUFFICES ASSUME NEW a, a = account_of(p), NEW n, n = p.amount PROVE Claims'
    OBVIOUS
  <1>1. /\ a \in Range(PoolAccounts) /\ n \in Nat /\ p.status = "sent"
        /\ UNCHANGED sent_to /\ no_answer_from(a) /\ rounded \in Nat
        /\ held_at[a].unstaked \in Nat
        /\ held_at \in [Range(PoolAccounts) -> [staked : Nat, unstaked : Nat]]
        /\ held_at' \in [Range(PoolAccounts) -> [staked : Nat, unstaked : Nat]]
        /\ \A b \in Range(PoolAccounts) : b # a => held_at'[b] = held_at[b]
    BY AnsweredFacts, CallFacts DEF Placed, CallsTyped
  <1>2. PICK w \in [Range(PoolAccounts) -> Nat] : WaitsFor(w) /\ Backed(SumFunction(w))
    BY DEF Claims
  <1>3. held_at[a].unstaked <= w[a]
    BY <1>1, <1>2, HeldBefore
  <1>4. /\ SumFunction(w) \in Nat /\ w[a] \in Nat
        /\ unstaking_in_flight \in Nat /\ unstaked_by_hand \in Nat
        /\ LedgerTyped /\ ClaimsMet
    BY <1>1, PoolSumNat, AmountsNat DEF Placed, CallsTyped, Claims
  <1>5. /\ UNCHANGED <<reserve_for_unstake_claims, total_unstaked_and_waiting,
                       epoch_unstake_orders, total_unstake_claims>>
        /\ UNCHANGED <<unstaking_in_flight, unstaked_by_hand>>
    BY AnsweredBooks
  <1>6. ASSUME NEW r, Turned(p, r), NEW u \in {0, 1}, rounded' = rounded + u,
               /\ r.status = "ok" /\ r.op \in Withdrawing =>
                    held_at'[a].unstaked + n <= w[a] + u
               /\ r.status = "ok" /\ r.op = "unstake" =>
                    held_at'[a].unstaked <= (w[a] + u) + n
               /\ r.status # "ok" \/ r.op \notin Withdrawing \cup {"unstake"} =>
                    held_at'[a].unstaked <= w[a] + u
        PROVE  Claims'
    <2> DEFINE v == [w EXCEPT ![a] = w[a] + u]
               s == SumFunction(w)
    <2>1. /\ v \in [Range(PoolAccounts) -> Nat]
          /\ SumFunction(v) = s + ((w[a] + u) - w[a])
      <3>1. w[a] + u \in Nat
        BY <1>4
      <3> QED
        BY <1>1, <3>1, PoolSumChange
    <2>2. v[a] = w[a] + u /\ \A b \in Range(PoolAccounts) : b # a => v[b] = w[b]
      BY <1>1
    <2> HIDE DEF v
    <2>3. WaitsFor(v)'
      BY <1>1, <1>2, <1>6, <2>2, TurnedWaits
    <2>4. s \in Nat /\ Backed(s)
      BY <1>2, <1>4
    <2> HIDE DEF s
    <2>5. Backed(s + ((w[a] + u) - w[a]))'
      BY <1>1, <1>4, <1>5, <1>6, <2>4 DEF Backed, owed_by_now, LedgerTyped
    <2>6. ClaimsMet'
      BY <1>1, <1>4, <1>5, <1>6 DEF ClaimsMet, owed_by_now, LedgerTyped
    <2>7. Backed(SumFunction(v))'
      BY <2>1, <2>5
    <2> QED
      BY <2>1, <2>3, <2>6, <2>7 DEF Claims
  <1> DEFINE turned(status) ==
        promises' = (promises \ {p}) \cup {[p EXCEPT !.status = status, !.reply = 0]}
  <1>7. \A status \in {"ok", "failed"} :
          turned(status) /\ (p.op = "rewards" => status = "failed")
            => \E r : Turned(p, r) /\ r.status = status /\ r.op = p.op
    BY <1>1, AnyTurned DEF Turned
  <1>8. CASE turned("failed") /\ UNCHANGED <<held_at, rounded>>
    <2>1. PICK r : Turned(p, r) /\ r.status = "failed"
      BY <1>7, <1>8
    <2>2. rounded' = rounded + 0 /\ held_at'[a].unstaked <= w[a] + 0
      BY <1>1, <1>3, <1>4, <1>8
    <2> QED
      BY <1>6, <2>1, <2>2
  <1>9. CASE p.op = "stake" /\ turned("ok") /\ Converted(a, n, 0) /\ UNCHANGED rounded
    <2>1. PICK r : Turned(p, r) /\ r.status = "ok" /\ r.op = "stake"
      BY <1>7, <1>9
    <2>2. rounded' = rounded + 0 /\ held_at'[a].unstaked <= w[a] + 0
      BY <1>1, <1>3, <1>4, <1>9 DEF Converted
    <2>3. r.op \notin Withdrawing \cup {"unstake"}
      BY <2>1 DEF Withdrawing
    <2> QED
      BY <1>6, <2>1, <2>2, <2>3
  <1>10. CASE /\ p.op \in Withdrawing /\ turned("ok") /\ UNCHANGED rounded
              /\ \E staked : Converted(a, staked, -n)
    <2>1. PICK r : Turned(p, r) /\ r.status = "ok" /\ r.op \in Withdrawing
      BY <1>7, <1>10 DEF Withdrawing
    <2>2. held_at'[a].unstaked = held_at[a].unstaked - n
      BY <1>1, <1>10 DEF Converted
    <2>3. rounded' = rounded + 0 /\ held_at'[a].unstaked + n <= w[a] + 0
      BY <1>1, <1>3, <1>4, <1>10, <2>2
    <2>4. r.op # "unstake"
      BY <2>1 DEF Withdrawing
    <2> QED
      BY <1>6, <2>1, <2>3, <2>4
  <1>11. CASE /\ p.op = "unstake" /\ turned("ok")
              /\ \E z \in {-1, 0, 1} :
                   /\ Converted(a, -(n + z), n + z)
                   /\ rounded' = rounded + (IF z = 0 THEN 0 ELSE 1)
    <2>1. PICK r : Turned(p, r) /\ r.status = "ok" /\ r.op = "unstake"
      BY <1>7, <1>11
    <2>2. PICK z \in {-1, 0, 1} :
            /\ Converted(a, -(n + z), n + z)
            /\ rounded' = rounded + (IF z = 0 THEN 0 ELSE 1)
      BY <1>11
    <2>3. held_at'[a].unstaked = held_at[a].unstaked + (n + z)
      BY <1>1, <2>2 DEF Converted
    <2> DEFINE u == IF z = 0 THEN 0 ELSE 1
    <2>4. u \in {0, 1} /\ z <= u /\ rounded' = rounded + u
      BY <2>2
    <2> HIDE DEF u
    <2>5. held_at'[a].unstaked <= (w[a] + u) + n
      BY <1>1, <1>3, <1>4, <2>3, <2>4
    <2>6. r.op \notin Withdrawing
      BY <2>1 DEF Withdrawing
    <2> QED
      BY <1>6, <2>1, <2>4, <2>5, <2>6
  <1> QED
    BY <1>8, <1>9, <1>10, <1>11 DEF Answered, Withdrawing

LEMMA MoveKeepsClaims ==
  ASSUME Placed, LedgerTyped', Books, Move, Claims
  PROVE  Claims'
  <1>1. PICK w \in [Range(PoolAccounts) -> Nat] : WaitsFor(w) /\ Backed(SumFunction(w))
    BY DEF Claims
  <1>2. SumFunction(w) \in Nat /\ ClaimsMet
    BY PoolSumNat DEF Claims
  <1>3. ASSUME NEW n \in Nat, SendingFlow(n) \/ OtherFlow(n), WaitsFor(w)', UNCHANGED rounded
        PROVE  Claims'
    <2>1. ClaimsMet' /\ Backed(SumFunction(w))'
      BY <1>1, <1>2, <1>3, OtherFlowsClaims
    <2> QED
      BY <1>3, <2>1 DEF Claims
  <1>4. ASSUME NEW i, NEW op, NEW n, NEW manual, Sent(i, op, n, manual)
        PROVE  Claims'
    <2>1. WaitsFor(w)' /\ UNCHANGED rounded
      BY <1>1, <1>4, SentWaits DEF Sent
    <2>2. n \in Nat /\ (SendingFlow(n) \/ OtherFlow(n))
      BY <1>4, SentFlow DEF OtherFlow
    <2> QED
      BY <1>3, <2>1, <2>2
  <1>5. CASE OtherMove
    <2>1. WaitsFor(w)' /\ UNCHANGED rounded
      BY <1>1, <1>5, OtherWaits
    <2>2. PICK n \in Nat : OtherFlow(n)
      BY <1>5, EveryOtherFlow
    <2> QED
      BY <1>3, <2>1, <2>2
  <1>6. CASE \E p \in promises : CalledBack(p) \/ Answered(p)
    BY <1>6, CalledBackClaims, AnsweredClaims
  <1> QED
    BY <1>4, <1>5, <1>6 DEF Move, OtherMove

LEMMA InitClaims == OperatorInit => Claims
  <1> SUFFICES ASSUME OperatorInit PROVE Claims
    OBVIOUS
  <1> DEFINE w == [a \in Range(PoolAccounts) |-> 0]
  <1>1. promises = {} /\ rounded = 0
        /\ held_at = [a \in Range(PoolAccounts) |-> [staked |-> 0, unstaked |-> 0]]
    BY DEF OperatorInit, Init
  <1>2. w \in [Range(PoolAccounts) -> Nat] /\ SumFunction(w) = 0
    BY PoolSumZero
  <1>3. WaitsFor(w)
    BY <1>1 DEF WaitsFor, WaitsAt
  <1>4. unstaking_in_flight = 0
    <2>1. promises \cap Unstaking = {}
      BY <1>1
    <2> QED
      BY <2>1, NoCalls DEF unstaking_in_flight
  <1>5. unstaked_by_hand = 0
    <2>1. by_hand = [a \in Range(PoolAccounts) |-> 0] /\ unmade = 0
      BY DEF OperatorInit
    <2>2. SumFunction(by_hand) = 0
      BY <2>1, PoolSumZero
    <2> QED
      BY <2>1, <2>2 DEF unstaked_by_hand
  <1>6. /\ reserve_for_unstake_claims = 0 /\ total_unstaked_and_waiting = 0
        /\ epoch_unstake_orders = 0 /\ total_unstake_claims = 0
    BY DEF OperatorInit, Init
  <1> HIDE DEF w
  <1>7. ClaimsMet
    BY <1>1, <1>4, <1>5, <1>6 DEF ClaimsMet, owed_by_now
  <1>8. Backed(SumFunction(w))
    BY <1>1, <1>2, <1>4, <1>5, <1>6 DEF Backed, owed_by_now
  <1> QED
    BY <1>2, <1>3, <1>7, <1>8 DEF Claims

LEMMA ClaimsAlways == OperatorSpec => []Claims
  <1>1. Placed /\ Books /\ Claims /\ [OperatorNext]_operator_vars => Claims'
    BY EveryMove, MoveKeepsClaims
  <1> QED
    BY <1>1, InitClaims, BooksAlways, PlacedAlways, PTL DEF OperatorSpec

(* Claims and what was unstaked by hand are covered, and no more than the    *)
(* units of rounding is reserved beyond them: on_retrieve_from_staking_pool  *)
(* adds the whole retrieval to the reserve and takes from what waits only    *)
(* what is there (distribute.rs:810), and what is there was unstaked for it. *)
THEOREM ClaimsStayMet == OperatorSpec => []ClaimsStayBacked
  <1>1. Placed /\ Claims => ClaimsStayBacked
    <2> SUFFICES ASSUME Placed, Claims PROVE ClaimsStayBacked
      OBVIOUS
    <2>1. all_in_flight({"unstake"}) = unstaking_in_flight
      BY InFlightAmounts DEF Placed
    <2> QED
      BY <2>1 DEF Claims, ClaimsMet, owed_by_now, ClaimsStayBacked
  <1> QED
    BY <1>1, ClaimsAlways, PlacedAlways, PTL


-----------------------------------------------------------------------------
(***************************************************************************)
(* The records. What a pool holds together, staked and unstaked, is what is *)
(* recorded of it, but for a deposit it has taken or a retrieval it has     *)
(* paid and of which the contract was not called back. A pool that is not   *)
(* in the list holds nothing, and an answer about what is unstaked is true  *)
(* until it is taken.                                                       *)
(***************************************************************************)
total_held(a) == held_at[a].staked + held_at[a].unstaked
total_recorded(i) == staking_pools[i].staked + staking_pools[i].unstaked

RecordAt(i, a) ==
  /\ (\A p \in promises : p.sp = i /\ p.status = "ok" => p.op \notin {"stake", "retrieve"})
       => total_held(a) = total_recorded(i)
  /\ \A p \in promises : p.sp = i /\ p.status = "ok" =>
       /\ p.op = "stake" => total_held(a) = total_recorded(i) + p.amount
       /\ p.op = "retrieve" => total_held(a) + p.amount = total_recorded(i)

ListRecorded == \A i \in DOMAIN staking_pools : RecordAt(i, pool_accounts[i])

UnlistedEmpty == \A a \in Range(PoolAccounts) \ Range(pool_accounts) : total_held(a) = 0

RepliesTrue ==
  \A q \in queries : q.status = "ok" => q.reply = held_at[q.account].unstaked

Records == ListRecorded /\ UnlistedEmpty /\ RepliesTrue

LEMMA RecordStays ==
  ASSUME NEW i, NEW j, NEW a, RecordAt(i, a),
         total_recorded(j)' = total_recorded(i), held_at'[a] = held_at[a],
         \A p \in promises' : p.sp = j => p \in promises /\ p.sp = i,
         \A p \in promises : p.sp = i => p \in promises' /\ p.sp = j
  PROVE  RecordAt(j, a)'
  <1>1. total_held(a)' = total_held(a)
    BY DEF total_held
  <1> QED
    BY <1>1 DEF RecordAt

(* Of a pool no call has been answered by. *)
LEMMA FreeRecord ==
  ASSUME Placed, ListRecorded, NEW i \in DOMAIN staking_pools,
         \A p \in promises : p.sp = i => p.status # "ok"
  PROVE  total_held(pool_accounts[i]) = total_recorded(i)
  BY DEF ListRecorded, RecordAt

LEMMA TotalsNat ==
  ASSUME Placed
  PROVE  /\ \A i \in DOMAIN staking_pools :
              /\ staking_pools[i].staked \in Nat /\ staking_pools[i].unstaked \in Nat
              /\ total_recorded(i) \in Nat
         /\ \A a \in Range(PoolAccounts) :
              /\ held_at[a].staked \in Nat /\ held_at[a].unstaked \in Nat
              /\ total_held(a) \in Nat
  <1>1. \A i \in DOMAIN staking_pools :
          staking_pools[i].staked \in Nat /\ staking_pools[i].unstaked \in Nat
    BY Listed DEF Placed
  <1>2. \A a \in Range(PoolAccounts) :
          held_at[a].staked \in Nat /\ held_at[a].unstaked \in Nat
    BY DEF Placed, CallsTyped
  <1> QED
    BY <1>1, <1>2 DEF total_recorded, total_held

(* Nothing is held differently, and the list and the answers are the same. *)
LEMMA ListKept ==
  ASSUME Placed, UNCHANGED <<pool_accounts, held_at>>, queries' \subseteq queries,
         DOMAIN staking_pools' = DOMAIN staking_pools, UnlistedEmpty, RepliesTrue,
         \A i \in DOMAIN staking_pools : \A a \in Range(PoolAccounts) :
           a = pool_accounts[i] => RecordAt(i, a)'
  PROVE  Records'
  <1>1. ListRecorded'
    <2>1. \A i \in DOMAIN staking_pools : pool_accounts[i] \in Range(PoolAccounts)
      BY Listed DEF Placed
    <2>2. ASSUME NEW i \in DOMAIN staking_pools'
          PROVE  RecordAt(i, pool_accounts[i])'
      <3>1. PICK a \in Range(PoolAccounts) : a = pool_accounts[i]
        BY <2>1
      <3>2. RecordAt(i, a)' /\ pool_accounts'[i] = a
        BY <3>1
      <3> QED
        BY <3>2 DEF RecordAt, total_held
    <2> QED
      BY <2>2 DEF ListRecorded
  <1>2. UnlistedEmpty' /\ RepliesTrue'
    BY DEF UnlistedEmpty, RepliesTrue, total_held
  <1> QED
    BY <1>1, <1>2 DEF Records

LEMMA SentRecords ==
  ASSUME Placed, Records, NEW i, NEW op, NEW n, NEW manual, Sent(i, op, n, manual)
  PROVE  Records'
  <1> DEFINE c == Call(op, i, n)
  <1>1. /\ promises' = promises \cup {c} /\ c.sp = i /\ c.status = "sent"
        /\ i \in DOMAIN staking_pools /\ \A p \in promises : p.sp # i
        /\ DOMAIN staking_pools' = DOMAIN staking_pools
        /\ staking_pools'[i].staked = staking_pools[i].staked
        /\ staking_pools'[i].unstaked = staking_pools[i].unstaked
        /\ \A j \in DOMAIN staking_pools : j # i => staking_pools'[j] = staking_pools[j]
    BY SentFacts
  <1>2. UNCHANGED <<pool_accounts, held_at, queries>>
    BY DEF Sent
  <1> HIDE DEF c
  <1>3. ASSUME NEW j \in DOMAIN staking_pools, NEW a \in Range(PoolAccounts),
               a = pool_accounts[j]
        PROVE  RecordAt(j, a)'
    <2>1. RecordAt(j, a)
      BY <1>3 DEF Records, ListRecorded
    <2>2. total_recorded(j)' = total_recorded(j) /\ total_held(a)' = total_held(a)
      BY <1>1, <1>2 DEF total_recorded, total_held
    <2>3. CASE j # i
      <3>1. \A p \in promises' : p.sp = j => p \in promises
        BY <1>1, <2>3
      <3>2. \A p \in promises : p \in promises'
        BY <1>1
      <3> QED
        BY <2>1, <2>2, <3>1, <3>2 DEF RecordAt
    <2>4. CASE j = i
      <3>1. total_held(a) = total_recorded(j)
        BY <1>1, <2>1, <2>4 DEF RecordAt
      <3>2. \A p \in promises' : p.sp = j => p.status # "ok"
        BY <1>1, <2>4
      <3> QED
        BY <2>2, <3>1, <3>2 DEF RecordAt
    <2> QED
      BY <2>3, <2>4
  <1> QED
    BY <1>1, <1>2, <1>3, ListKept DEF Records

(* The callback records what the pool did. *)
LEMMA CalledBackRecords ==
  ASSUME Placed, Records, NEW p \in promises, CalledBack(p)
  PROVE  Records'
  <1> SUFFICES ASSUME NEW i, i = p.sp, NEW n, n = p.amount PROVE Records'
    OBVIOUS
  <1>1. PICK staked, unstaked :
          /\ Freed(p, staked, unstaked)
          /\ staked + unstaked = IF p.status = "ok" /\ p.op = "stake"
                                 THEN total_recorded(i) + n
                                 ELSE IF p.status = "ok" /\ p.op = "retrieve"
                                 THEN total_recorded(i) - n
                                 ELSE total_recorded(i)
    <2> DEFINE x == staking_pools[i].staked
               y == staking_pools[i].unstaked
    <2>1. /\ x \in Nat /\ y \in Nat /\ n \in Nat /\ total_recorded(i) = x + y
          /\ p.op = "retrieve" => n = y
          /\ p.status = "ok" \/ p.status = "failed"
      BY CallFacts DEF total_recorded, CallCovered, CalledBack
    <2>2. CASE p.status = "ok" /\ p.op = "stake"
      <3>1. Freed(p, x + n, y)
        BY <2>2 DEF CalledBack
      <3>2. (x + n) + y = (x + y) + n
        BY <2>1
      <3> QED
        BY <2>1, <2>2, <3>1, <3>2
    <2>3. CASE p.status = "ok" /\ p.op = "retrieve"
      <3>1. Freed(p, x, 0)
        BY <2>3 DEF CalledBack
      <3>2. x + 0 = (x + y) - n
        BY <2>1, <2>3
      <3> QED
        BY <2>1, <2>3, <3>1, <3>2
    <2>4. CASE p.status = "ok" /\ p.op = "restake"
      <3>1. Freed(p, x + n, y - n)
        BY <2>4 DEF CalledBack
      <3>2. (x + n) + (y - n) = x + y
        BY <2>1
      <3> QED
        BY <2>1, <2>4, <3>1, <3>2
    <2>5. CASE p.status = "ok" /\ p.op = "unstake"
      <3>1. Freed(p, x - n, y + n)
        BY <2>5 DEF CalledBack
      <3>2. (x - n) + (y + n) = x + y
        BY <2>1
      <3> QED
        BY <2>1, <2>5, <3>1, <3>2
    <2>6. CASE p.status = "failed"
      <3>1. Freed(p, x, y)
        BY <2>6 DEF CalledBack
      <3> QED
        BY <2>1, <2>6, <3>1
    <2> QED
      BY <2>1, <2>2, <2>3, <2>4, <2>5, <2>6 DEF CalledBack
  <1>2. /\ promises' = promises \ {p} /\ i \in DOMAIN staking_pools
        /\ DOMAIN staking_pools' = DOMAIN staking_pools
        /\ staking_pools'[i].staked = staked /\ staking_pools'[i].unstaked = unstaked
        /\ \A j \in DOMAIN staking_pools : j # i => staking_pools'[j] = staking_pools[j]
        /\ \A q \in promises' : q \in promises /\ q.sp # i
        /\ UNCHANGED <<pool_accounts, held_at, queries>>
    BY <1>1, FreedFacts
  <1>3. ASSUME NEW j \in DOMAIN staking_pools, NEW a \in Range(PoolAccounts),
               a = pool_accounts[j]
        PROVE  RecordAt(j, a)'
    <2>1. RecordAt(j, a)
      BY <1>3 DEF Records, ListRecorded
    <2>2. CASE j # i
      <3>1. total_recorded(j)' = total_recorded(j) /\ held_at'[a] = held_at[a]
        BY <1>2, <2>2 DEF total_recorded
      <3>2. /\ \A q \in promises' : q.sp = j => q \in promises /\ q.sp = j
            /\ \A q \in promises : q.sp = j => q \in promises' /\ q.sp = j
        BY <1>2, <2>2
      <3> QED
        BY <2>1, <3>1, <3>2, RecordStays
    <2>3. CASE j = i
      <3>1. total_held(a) = staked + unstaked
        <4>1. /\ \A q \in promises : q.sp = i => q = p
              /\ total_held(a) \in Nat /\ total_recorded(i) \in Nat /\ n \in Nat
          BY <1>2, CallFacts, TotalsNat
        <4>2. CASE p.status = "ok" /\ p.op = "stake"
          BY <1>1, <2>1, <2>3, <4>2 DEF RecordAt
        <4>3. CASE p.status = "ok" /\ p.op = "retrieve"
          <5>1. total_held(a) + n = total_recorded(i)
            BY <2>1, <2>3, <4>3 DEF RecordAt
          <5>2. staked + unstaked = total_recorded(i) - n
            BY <1>1, <4>3
          <5> QED
            BY <4>1, <5>1, <5>2
        <4>4. CASE p.status # "ok" \/ p.op \notin {"stake", "retrieve"}
          <5>1. total_held(a) = total_recorded(i)
            BY <2>1, <2>3, <4>1, <4>4 DEF RecordAt
          <5> QED
            BY <1>1, <4>4, <5>1
        <4> QED
          BY <4>2, <4>3, <4>4
      <3>2. total_held(a)' = total_recorded(j)'
        BY <1>2, <2>3, <3>1 DEF total_held, total_recorded
      <3>3. \A q \in promises' : q.sp # j
        BY <1>2, <2>3
      <3> QED
        BY <3>2, <3>3 DEF RecordAt
    <2> QED
      BY <2>2, <2>3
  <1> QED
    BY <1>2, <1>3, ListKept DEF Records

(* An answer moves what the pool holds, and no earlier answer is under way. *)
LEMMA AnsweredRecords ==
  ASSUME Placed, Records, NEW p \in promises, Answered(p)
  PROVE  Records'
  <1> SUFFICES ASSUME NEW i, i = p.sp, NEW n, n = p.amount, NEW a, a = account_of(p)
               PROVE  Records'
    OBVIOUS
  <1>1. /\ p.status = "sent" /\ no_answer_from(a)
        /\ UNCHANGED <<staking_pools, pool_accounts, queries>>
        /\ held_at' \in [Range(PoolAccounts) -> [staked : Nat, unstaked : Nat]]
        /\ \A b \in Range(PoolAccounts) : b # a => held_at'[b] = held_at[b]
        /\ i \in DOMAIN staking_pools /\ a \in Range(PoolAccounts) /\ a = pool_accounts[i]
        /\ \A q \in promises : q.sp = i => q = p
        /\ n \in Nat
    BY AnsweredFacts, CallFacts
  <1>2. total_held(a) = total_recorded(i) /\ total_recorded(i) \in Nat
    <2>1. \A q \in promises : q.sp = i => q.status # "ok"
      BY <1>1
    <2> QED
      BY <1>1, <2>1, FreeRecord, TotalsNat DEF Records
  <1>3. PICK r : /\ Turned(p, r)
                 /\ total_held(a)' =
                      IF r.status = "ok" /\ r.op = "stake" THEN total_held(a) + n
                      ELSE IF r.status = "ok" /\ r.op = "retrieve" THEN total_held(a) - n
                      ELSE total_held(a)
    <2> DEFINE x == held_at[a].staked
               y == held_at[a].unstaked
               turned(status) ==
                 promises' = (promises \ {p}) \cup {[p EXCEPT !.status = status, !.reply = 0]}
    <2>1. /\ x \in Nat /\ y \in Nat /\ total_held(a) = x + y
          /\ held_at \in [Range(PoolAccounts) -> [staked : Nat, unstaked : Nat]]
      BY <1>1, TotalsNat DEF total_held, Placed, CallsTyped
    <2>2. \A status \in {"ok", "failed"} :
            turned(status) /\ (p.op = "rewards" => status = "failed")
              => \E r : Turned(p, r) /\ r.status = status /\ r.op = p.op
      BY <1>1, AnyTurned DEF Turned
    <2>3. ASSUME NEW s, NEW u, Converted(a, s, u)
          PROVE  /\ s \in Int /\ u \in Int
                 /\ total_held(a)' = (x + s) + (y + u)
      BY <1>1, <2>1, <2>3 DEF Converted, total_held
    <2> HIDE DEF x, y
    <2>4. CASE turned("failed") /\ UNCHANGED held_at
      <3>1. PICK r : Turned(p, r) /\ r.status = "failed"
        BY <2>2, <2>4
      <3>2. total_held(a)' = total_held(a)
        BY <2>4 DEF total_held
      <3> QED
        BY <3>1, <3>2
    <2>5. CASE p.op = "stake" /\ turned("ok") /\ Converted(a, n, 0)
      <3>1. PICK r : Turned(p, r) /\ r.status = "ok" /\ r.op = "stake"
        BY <2>2, <2>5
      <3>2. total_held(a)' = total_held(a) + n
        BY <1>1, <2>1, <2>3, <2>5
      <3> QED
        BY <3>1, <3>2
    <2>6. CASE p.op = "retrieve" /\ turned("ok") /\ Converted(a, 0, -n)
      <3>1. PICK r : Turned(p, r) /\ r.status = "ok" /\ r.op = "retrieve"
        BY <2>2, <2>6
      <3>2. total_held(a)' = total_held(a) - n
        BY <1>1, <2>1, <2>3, <2>6
      <3> QED
        BY <3>1, <3>2
    <2>7. CASE p.op = "restake" /\ turned("ok") /\ Converted(a, n, -n)
      <3>1. PICK r : Turned(p, r) /\ r.status = "ok" /\ r.op = "restake"
        BY <2>2, <2>7
      <3>2. total_held(a)' = total_held(a)
        BY <1>1, <2>1, <2>3, <2>7
      <3> QED
        BY <3>1, <3>2
    <2>8. CASE /\ p.op = "unstake" /\ turned("ok")
               /\ \E z \in {-1, 0, 1} : Converted(a, -(n + z), n + z)
      <3>1. PICK r : Turned(p, r) /\ r.status = "ok" /\ r.op = "unstake"
        BY <2>2, <2>8
      <3>2. PICK z \in {-1, 0, 1} : Converted(a, -(n + z), n + z)
        BY <2>8
      <3>3. total_held(a)' = (x + (-(n + z))) + (y + (n + z))
        BY <2>3, <3>2
      <3>4. total_held(a)' = total_held(a)
        BY <1>1, <2>1, <3>3
      <3> QED
        BY <3>1, <3>4
    <2> QED
      BY <2>4, <2>5, <2>6, <2>7, <2>8 DEF Answered
  <1>4. /\ promises' = (promises \ {p}) \cup {r} /\ r.sp = i /\ r.amount = n
        /\ r.status \in {"ok", "failed"}
    BY <1>3 DEF Turned
  <1>5. ListRecorded'
    <2>1. ASSUME NEW j \in DOMAIN staking_pools, NEW b \in Range(PoolAccounts),
                 b = pool_accounts[j]
          PROVE  RecordAt(j, b)'
      <3>1. RecordAt(j, b)
        BY <2>1 DEF Records, ListRecorded
      <3>2. total_recorded(j)' = total_recorded(j)
        BY <1>1 DEF total_recorded
      <3>3. CASE j # i
        <4>1. b # a
          BY <1>1, <2>1, <3>3, Listed DEF Placed, PoolsListed
        <4>2. held_at'[b] = held_at[b]
          BY <1>1, <4>1
        <4>3. /\ \A q \in promises' : q.sp = j => q \in promises /\ q.sp = j
              /\ \A q \in promises : q.sp = j => q \in promises' /\ q.sp = j
          BY <1>4, <3>3
        <4> QED
          BY <3>1, <3>2, <4>2, <4>3, RecordStays
      <3>4. CASE j = i
        <4>1. b = a /\ \A q \in promises' : q.sp = j => q = r
          BY <1>1, <1>4, <2>1, <3>4
        <4>2. r \in promises' /\ r.sp = j
          BY <1>4, <3>4
        <4>3. CASE r.status = "ok" /\ r.op = "stake"
          <5>1. total_held(b)' = total_recorded(j)' + r.amount
            BY <1>2, <1>3, <1>4, <3>2, <3>4, <4>1, <4>3
          <5> QED
            BY <4>1, <4>2, <4>3, <5>1 DEF RecordAt
        <4>4. CASE r.status = "ok" /\ r.op = "retrieve"
          <5>1. total_held(b)' = total_recorded(j) - n
            BY <1>2, <1>3, <3>4, <4>1, <4>4
          <5>2. total_held(b)' + r.amount = total_recorded(j)'
            BY <1>1, <1>2, <1>4, <3>2, <3>4, <5>1
          <5> QED
            BY <4>1, <4>2, <4>4, <5>2 DEF RecordAt
        <4>5. CASE r.status # "ok" \/ r.op \notin {"stake", "retrieve"}
          <5>1. total_held(b)' = total_recorded(j)'
            BY <1>2, <1>3, <3>2, <3>4, <4>1, <4>5
          <5> QED
            BY <4>1, <4>5, <5>1 DEF RecordAt
        <4> QED
          BY <4>3, <4>4, <4>5
      <3> QED
        BY <3>3, <3>4
    <2>2. ASSUME NEW j \in DOMAIN staking_pools'
          PROVE  RecordAt(j, pool_accounts[j])'
      <3>1. j \in DOMAIN staking_pools /\ pool_accounts[j] \in Range(PoolAccounts)
        BY <1>1, Listed DEF Placed
      <3>2. PICK b \in Range(PoolAccounts) : b = pool_accounts[j]
        BY <3>1
      <3>3. RecordAt(j, b)' /\ pool_accounts'[j] = b
        BY <1>1, <2>1, <3>1, <3>2
      <3> QED
        BY <3>3 DEF RecordAt, total_held
    <2> QED
      BY <2>2 DEF ListRecorded
  <1>6. UnlistedEmpty'
    <2>1. a \in Range(pool_accounts)
      BY <1>1, Listed DEF Placed, Range
    <2> QED
      BY <1>1, <2>1 DEF Records, UnlistedEmpty, total_held
  <1>7. RepliesTrue'
    <2>1. ASSUME NEW q \in queries', q.status = "ok"
          PROVE  q.reply = held_at'[q.account].unstaked
      <3>1. q \in queries /\ q.account \in Range(PoolAccounts) /\ q.account # a
        BY <1>1, <2>1 DEF no_answer_from, Placed, CallsTyped, Query
      <3> QED
        BY <1>1, <2>1, <3>1 DEF Records, RepliesTrue
    <2> QED
      BY <2>1 DEF RepliesTrue
  <1> QED
    BY <1>5, <1>6, <1>7 DEF Records

LEMMA SameNearRecords ==
  ASSUME Placed, Records, SameNear, UNCHANGED <<promises, pool_accounts, held_at, queries>>
  PROVE  Records'
  <1>1. DOMAIN staking_pools' = DOMAIN staking_pools
    <2>1. /\ staking_pools' \in Seq(StakingPoolInfo) /\ staking_pools \in Seq(StakingPoolInfo)
          /\ Len(staking_pools') = Len(staking_pools)
      BY DEF SameNear, Placed, PoolsListed
    <2> QED
      BY <2>1, LenProperties
  <1>2. ASSUME NEW i \in DOMAIN staking_pools, NEW a \in Range(PoolAccounts),
               a = pool_accounts[i]
        PROVE  RecordAt(i, a)'
    <2>1. RecordAt(i, a)
      BY <1>2 DEF Records, ListRecorded
    <2>2. total_recorded(i)' = total_recorded(i)
      BY DEF SameNear, total_recorded
    <2> QED
      BY <2>1, <2>2, RecordStays
  <1> QED
    BY <1>1, <1>2, ListKept DEF Records

(* A late answer moves what is recorded between staked and unstaked: what it *)
(* tells is no more than the pool holds, which is what is recorded.          *)
LEMMA SyncedRecords ==
  ASSUME Placed, Records, NEW q \in queries, q.status = "ok",
         ~staking_pools[q.sp].busy_lock,
         staking_pools' = [staking_pools EXCEPT ![q.sp] = synced(@, q.reply)],
         queries' = queries \ {q}, UNCHANGED <<promises, pool_accounts, held_at>>
  PROVE  Records'
  <1> SUFFICES ASSUME NEW i, i = q.sp PROVE Records'
    OBVIOUS
  <1>1. /\ i \in DOMAIN staking_pools /\ q.reply \in Nat
        /\ pool_accounts[i] = q.account /\ q.account \in Range(PoolAccounts)
        /\ q.reply = held_at[q.account].unstaked
        /\ staking_pools[i] \in StakingPoolInfo
    BY Listed DEF Placed, CallsTyped, CallbackFindsItsPool, Query, Records, RepliesTrue
  <1>2. \A p \in promises : p.sp # i
    BY CallFacts
  <1> DEFINE sp == synced(staking_pools[i], q.reply)
             x == staking_pools[i].staked
             y == staking_pools[i].unstaked
  <1>3. /\ sp \in StakingPoolInfo /\ sp.unstaked = q.reply
        /\ sp.staked = IF q.reply > y THEN saturating_sub(x, q.reply - y) ELSE x + (y - q.reply)
    BY <1>1, SyncedTyped
  <1>4. staking_pools' = [staking_pools EXCEPT ![i] = sp]
    OBVIOUS
  <1> HIDE DEF sp
  <1>5. /\ staking_pools'[i] = sp /\ DOMAIN staking_pools' = DOMAIN staking_pools
        /\ \A j \in DOMAIN staking_pools : j # i => staking_pools'[j] = staking_pools[j]
    BY <1>1, <1>3, <1>4, OneRewritten DEF Placed
  <1>6. /\ x \in Nat /\ y \in Nat /\ x + y = total_recorded(i)
        /\ total_held(q.account) = x + y /\ q.reply <= x + y
    <2>1. total_held(pool_accounts[i]) = total_recorded(i)
      BY <1>1, <1>2, FreeRecord DEF Records
    <2>2. /\ held_at[q.account].staked \in Nat
          /\ total_held(q.account) = held_at[q.account].staked + q.reply
      BY <1>1, TotalsNat DEF total_held
    <2>3. x \in Nat /\ y \in Nat /\ total_recorded(i) = x + y
      BY <1>1, TotalsNat DEF total_recorded
    <2> HIDE DEF x, y
    <2> QED
      BY <1>1, <2>1, <2>2, <2>3
  <1>7. sp.staked + sp.unstaked = x + y
    <2> HIDE DEF x, y
    <2>1. CASE q.reply > y
      <3>1. /\ q.reply - y \in Nat /\ q.reply - y <= x
        BY <1>1, <1>6, <2>1
      <3>2. sp.staked = x - (q.reply - y)
        BY <1>3, <1>6, <2>1, <3>1 DEF saturating_sub
      <3> QED
        BY <1>1, <1>3, <1>6, <3>2
    <2>2. CASE ~(q.reply > y)
      BY <1>1, <1>3, <1>6, <2>2
    <2> QED
      BY <2>1, <2>2
  <1>8. \A j \in DOMAIN staking_pools : total_recorded(j)' = total_recorded(j)
    BY <1>5, <1>6, <1>7 DEF total_recorded
  <1>9. ASSUME NEW j \in DOMAIN staking_pools, NEW a \in Range(PoolAccounts),
               a = pool_accounts[j]
        PROVE  RecordAt(j, a)'
    <2>1. RecordAt(j, a)
      BY <1>9 DEF Records, ListRecorded
    <2> QED
      BY <1>8, <2>1, RecordStays
  <1>10. queries' \subseteq queries
    OBVIOUS
  <1> QED
    BY <1>5, <1>9, <1>10, ListKept DEF Records

LEMMA QueriedRecords ==
  ASSUME Placed, Records, Queried
  PROVE  Records'
  <1>1. UNCHANGED <<promises, pool_accounts, held_at>>
    BY DEF Queried
  <1>2. CASE UNCHANGED staking_pools /\ queries' \subseteq queries
    <2>1. ASSUME NEW i \in DOMAIN staking_pools, NEW a \in Range(PoolAccounts),
                 a = pool_accounts[i]
          PROVE  RecordAt(i, a)'
      BY <1>1, <1>2, <2>1 DEF Records, ListRecorded, RecordAt, total_held, total_recorded
    <2> QED
      BY <1>1, <1>2, <2>1, ListKept DEF Records
  <1>3. CASE /\ UNCHANGED staking_pools
             /\ \E q \in Query :
                  /\ q.status = "ok" => q.reply = held_at[q.account].unstaked
                  /\ queries' \subseteq queries \cup {q}
    BY <1>1, <1>3
    DEF Records, ListRecorded, UnlistedEmpty, RepliesTrue, RecordAt, total_held, total_recorded
  <1>4. CASE \E q \in queries :
               /\ q.status = "ok" /\ ~staking_pools[q.sp].busy_lock
               /\ queries' = queries \ {q}
               /\ staking_pools' = [staking_pools EXCEPT ![q.sp] = synced(@, q.reply)]
    BY <1>1, <1>4, SyncedRecords
  <1> QED
    BY <1>2, <1>3, <1>4 DEF Queried

LEMMA PoolAddedRecords ==
  ASSUME Placed, Records, PoolAdded
  PROVE  Records'
  <1> DEFINE m == Len(staking_pools)
  <1>1. /\ m \in Nat /\ DOMAIN staking_pools = 1..m /\ DOMAIN pool_accounts = 1..m
        /\ \A p \in promises : p.sp \in 1..m
    BY Listed, CallFacts DEF Placed
  <1>2. /\ \A j \in DOMAIN staking_pools :
             staking_pools'[j] = staking_pools[j] /\ pool_accounts'[j] = pool_accounts[j]
        /\ DOMAIN staking_pools' = 1..(m + 1) /\ DOMAIN pool_accounts' = 1..(m + 1)
        /\ pool_accounts'[m + 1] \in Range(PoolAccounts) \ Range(pool_accounts)
        /\ staking_pools'[m + 1] = NewStakingPool(0)
    BY PoolAddedFacts
  <1>3. UNCHANGED <<promises, held_at, queries>>
    BY DEF PoolAdded, beside_vars
  <1> SUFFICES ASSUME NEW k, k = m PROVE Records'
    OBVIOUS
  <1> HIDE DEF m
  <1>4. ASSUME NEW i \in 1..k PROVE RecordAt(i, pool_accounts[i])'
    <2>1. RecordAt(i, pool_accounts[i])
      BY <1>1, <1>4 DEF Records, ListRecorded
    <2>2. PICK a : a = pool_accounts[i]
      OBVIOUS
    <2>3. pool_accounts'[i] = a /\ total_recorded(i)' = total_recorded(i)
      BY <1>1, <1>2, <1>4, <2>2 DEF total_recorded
    <2>4. RecordAt(i, a)'
      BY <1>3, <2>1, <2>2, <2>3, RecordStays
    <2> QED
      BY <2>3, <2>4 DEF RecordAt, total_held
  <1>5. RecordAt(k + 1, pool_accounts[k + 1])'
    <2>1. total_held(pool_accounts[k + 1])' = 0
      BY <1>2, <1>3 DEF Records, UnlistedEmpty, total_held
    <2>2. total_recorded(k + 1)' = 0
      BY <1>2 DEF total_recorded, NewStakingPool
    <2>3. \A p \in promises' : p.sp # k + 1
      BY <1>1, <1>3
    <2> QED
      BY <2>1, <2>2, <2>3 DEF RecordAt
  <1>6. ListRecorded'
    <2>1. \A i \in DOMAIN staking_pools' : i = k + 1 \/ i \in 1..k
      BY <1>1, <1>2
    <2> QED
      BY <1>4, <1>5, <2>1 DEF ListRecorded
  <1>7. UnlistedEmpty' /\ RepliesTrue'
    <2>1. ASSUME NEW a \in Range(PoolAccounts), a \notin Range(pool_accounts)'
          PROVE  total_held(a)' = 0
      <3>1. a \notin Range(pool_accounts)
        BY <1>1, <1>2, <2>1 DEF Range
      <3> QED
        BY <1>3, <3>1 DEF Records, UnlistedEmpty, total_held
    <2> QED
      BY <1>3, <2>1 DEF Records, UnlistedEmpty, RepliesTrue
  <1> QED
    BY <1>6, <1>7 DEF Records

(* The pools after the one removed move down one place, with no call there. *)
LEMMA PoolRemovedRecords ==
  ASSUME Placed, Records, NEW i \in DOMAIN staking_pools, PoolRemoved(i)
  PROVE  Records'
  <1> SUFFICES ASSUME NEW m, m = Len(staking_pools) PROVE Records'
    OBVIOUS
  <1>1. /\ m \in Nat /\ DOMAIN staking_pools = 1..m /\ DOMAIN pool_accounts = 1..m
        /\ i \in 1..m
    BY Listed DEF Placed
  <1>2. /\ DOMAIN staking_pools' = 1..(m - 1) /\ DOMAIN pool_accounts' = 1..(m - 1)
        /\ \A j \in 1..(m - 1) :
             /\ staking_pools'[j] = IF j < i THEN staking_pools[j] ELSE staking_pools[j + 1]
             /\ pool_accounts'[j] = IF j < i THEN pool_accounts[j] ELSE pool_accounts[j + 1]
        /\ \A p \in promises : p.sp < i
    BY PoolRemovedFacts
  <1>3. /\ UNCHANGED <<promises, held_at, queries>>
        /\ staking_pools[i].staked = 0 /\ staking_pools[i].unstaked = 0
    BY DEF PoolRemoved, beside_vars
  <1>4. ASSUME NEW j \in 1..(m - 1) PROVE RecordAt(j, pool_accounts[j])'
    <2> DEFINE from == IF j < i THEN j ELSE j + 1
    <2>1. /\ from \in 1..m /\ staking_pools'[j] = staking_pools[from]
          /\ pool_accounts'[j] = pool_accounts[from]
      BY <1>1, <1>2
    <2>2. \A p \in promises : p.sp = from <=> p.sp = j
      BY <1>1, <1>2, CallFacts
    <2>3. PICK k \in 1..m : k = from
      BY <2>1
    <2> HIDE DEF from
    <2>4. PICK a : a = pool_accounts[k]
      OBVIOUS
    <2>5. RecordAt(k, a)
      BY <1>1, <2>4 DEF Records, ListRecorded
    <2>6. total_recorded(j)' = total_recorded(k) /\ pool_accounts'[j] = a
      BY <2>1, <2>3, <2>4 DEF total_recorded
    <2>7. RecordAt(j, a)'
      BY <1>3, <2>2, <2>3, <2>5, <2>6, RecordStays
    <2> QED
      BY <2>6, <2>7 DEF RecordAt, total_held
  <1>5. ListRecorded'
    BY <1>2, <1>4 DEF ListRecorded
  <1>6. UnlistedEmpty'
    <2>1. ASSUME NEW a \in Range(PoolAccounts), a \notin Range(pool_accounts)'
          PROVE  total_held(a) = 0
      <3>1. CASE a = pool_accounts[i]
        <4>1. total_recorded(i) = 0
          BY <1>3 DEF total_recorded
        <4>2. \A p \in promises : p.sp # i
          BY <1>1, <1>2
        <4> QED
          BY <3>1, <4>1, <4>2, FreeRecord DEF Records
      <3>2. CASE a # pool_accounts[i]
        <4>1. ASSUME NEW j \in 1..m PROVE a # pool_accounts[j]
          <5>1. CASE j < i
            <6>1. j \in 1..(m - 1) /\ pool_accounts'[j] = pool_accounts[j]
              BY <1>1, <1>2, <5>1
            <6> QED
              BY <1>2, <2>1, <6>1 DEF Range
          <5>2. CASE j > i
            <6>1. /\ j - 1 \in 1..(m - 1) /\ ~(j - 1 < i) /\ (j - 1) + 1 = j
              BY <1>1, <5>2
            <6>2. pool_accounts'[j - 1] = pool_accounts[j]
              BY <1>2, <6>1
            <6> QED
              BY <1>2, <2>1, <6>1, <6>2 DEF Range
          <5>3. CASE j = i
            BY <3>2, <5>3
          <5> QED
            BY <1>1, <5>1, <5>2, <5>3
        <4>2. a \notin Range(pool_accounts)
          BY <1>1, <4>1 DEF Range
        <4> QED
          BY <4>2 DEF Records, UnlistedEmpty
      <3> QED
        BY <3>1, <3>2
    <2> QED
      BY <1>3, <2>1 DEF UnlistedEmpty, total_held
  <1>7. RepliesTrue'
    BY <1>3 DEF Records, RepliesTrue
  <1> QED
    BY <1>5, <1>6, <1>7 DEF Records

LEMMA MoveKeepsRecords ==
  ASSUME Placed, Move, Records
  PROVE  Records'
  <1>1. ASSUME UNCHANGED <<staking_pools, promises, pool_accounts, beside_vars>>
        PROVE  Records'
    BY <1>1 DEF Records, ListRecorded, UnlistedEmpty, RepliesTrue, RecordAt, total_held,
                total_recorded, beside_vars
  <1>2. CASE \E i, op, n, manual : Sent(i, op, n, manual)
    BY <1>2, SentRecords
  <1>3. CASE \E p \in promises : CalledBack(p) \/ Answered(p)
    BY <1>3, CalledBackRecords, AnsweredRecords
  <1>4. CASE Quiet
    BY <1>4, SameNearRecords DEF Quiet, beside_vars
  <1>5. CASE Queried
    BY <1>5, QueriedRecords
  <1>6. CASE PoolAdded
    BY <1>6, PoolAddedRecords
  <1>7. CASE OrdersUndone
    BY <1>1, <1>7 DEF OrdersUndone
  <1>8. CASE \E i \in DOMAIN staking_pools : PoolRemoved(i)
    BY <1>8, PoolRemovedRecords
  <1>9. CASE \E i \in DOMAIN staking_pools : HandCompleted(i)
    BY <1>1, <1>9 DEF HandCompleted
  <1> QED
    BY <1>2, <1>3, <1>4, <1>5, <1>6, <1>7, <1>8, <1>9 DEF Move

LEMMA InitRecords == OperatorInit => Records
  <1> SUFFICES ASSUME OperatorInit PROVE Records
    OBVIOUS
  <1>1. /\ promises = {} /\ queries = {}
        /\ held_at = [a \in Range(PoolAccounts) |-> [staked |-> 0, unstaked |-> 0]]
        /\ staking_pools = [i \in DOMAIN Weights |-> NewStakingPool(Weights[i])]
    BY DEF OperatorInit, Init
  <1>2. \A i \in DOMAIN staking_pools : pool_accounts[i] \in Range(PoolAccounts)
    BY InitPlaced, Listed DEF Placed
  <1>3. \A i \in DOMAIN staking_pools : total_recorded(i) = 0
    BY <1>1 DEF total_recorded, NewStakingPool
  <1>4. \A a \in Range(PoolAccounts) : total_held(a) = 0
    BY <1>1 DEF total_held
  <1> QED
    BY <1>1, <1>2, <1>3, <1>4 DEF Records, ListRecorded, UnlistedEmpty, RepliesTrue, RecordAt

LEMMA RecordsAlways == OperatorSpec => []Records
  <1>1. Placed /\ Records /\ [OperatorNext]_operator_vars => Records'
    BY EveryMove, MoveKeepsRecords
  <1> QED
    BY <1>1, InitRecords, PlacedAlways, PTL DEF OperatorSpec

(* Rounding and synchronizing only move what is recorded of a pool between   *)
(* staked and unstaked: on_get_sp_unstaked_balance (distribute.rs:532) takes *)
(* from the one what it adds to the other, and never more than is there.     *)
THEOREM RecordsStayTrue == OperatorSpec => []RecordsMatchPools
  <1>1. Placed /\ Records => RecordsMatchPools
    <2> SUFFICES ASSUME Placed, Records, NEW i \in DOMAIN staking_pools, free_of_calls(i)
                 PROVE  total_recorded(i) = total_held(pool_accounts[i])
      BY DEF RecordsMatchPools, total_recorded, total_held
    <2> QED
      BY FreeRecord DEF Records, free_of_calls
  <1> QED
    BY <1>1, RecordsAlways, PlacedAlways, PTL


-----------------------------------------------------------------------------
(***************************************************************************)
(* The totals. While no pool has rounded, a record is what the pool holds   *)
(* and the totals are the sums of the records: w is what is recorded        *)
(* unstaked at each pool, s what is recorded staked there and not being     *)
(* unstaked. So no callback takes from a total more than is there.          *)
(***************************************************************************)
PerPool == [Range(PoolAccounts) -> Nat]

StoredAt(w, s, i, a) ==
  /\ w[a] = staking_pools[i].unstaked
  /\ (\A p \in promises : p.sp = i => p.op # "unstake") => s[a] = staking_pools[i].staked
  /\ \A p \in promises : p.sp = i /\ p.op = "unstake"
                           => s[a] + p.amount = staking_pools[i].staked
  /\ (\A p \in promises : p.sp = i /\ p.status = "ok"
                            => p.op \notin Withdrawing \cup {"unstake"})
       => held_at[a].unstaked = w[a]
  /\ \A p \in promises : p.sp = i /\ p.status = "ok" =>
       /\ p.op \in Withdrawing => held_at[a].unstaked + p.amount = w[a]
       /\ p.op = "unstake" => held_at[a].unstaked = w[a] + p.amount

Stored(w, s) ==
  /\ \A i \in DOMAIN staking_pools : StoredAt(w, s, i, pool_accounts[i])
  /\ \A a \in Range(PoolAccounts) \ Range(pool_accounts) : w[a] = 0 /\ s[a] = 0

Totalled(waiting, staked) ==
  /\ total_unstaked_and_waiting = waiting
  /\ total_actually_staked = staked + staking_in_flight

Exact ==
  \E w, s \in PerPool : Stored(w, s) /\ Totalled(SumFunction(w), SumFunction(s))

Totals == rounded = 0 => Exact

LEMMA StoredStays ==
  ASSUME NEW i, NEW j, NEW a, NEW w, NEW s, StoredAt(w, s, i, a),
         staking_pools'[j].staked = staking_pools[i].staked,
         staking_pools'[j].unstaked = staking_pools[i].unstaked,
         held_at'[a] = held_at[a],
         \A p \in promises' : p.sp = j => p \in promises /\ p.sp = i,
         \A p \in promises : p.sp = i => p \in promises' /\ p.sp = j
  PROVE  StoredAt(w, s, j, a)'
  BY DEF StoredAt

(* At every pool but one nothing changes. *)
LEMMA StoredElsewhere ==
  ASSUME Placed, UNCHANGED pool_accounts, DOMAIN staking_pools' = DOMAIN staking_pools,
         NEW i \in DOMAIN staking_pools, NEW a \in Range(PoolAccounts), a = pool_accounts[i],
         NEW w, NEW s, NEW v, NEW t, Stored(w, s),
         \A b \in Range(PoolAccounts) : b # a =>
           v[b] = w[b] /\ t[b] = s[b] /\ held_at'[b] = held_at[b],
         \A j \in DOMAIN staking_pools : j # i => staking_pools'[j] = staking_pools[j],
         \A p \in promises' : p.sp # i => p \in promises,
         \A p \in promises : p.sp # i => p \in promises',
         StoredAt(v, t, i, a)'
  PROVE  Stored(v, t)'
  <1>1. ASSUME NEW j \in DOMAIN staking_pools'
        PROVE  StoredAt(v, t, j, pool_accounts[j])'
    <2>1. j \in DOMAIN staking_pools /\ pool_accounts[j] \in Range(PoolAccounts)
      BY Listed DEF Placed
    <2>2. PICK b \in Range(PoolAccounts) : b = pool_accounts[j]
      BY <2>1
    <2>3. StoredAt(v, t, j, b)'
      <3>1. CASE j = i
        BY <2>2, <3>1
      <3>2. CASE j # i
        <4>1. b # a
          BY <2>1, <2>2, <3>2, Listed DEF Placed, PoolsListed
        <4>2. StoredAt(w, s, j, b)
          BY <2>1, <2>2 DEF Stored
        <4>3. v[b] = w[b] /\ t[b] = s[b] /\ held_at'[b] = held_at[b]
          BY <4>1
        <4>4. /\ \A p \in promises' : p.sp = j => p \in promises
              /\ \A p \in promises : p.sp = j => p \in promises'
              /\ staking_pools'[j] = staking_pools[j]
          BY <2>1, <3>2
        <4> QED
          BY <4>2, <4>3, <4>4 DEF StoredAt
      <3> QED
        BY <3>1, <3>2
    <2>4. pool_accounts'[j] = b
      BY <2>2
    <2> QED
      BY <2>3, <2>4 DEF StoredAt
  <1>2. ASSUME NEW b \in Range(PoolAccounts), b \notin Range(pool_accounts)'
        PROVE  v[b] = 0 /\ t[b] = 0
    <2>1. b \notin Range(pool_accounts)
      BY <1>2
    <2>2. a \in Range(pool_accounts)
      BY Listed DEF Placed, Range
    <2> QED
      BY <2>1, <2>2 DEF Stored
  <1> QED
    BY <1>1, <1>2 DEF Stored

(* What is known of a pool in the list. *)
LEMMA StoredFacts ==
  ASSUME Placed, NEW w \in PerPool, NEW s \in PerPool, Stored(w, s),
         NEW i \in DOMAIN staking_pools, NEW a, a = pool_accounts[i]
  PROVE  /\ a \in Range(PoolAccounts) /\ StoredAt(w, s, i, a)
         /\ w[a] \in Nat /\ s[a] \in Nat
         /\ SumFunction(w) \in Nat /\ SumFunction(s) \in Nat
         /\ w[a] <= SumFunction(w) /\ s[a] <= SumFunction(s)
  <1>1. a \in Range(PoolAccounts) /\ StoredAt(w, s, i, a)
    BY Listed DEF Placed, Stored
  <1>2. w[a] \in Nat /\ s[a] \in Nat
    BY <1>1 DEF PerPool
  <1>3. /\ SumFunction(w) \in Nat /\ SumFunction(s) \in Nat
        /\ w[a] <= SumFunction(w) /\ s[a] <= SumFunction(s)
    BY <1>1, PoolSumNat DEF PerPool
  <1> QED
    BY <1>1, <1>2, <1>3

(* h is f, but for n at a. *)
Changed(h, f, a, n) ==
  /\ h[a] = n /\ \A b \in Range(PoolAccounts) : b # a => h[b] = f[b]
  /\ SumFunction(h) = SumFunction(f) + (n - f[a])

LEMMA PerPoolChange ==
  ASSUME NEW f \in PerPool, NEW a \in Range(PoolAccounts), NEW n \in Nat
  PROVE  \E h \in PerPool : Changed(h, f, a, n)
  <1> DEFINE h == [f EXCEPT ![a] = n]
  <1>1. /\ h \in PerPool /\ SumFunction(h) = SumFunction(f) + (n - f[a])
    BY PoolSumChange DEF PerPool
  <1>2. h[a] = n /\ \A b \in Range(PoolAccounts) : b # a => h[b] = f[b]
    BY DEF PerPool
  <1> HIDE DEF h
  <1> QED
    BY <1>1, <1>2 DEF Changed

LEMMA SentTotals ==
  ASSUME Placed, Exact, LedgerTyped',
         NEW i, NEW op, NEW n, NEW manual, Sent(i, op, n, manual)
  PROVE  Exact'
  <1> SUFFICES ASSUME NEW a, a = pool_accounts[i] PROVE Exact'
    OBVIOUS
  <1>1. PICK w, s \in PerPool : Stored(w, s) /\ Totalled(SumFunction(w), SumFunction(s))
    BY DEF Exact
  <1> DEFINE c == Call(op, i, n)
  <1>2. /\ promises' = promises \cup {c} /\ c.op = op /\ c.sp = i /\ c.amount = n
        /\ c.status = "sent" /\ n \in Nat
        /\ i \in DOMAIN staking_pools /\ \A p \in promises : p.sp # i
        /\ DOMAIN staking_pools' = DOMAIN staking_pools
        /\ staking_pools'[i].staked = staking_pools[i].staked
        /\ staking_pools'[i].unstaked = staking_pools[i].unstaked
        /\ \A j \in DOMAIN staking_pools : j # i => staking_pools'[j] = staking_pools[j]
    BY SentFacts
  <1>3. UNCHANGED <<pool_accounts, held_at>>
    BY DEF Sent
  <1> HIDE DEF c
  <1>4. /\ a \in Range(PoolAccounts) /\ StoredAt(w, s, i, a)
        /\ w[a] \in Nat /\ s[a] \in Nat
        /\ SumFunction(w) \in Nat /\ SumFunction(s) \in Nat /\ s[a] <= SumFunction(s)
    BY <1>1, <1>2, StoredFacts
  <1>5. /\ staking_in_flight \in Nat /\ LedgerTyped
    BY AmountsNat DEF Placed
  <1>6. /\ s[a] = staking_pools[i].staked /\ w[a] = staking_pools[i].unstaked
        /\ held_at[a].unstaked = w[a]
    BY <1>2, <1>4 DEF StoredAt
  <1>7. /\ \A p \in promises' : p.sp = i => p = c
        /\ c \in promises'
        /\ \A p \in promises' : p.sp # i => p \in promises
        /\ \A p \in promises : p.sp # i => p \in promises'
    BY <1>2
  <1>8. ASSUME NEW t \in PerPool, \A b \in Range(PoolAccounts) : b # a => t[b] = s[b],
               t[a] = IF op = "unstake" THEN s[a] - n ELSE s[a]
        PROVE  Stored(w, t)'
    <2>1. StoredAt(w, t, i, a)'
      <3>1. CASE op = "unstake"
        <4>1. t[a] + n = s[a]
          BY <1>2, <1>4, <1>8, <3>1
        <4> QED
          BY <1>2, <1>3, <1>6, <1>7, <3>1, <4>1 DEF StoredAt
      <3>2. CASE op # "unstake"
        BY <1>2, <1>3, <1>6, <1>7, <1>8, <3>2 DEF StoredAt
      <3> QED
        BY <3>1, <3>2
    <2> QED
      BY <1>1, <1>2, <1>3, <1>4, <1>7, <1>8, <2>1, StoredElsewhere
  <1>9. CASE op = "unstake"
    <2>1. /\ \E k : Booked(-n, 0, k, 0, 0, 0, 0, 0)
          /\ \E h : Amounts(0, n, 0, 0, h)
          /\ n <= staking_pools[i].staked /\ manual \in BOOLEAN
      BY <1>9, SentAmounts DEF Sent
    <2>2. PICK u \in Nat : u = s[a] - n
      BY <1>2, <1>4, <1>6, <2>1
    <2>3. PICK t \in PerPool : Changed(t, s, a, u)
      BY <1>4, PerPoolChange
    <2>4. Stored(w, t)'
      BY <1>8, <1>9, <2>2, <2>3 DEF Changed
    <2>5. /\ total_actually_staked' = total_actually_staked - n
          /\ total_unstaked_and_waiting' = total_unstaked_and_waiting
          /\ staking_in_flight' = staking_in_flight
      BY <1>2, <1>5, <2>1 DEF Booked, Amounts, LedgerTyped
    <2>6. Totalled(SumFunction(w), SumFunction(t))'
      BY <1>1, <1>2, <1>4, <1>5, <2>2, <2>3, <2>5 DEF Totalled, Changed
    <2> QED
      BY <2>4, <2>6 DEF Exact
  <1>10. CASE op # "unstake"
    <2>1. Stored(w, s)'
      BY <1>8, <1>10
    <2>2. /\ total_unstaked_and_waiting' = total_unstaked_and_waiting
          /\ \/ /\ total_actually_staked' = total_actually_staked + n
                /\ staking_in_flight' = staking_in_flight + n
             \/ /\ total_actually_staked' = total_actually_staked
                /\ staking_in_flight' = staking_in_flight
      <3>1. CASE op = "stake"
        <4>1. Booked(n, -n, 0, 0, 0, 0, -n, 0) /\ Amounts(n, 0, 0, n, 0)
          BY <3>1, SentAmounts DEF Sent
        <4> QED
          BY <1>5, <4>1 DEF Booked, Amounts, LedgerTyped
      <3>2. CASE op = "restake"
        <4>1. Booked(n, -n, 0, 0, 0, 0, 0, 0) /\ Amounts(n, 0, 0, 0, 0)
          BY <3>2, SentAmounts DEF Sent
        <4> QED
          BY <1>5, <4>1 DEF Booked, Amounts, LedgerTyped
      <3>3. CASE op \in {"retrieve", "rewards"}
        <4>1. Unbooked /\ Amounts(0, 0, 0, 0, 0)
          BY <3>3, SentAmounts DEF Sent
        <4> QED
          BY <1>5, <4>1 DEF Unbooked, Booked, Amounts, LedgerTyped
      <3> QED
        BY <1>10, <3>1, <3>2, <3>3 DEF Sent
    <2>3. Totalled(SumFunction(w), SumFunction(s))'
      BY <1>1, <1>2, <1>4, <1>5, <2>2 DEF Totalled
    <2> QED
      BY <2>1, <2>3 DEF Exact
  <1> QED
    BY <1>9, <1>10

(* The callback records at its pool what it moves between the totals. *)
LEMMA CalledBackTotals ==
  ASSUME Placed, Exact, LedgerTyped', NEW p \in promises, CalledBack(p)
  PROVE  Exact'
  <1> SUFFICES ASSUME NEW i, i = p.sp, NEW n, n = p.amount, NEW a, a = account_of(p),
                      NEW staked, staked = staking_pools[i].staked,
                      NEW unstaked, unstaked = staking_pools[i].unstaked
               PROVE  Exact'
    OBVIOUS
  <1>1. PICK w, s \in PerPool : Stored(w, s) /\ Totalled(SumFunction(w), SumFunction(s))
    BY DEF Exact
  <1>2. /\ i \in DOMAIN staking_pools /\ a = pool_accounts[i] /\ n \in Nat
        /\ staked \in Nat /\ unstaked \in Nat
        /\ \A q \in promises : q.sp = i => q = p
        /\ p.op = "unstake" => n <= staked
        /\ p.op = "restake" => n <= unstaked
        /\ p.op = "retrieve" => n = unstaked
        /\ p.status = "ok" \/ p.status = "failed"
    BY CallFacts DEF CallCovered, CalledBack
  <1>3. /\ a \in Range(PoolAccounts) /\ StoredAt(w, s, i, a)
        /\ w[a] \in Nat /\ s[a] \in Nat
        /\ SumFunction(w) \in Nat /\ SumFunction(s) \in Nat
        /\ w[a] <= SumFunction(w) /\ s[a] <= SumFunction(s)
    BY <1>1, <1>2, StoredFacts
  <1>4. staking_in_flight \in Nat /\ LedgerTyped
    BY AmountsNat DEF Placed
  <1>5. /\ w[a] = unstaked
        /\ p.op = "unstake" => s[a] + n = staked
        /\ p.op # "unstake" => s[a] = staked
        /\ p.status = "ok" /\ p.op \in Withdrawing => held_at[a].unstaked + n = unstaked
        /\ p.status = "ok" /\ p.op = "unstake" => held_at[a].unstaked = unstaked + n
        /\ p.status # "ok" \/ p.op \notin Withdrawing \cup {"unstake"}
             => held_at[a].unstaked = unstaked
    BY <1>2, <1>3 DEF StoredAt
  <1>6. held_at[a].unstaked \in Nat
    BY <1>3, TotalsNat
  <1>7. ASSUME NEW x \in Nat, NEW y \in Nat, Freed(p, y, x), held_at[a].unstaked = x,
               Totalled(SumFunction(w) + (x - w[a]), SumFunction(s) + (y - s[a]))'
        PROVE  Exact'
    <2>1. /\ promises' = promises \ {p}
          /\ DOMAIN staking_pools' = DOMAIN staking_pools
          /\ staking_pools'[i].staked = y /\ staking_pools'[i].unstaked = x
          /\ \A j \in DOMAIN staking_pools : j # i => staking_pools'[j] = staking_pools[j]
          /\ UNCHANGED <<pool_accounts, held_at>>
      BY <1>7, FreedFacts
    <2>2. PICK v \in PerPool : Changed(v, w, a, x)
      BY <1>3, PerPoolChange
    <2>3. PICK t \in PerPool : Changed(t, s, a, y)
      BY <1>3, PerPoolChange
    <2>4. /\ \A q \in promises' : q.sp # i
          /\ \A q \in promises' : q.sp # i => q \in promises
          /\ \A q \in promises : q.sp # i => q \in promises'
      BY <1>2, <2>1
    <2>5. StoredAt(v, t, i, a)'
      BY <1>7, <2>1, <2>2, <2>3, <2>4 DEF StoredAt, Changed
    <2>6. \A b \in Range(PoolAccounts) : b # a =>
            v[b] = w[b] /\ t[b] = s[b] /\ held_at'[b] = held_at[b]
      BY <2>1, <2>2, <2>3 DEF Changed
    <2>7. Stored(v, t)'
      BY <1>1, <1>2, <1>3, <2>1, <2>4, <2>5, <2>6, StoredElsewhere
    <2>8. Totalled(SumFunction(v), SumFunction(t))'
      BY <1>7, <2>2, <2>3 DEF Changed
    <2> QED
      BY <2>7, <2>8 DEF Exact
  <1> DEFINE W == SumFunction(w)
             S == SumFunction(s)
  <1>8. /\ total_unstaked_and_waiting = W /\ total_actually_staked = S + staking_in_flight
        /\ W \in Nat /\ S \in Nat /\ w[a] <= W
    BY <1>1, <1>3 DEF Totalled
  <1>9. ASSUME NEW x \in Nat, NEW y \in Nat, Freed(p, y, x), held_at[a].unstaked = x,
                total_unstaked_and_waiting' = W + (x - w[a]),
                total_actually_staked' = (S + (y - s[a])) + staking_in_flight'
         PROVE  Exact'
    BY <1>7, <1>9 DEF Totalled
  <1> HIDE DEF W, S
  <1>10. CASE p.status = "ok" /\ p.op = "stake"
    <2>1. /\ Freed(p, staked + n, unstaked)
          /\ Booked(0, 0, 0, 0, 0, -n, 0, 0) /\ Amounts(-n, 0, 0, -n, 0)
      BY <1>10, CalledBackAmounts DEF CalledBack
    <2>2. /\ total_unstaked_and_waiting' = W + (unstaked - w[a])
          /\ total_actually_staked' = (S + ((staked + n) - s[a])) + staking_in_flight'
      BY <1>2, <1>3, <1>4, <1>5, <1>8, <1>10, <2>1 DEF Booked, Amounts, LedgerTyped
    <2>3. held_at[a].unstaked = unstaked /\ staked + n \in Nat
      BY <1>2, <1>5, <1>10 DEF Withdrawing
    <2> QED
      BY <1>2, <1>9, <2>1, <2>2, <2>3
  <1>11. CASE p.status = "ok" /\ p.op = "restake"
    <2>1. /\ Freed(p, staked + n, unstaked - n)
          /\ Booked(0, 0, 0, -n, n, 0, 0, 0) /\ Amounts(-n, 0, 0, 0, 0)
      BY <1>11, CalledBackAmounts DEF CalledBack
    <2>2. /\ total_unstaked_and_waiting' = W + ((unstaked - n) - w[a])
          /\ total_actually_staked' = (S + ((staked + n) - s[a])) + staking_in_flight'
      BY <1>2, <1>3, <1>4, <1>5, <1>8, <1>11, <2>1 DEF Booked, Amounts, LedgerTyped
    <2>3. held_at[a].unstaked = unstaked - n /\ staked + n \in Nat /\ unstaked - n \in Nat
      BY <1>2, <1>5, <1>6, <1>11 DEF Withdrawing
    <2> QED
      BY <1>9, <2>1, <2>2, <2>3
  <1>12. CASE p.status = "ok" /\ p.op = "unstake"
    <2>1. /\ Freed(p, staked - n, unstaked + n)
          /\ Booked(0, 0, 0, n, 0, 0, 0, 0) /\ Amounts(0, -n, 0, 0, 0)
      BY <1>12, CalledBackAmounts DEF CalledBack
    <2>2. /\ total_unstaked_and_waiting' = W + ((unstaked + n) - w[a])
          /\ total_actually_staked' = (S + ((staked - n) - s[a])) + staking_in_flight'
      BY <1>2, <1>3, <1>4, <1>5, <1>8, <1>12, <2>1 DEF Booked, Amounts, LedgerTyped
    <2>3. held_at[a].unstaked = unstaked + n /\ staked - n \in Nat /\ unstaked + n \in Nat
      BY <1>2, <1>5, <1>12
    <2> QED
      BY <1>9, <2>1, <2>2, <2>3
  <1>13. CASE p.status = "ok" /\ p.op = "retrieve"
    <2>1. /\ Freed(p, staked, 0)
          /\ Booked(0, 0, 0, -minimum(total_unstaked_and_waiting, n), n, n, 0, 0)
          /\ Amounts(0, 0, -n, 0, 0)
      BY <1>13, CalledBackAmounts DEF CalledBack
    <2>2. /\ total_unstaked_and_waiting' = W + (0 - w[a])
          /\ total_actually_staked' = (S + (staked - s[a])) + staking_in_flight'
      BY <1>2, <1>3, <1>4, <1>5, <1>8, <1>13, <2>1 DEF Booked, Amounts, LedgerTyped, minimum
    <2>3. held_at[a].unstaked = 0 /\ 0 \in Nat
      BY <1>2, <1>5, <1>6, <1>13 DEF Withdrawing
    <2> QED
      BY <1>2, <1>9, <2>1, <2>2, <2>3
  <1>14. CASE p.status = "failed" /\ p.op \in {"stake", "restake"}
    <2>1. /\ Freed(p, staked, unstaked)
          /\ Booked(-n, n, 0, 0, 0, 0, 0, 0) /\ Amounts(-n, 0, 0, 0, 0)
      BY <1>14, CalledBackAmounts DEF CalledBack
    <2>2. /\ total_unstaked_and_waiting' = W + (unstaked - w[a])
          /\ total_actually_staked' = (S + (staked - s[a])) + staking_in_flight'
      BY <1>2, <1>3, <1>4, <1>5, <1>8, <1>14, <2>1 DEF Booked, Amounts, LedgerTyped
    <2>3. held_at[a].unstaked = unstaked
      BY <1>5, <1>14
    <2> QED
      BY <1>2, <1>9, <2>1, <2>2, <2>3
  <1>15. CASE p.status = "failed" /\ p.op = "unstake"
    <2>1. /\ Freed(p, staked, unstaked)
          /\ Booked(n, 0, n, 0, 0, 0, 0, 0) /\ Amounts(0, -n, 0, 0, 0)
      BY <1>15, CalledBackAmounts DEF CalledBack
    <2>2. /\ total_unstaked_and_waiting' = W + (unstaked - w[a])
          /\ total_actually_staked' = (S + (staked - s[a])) + staking_in_flight'
      BY <1>2, <1>3, <1>4, <1>5, <1>8, <1>15, <2>1 DEF Booked, Amounts, LedgerTyped
    <2>3. held_at[a].unstaked = unstaked
      BY <1>5, <1>15
    <2> QED
      BY <1>2, <1>9, <2>1, <2>2, <2>3
  <1>16. CASE p.status = "failed" /\ p.op \in {"retrieve", "rewards"}
    <2>1. /\ Freed(p, staked, unstaked) /\ Unbooked /\ Amounts(0, 0, 0, 0, 0)
      BY <1>16, CalledBackAmounts DEF CalledBack
    <2>2. /\ total_unstaked_and_waiting' = W + (unstaked - w[a])
          /\ total_actually_staked' = (S + (staked - s[a])) + staking_in_flight'
      BY <1>2, <1>3, <1>4, <1>5, <1>8, <1>16, <2>1
      DEF Unbooked, Booked, Amounts, LedgerTyped
    <2>3. held_at[a].unstaked = unstaked
      BY <1>5, <1>16
    <2> QED
      BY <1>2, <1>9, <2>1, <2>2, <2>3
  <1> QED
    BY <1>10, <1>11, <1>12, <1>13, <1>14, <1>15, <1>16 DEF CalledBack

(* A pool that does not round does what it was asked. *)
LEMMA AnsweredTotals ==
  ASSUME Placed, Exact, rounded = 0, rounded' = 0, NEW p \in promises, Answered(p)
  PROVE  Exact'
  <1> SUFFICES ASSUME NEW i, i = p.sp, NEW n, n = p.amount, NEW a, a = account_of(p),
                      NEW y, y = held_at[a].unstaked
               PROVE  Exact'
    OBVIOUS
  <1>1. PICK w, s \in PerPool : Stored(w, s) /\ Totalled(SumFunction(w), SumFunction(s))
    BY DEF Exact
  <1>2. /\ p.status = "sent" /\ UNCHANGED <<staking_pools, pool_accounts, hand_vars>>
        /\ \A b \in Range(PoolAccounts) : b # a => held_at'[b] = held_at[b]
        /\ i \in DOMAIN staking_pools /\ a \in Range(PoolAccounts) /\ a = pool_accounts[i]
        /\ \A q \in promises : q.sp = i => q = p
        /\ n \in Nat
        /\ held_at \in [Range(PoolAccounts) -> [staked : Nat, unstaked : Nat]]
    BY AnsweredFacts, CallFacts DEF Placed, CallsTyped
  <1>3. /\ StoredAt(w, s, i, a) /\ y \in Nat
    BY <1>1, <1>2, StoredFacts, TotalsNat
  <1>4. y = w[a]
    BY <1>2, <1>3 DEF StoredAt
  <1>5. PICK r : /\ Turned(p, r)
                 /\ held_at'[a].unstaked =
                      IF r.status = "ok" /\ r.op = "unstake" THEN y + n
                      ELSE IF r.status = "ok" /\ r.op \in Withdrawing THEN y - n
                      ELSE y
    <2> DEFINE turned(status) ==
                 promises' = (promises \ {p}) \cup {[p EXCEPT !.status = status, !.reply = 0]}
    <2>1. \A status \in {"ok", "failed"} :
            turned(status) /\ (p.op = "rewards" => status = "failed")
              => \E r : Turned(p, r) /\ r.status = status /\ r.op = p.op
      BY <1>2, AnyTurned DEF Turned
    <2>2. ASSUME NEW x, NEW u, Converted(a, x, u)
          PROVE  u \in Int /\ held_at'[a].unstaked = y + u
      BY <1>2, <2>2 DEF Converted
    <2>3. CASE turned("failed") /\ UNCHANGED held_at
      <3>1. PICK r : Turned(p, r) /\ r.status = "failed"
        BY <2>1, <2>3
      <3>2. held_at'[a].unstaked = y
        BY <2>3
      <3> QED
        BY <3>1, <3>2
    <2>4. CASE p.op = "stake" /\ turned("ok") /\ Converted(a, n, 0)
      <3>1. PICK r : Turned(p, r) /\ r.status = "ok" /\ r.op = "stake"
        BY <2>1, <2>4
      <3>2. held_at'[a].unstaked = y
        BY <1>3, <2>2, <2>4
      <3>3. r.op \notin Withdrawing
        BY <3>1 DEF Withdrawing
      <3> QED
        BY <3>1, <3>2, <3>3
    <2>5. CASE /\ p.op \in Withdrawing /\ turned("ok")
               /\ \E x : Converted(a, x, -n)
      <3>1. PICK r : Turned(p, r) /\ r.status = "ok" /\ r.op \in Withdrawing
        BY <2>1, <2>5 DEF Withdrawing
      <3>2. held_at'[a].unstaked = y - n
        BY <1>2, <1>3, <2>2, <2>5
      <3>3. r.op # "unstake"
        BY <3>1 DEF Withdrawing
      <3> QED
        BY <3>1, <3>2, <3>3
    <2>6. CASE /\ p.op = "unstake" /\ turned("ok")
               /\ \E z \in {-1, 0, 1} :
                    /\ Converted(a, -(n + z), n + z)
                    /\ rounded' = rounded + (IF z = 0 THEN 0 ELSE 1)
      <3>1. PICK r : Turned(p, r) /\ r.status = "ok" /\ r.op = "unstake"
        BY <2>1, <2>6
      <3>2. Converted(a, -(n + 0), n + 0)
        BY <2>6
      <3>3. held_at'[a].unstaked = y + n
        BY <1>2, <1>3, <2>2, <3>2
      <3> QED
        BY <3>1, <3>3
    <2> QED
      BY <2>3, <2>4, <2>5, <2>6 DEF Answered, Withdrawing
  <1>6. /\ promises' = (promises \ {p}) \cup {r} /\ r.op = p.op /\ r.sp = i /\ r.amount = n
    BY <1>5 DEF Turned
  <1>7. /\ \A q \in promises' : q.sp = i => q = r
        /\ r \in promises' /\ p \in promises
        /\ \A q \in promises' : q.sp # i => q \in promises
        /\ \A q \in promises : q.sp # i => q \in promises'
    BY <1>2, <1>6
  <1>8. StoredAt(w, s, i, a)'
    <2>1. /\ w[a] = staking_pools'[i].unstaked
          /\ (\A q \in promises' : q.sp = i => q.op # "unstake")
               => s[a] = staking_pools'[i].staked
          /\ \A q \in promises' : q.sp = i /\ q.op = "unstake"
               => s[a] + q.amount = staking_pools'[i].staked
      <3>1. /\ w[a] = staking_pools[i].unstaked
            /\ p.op # "unstake" => s[a] = staking_pools[i].staked
            /\ p.op = "unstake" => s[a] + n = staking_pools[i].staked
        BY <1>2, <1>3 DEF StoredAt
      <3> QED
        BY <1>2, <1>6, <1>7, <3>1
    <2>2. CASE r.status = "ok" /\ r.op \in Withdrawing
      <3>1. r.op # "unstake" /\ held_at'[a].unstaked = y - n
        BY <1>5, <2>2 DEF Withdrawing
      <3>2. held_at'[a].unstaked + n = w[a]
        BY <1>2, <1>3, <1>4, <3>1
      <3> QED
        BY <1>6, <1>7, <2>1, <2>2, <3>1, <3>2 DEF StoredAt
    <2>3. CASE r.status = "ok" /\ r.op = "unstake"
      <3>1. r.op \notin Withdrawing /\ held_at'[a].unstaked = y + n
        BY <1>5, <2>3 DEF Withdrawing
      <3>2. held_at'[a].unstaked = w[a] + n
        BY <1>4, <3>1
      <3> QED
        BY <1>6, <1>7, <2>1, <2>3, <3>1, <3>2 DEF StoredAt
    <2>4. CASE r.status # "ok" \/ r.op \notin Withdrawing \cup {"unstake"}
      <3>1. held_at'[a].unstaked = w[a]
        BY <1>4, <1>5, <2>4
      <3> QED
        BY <1>7, <2>1, <2>4, <3>1 DEF StoredAt
    <2> QED
      BY <2>2, <2>3, <2>4
  <1>9. Stored(w, s)'
    <2>1. DOMAIN staking_pools' = DOMAIN staking_pools /\ UNCHANGED pool_accounts
          /\ \A j \in DOMAIN staking_pools : j # i => staking_pools'[j] = staking_pools[j]
      BY <1>2
    <2> QED
      BY <1>1, <1>2, <1>7, <1>8, <2>1, StoredElsewhere
  <1>10. Totalled(SumFunction(w), SumFunction(s))'
    <2>1. \E k : Booked(0, 0, 0, 0, 0, 0, 0, k)
      BY DEF Answered, Unbooked
    <2>2. \/ Amounts(0, 0, 0, -n, 0) \/ Amounts(0, 0, n, 0, 0) \/ Amounts(0, 0, 0, 0, 0)
      BY <1>2, <1>5, AnsweredAmounts
    <2>3. staking_in_flight \in Nat /\ LedgerTyped
      BY AmountsNat DEF Placed
    <2>4. UNCHANGED <<total_actually_staked, total_unstaked_and_waiting, staking_in_flight>>
      BY <2>1, <2>2, <2>3 DEF Booked, Amounts, LedgerTyped
    <2> QED
      BY <1>1, <2>4 DEF Totalled
  <1> QED
    BY <1>9, <1>10 DEF Exact

(* The other moves leave the totals, the calls and what is held. *)
LEMMA OtherBooks ==
  ASSUME Placed, OtherMove
  PROVE  /\ UNCHANGED <<promises, held_at, rounded>>
         /\ UNCHANGED <<total_actually_staked, total_unstaked_and_waiting, staking_in_flight>>
  <1>1. UNCHANGED <<promises, held_at, rounded>>
    BY DEF OtherMove, Quiet, Queried, PoolAdded, OrdersUndone, PoolRemoved, HandCompleted,
           beside_vars
  <1>2. \/ BalancedStep
        \/ \E k1, k2, k3, k4, k5 : Booked(0, k1, 0, 0, k2, k3, k4, k5)
        \/ UNCHANGED <<stake_vars, claim_vars>>
    BY DEF OtherMove, Quiet, Queried, PoolAdded, OrdersUndone, PoolRemoved, HandCompleted,
           Unbooked
  <1>3. LedgerTyped
    BY DEF Placed
  <1>4. UNCHANGED <<total_actually_staked, total_unstaked_and_waiting>>
    <2>1. CASE BalancedStep
      BY <2>1 DEF BalancedStep, Balanced
    <2>2. CASE \E k1, k2, k3, k4, k5 : Booked(0, k1, 0, 0, k2, k3, k4, k5)
      BY <1>3, <2>2 DEF Booked, LedgerTyped
    <2>3. CASE UNCHANGED <<stake_vars, claim_vars>>
      BY <2>3 DEF stake_vars, claim_vars
    <2> QED
      BY <1>2, <2>1, <2>2, <2>3
  <1>5. UNCHANGED staking_in_flight
    BY <1>1 DEF staking_in_flight
  <1> QED
    BY <1>1, <1>4, <1>5

LEMMA SameListStored ==
  ASSUME Placed, NEW w, NEW s, Stored(w, s),
         UNCHANGED <<promises, held_at, pool_accounts>>,
         DOMAIN staking_pools' = DOMAIN staking_pools,
         \A i \in DOMAIN staking_pools :
           /\ staking_pools'[i].staked = staking_pools[i].staked
           /\ staking_pools'[i].unstaked = staking_pools[i].unstaked
  PROVE  Stored(w, s)'
  <1>1. ASSUME NEW i \in DOMAIN staking_pools' PROVE StoredAt(w, s, i, pool_accounts[i])'
    <2>1. StoredAt(w, s, i, pool_accounts[i])
      BY DEF Stored
    <2>2. PICK a : a = pool_accounts[i]
      OBVIOUS
    <2>3. StoredAt(w, s, i, a)'
      BY <2>1, <2>2, StoredStays
    <2> QED
      BY <2>2, <2>3 DEF StoredAt
  <1> QED
    BY <1>1 DEF Stored

LEMMA QuietStored ==
  ASSUME Placed, Quiet, NEW w, NEW s, Stored(w, s)
  PROVE  Stored(w, s)'
  <1>1. /\ staking_pools' \in Seq(StakingPoolInfo) /\ staking_pools \in Seq(StakingPoolInfo)
        /\ Len(staking_pools') = Len(staking_pools)
        /\ UNCHANGED <<promises, held_at, pool_accounts>>
        /\ \A i \in DOMAIN staking_pools :
             /\ staking_pools'[i].staked = staking_pools[i].staked
             /\ staking_pools'[i].unstaked = staking_pools[i].unstaked
    BY DEF Quiet, SameNear, beside_vars, Placed, PoolsListed
  <1>2. DOMAIN staking_pools' = DOMAIN staking_pools
    BY <1>1, LenProperties
  <1> QED
    BY <1>1, <1>2, SameListStored

(* What a pool tells it holds unstaked is what is recorded. *)
LEMMA QueriedStored ==
  ASSUME Placed, Records, Queried, NEW w, NEW s, Stored(w, s)
  PROVE  Stored(w, s)'
  <1>1. UNCHANGED <<promises, held_at, pool_accounts>>
    BY DEF Queried
  <1>2. CASE UNCHANGED staking_pools
    BY <1>1, <1>2, SameListStored
  <1>3. CASE \E q \in queries :
               /\ q.status = "ok" /\ ~staking_pools[q.sp].busy_lock
               /\ staking_pools' = [staking_pools EXCEPT ![q.sp] = synced(@, q.reply)]
    <2>1. PICK q \in queries :
            /\ q.status = "ok" /\ ~staking_pools[q.sp].busy_lock
            /\ staking_pools' = [staking_pools EXCEPT ![q.sp] = synced(@, q.reply)]
      BY <1>3
    <2> DEFINE i == q.sp
               sp == synced(staking_pools[i], q.reply)
    <2>2. /\ i \in DOMAIN staking_pools /\ q.reply \in Nat
          /\ pool_accounts[i] = q.account
          /\ q.reply = held_at[q.account].unstaked
          /\ staking_pools[i] \in StakingPoolInfo
          /\ staking_pools[i].staked \in Nat
      BY <2>1, Listed DEF Placed, CallsTyped, CallbackFindsItsPool, Query, Records, RepliesTrue
    <2>3. \A p \in promises : p.sp # i
      BY <2>1, CallFacts
    <2>4. q.reply = staking_pools[i].unstaked
      <3>1. StoredAt(w, s, i, q.account)
        BY <2>2 DEF Stored
      <3> QED
        BY <2>2, <2>3, <3>1 DEF StoredAt
    <2>5. /\ sp \in StakingPoolInfo /\ sp.unstaked = staking_pools[i].unstaked
          /\ sp.staked = staking_pools[i].staked
      <3>1. /\ sp \in StakingPoolInfo /\ sp.unstaked = q.reply
            /\ sp.staked = IF q.reply > staking_pools[i].unstaked
                           THEN saturating_sub(staking_pools[i].staked,
                                               q.reply - staking_pools[i].unstaked)
                           ELSE staking_pools[i].staked + (staking_pools[i].unstaked - q.reply)
        BY <2>2, SyncedTyped
      <3> QED
        BY <2>2, <2>4, <3>1
    <2>6. staking_pools' = [staking_pools EXCEPT ![i] = sp]
      BY <2>1
    <2> HIDE DEF sp, i
    <2>7. /\ staking_pools'[i] = sp /\ DOMAIN staking_pools' = DOMAIN staking_pools
          /\ \A j \in DOMAIN staking_pools : j # i => staking_pools'[j] = staking_pools[j]
      BY <2>2, <2>5, <2>6, OneRewritten DEF Placed
    <2>8. \A j \in DOMAIN staking_pools :
            /\ staking_pools'[j].staked = staking_pools[j].staked
            /\ staking_pools'[j].unstaked = staking_pools[j].unstaked
      BY <2>5, <2>7
    <2> QED
      BY <1>1, <2>7, <2>8, SameListStored
  <1> QED
    BY <1>2, <1>3 DEF Queried


(* Nothing is recorded of a pool not yet listed, and it holds nothing. *)
LEMMA PoolAddedStored ==
  ASSUME Placed, Records, PoolAdded, NEW w, NEW s, Stored(w, s)
  PROVE  Stored(w, s)'
  <1> SUFFICES ASSUME NEW k, k = Len(staking_pools) PROVE Stored(w, s)'
    OBVIOUS
  <1>1. /\ k \in Nat /\ DOMAIN staking_pools = 1..k /\ DOMAIN pool_accounts = 1..k
        /\ \A p \in promises : p.sp \in 1..k
    BY Listed, CallFacts DEF Placed
  <1>2. /\ \A j \in DOMAIN staking_pools :
             staking_pools'[j] = staking_pools[j] /\ pool_accounts'[j] = pool_accounts[j]
        /\ DOMAIN staking_pools' = 1..(k + 1) /\ DOMAIN pool_accounts' = 1..(k + 1)
        /\ pool_accounts'[k + 1] \in Range(PoolAccounts) \ Range(pool_accounts)
        /\ staking_pools'[k + 1] = NewStakingPool(0)
    BY PoolAddedFacts
  <1>3. UNCHANGED <<promises, held_at>>
    BY DEF PoolAdded, beside_vars
  <1>4. ASSUME NEW i \in 1..k PROVE StoredAt(w, s, i, pool_accounts[i])'
    <2>1. StoredAt(w, s, i, pool_accounts[i])
      BY <1>1, <1>4 DEF Stored
    <2>2. PICK a : a = pool_accounts[i]
      OBVIOUS
    <2>3. pool_accounts'[i] = a /\ staking_pools'[i] = staking_pools[i]
      BY <1>1, <1>2, <1>4, <2>2
    <2>4. StoredAt(w, s, i, a)'
      BY <1>3, <2>1, <2>2, <2>3, StoredStays
    <2> QED
      BY <2>3, <2>4 DEF StoredAt
  <1>5. StoredAt(w, s, k + 1, pool_accounts[k + 1])'
    <2>1. PICK a \in Range(PoolAccounts) \ Range(pool_accounts) : a = pool_accounts'[k + 1]
      BY <1>2
    <2>2. w[a] = 0 /\ s[a] = 0
      BY DEF Stored
    <2>3. held_at[a].unstaked = 0
      <3>1. total_held(a) = 0
        BY DEF Records, UnlistedEmpty
      <3> QED
        BY <3>1, TotalsNat DEF total_held
    <2>4. staking_pools'[k + 1].staked = 0 /\ staking_pools'[k + 1].unstaked = 0
      BY <1>2 DEF NewStakingPool
    <2>5. \A p \in promises' : p.sp # k + 1
      BY <1>1, <1>3
    <2>6. held_at'[a].unstaked = 0
      BY <1>3, <2>3
    <2>7. StoredAt(w, s, k + 1, a)'
      BY <2>2, <2>4, <2>5, <2>6 DEF StoredAt
    <2> QED
      BY <2>1, <2>7 DEF StoredAt
  <1>6. ASSUME NEW i \in DOMAIN staking_pools' PROVE StoredAt(w, s, i, pool_accounts[i])'
    <2>1. i = k + 1 \/ i \in 1..k
      BY <1>1, <1>2
    <2> QED
      BY <1>4, <1>5, <2>1
  <1>7. ASSUME NEW a \in Range(PoolAccounts), a \notin Range(pool_accounts)'
        PROVE  w[a] = 0 /\ s[a] = 0
    <2>1. a \notin Range(pool_accounts)
      BY <1>1, <1>2, <1>7 DEF Range
    <2> QED
      BY <2>1 DEF Stored
  <1> QED
    BY <1>6, <1>7 DEF Stored

(* And nothing is left recorded of the pool removed. *)
LEMMA PoolRemovedStored ==
  ASSUME Placed, NEW i \in DOMAIN staking_pools, PoolRemoved(i),
         NEW w, NEW s, Stored(w, s)
  PROVE  Stored(w, s)'
  <1> SUFFICES ASSUME NEW m, m = Len(staking_pools) PROVE Stored(w, s)'
    OBVIOUS
  <1>1. /\ m \in Nat /\ DOMAIN staking_pools = 1..m /\ DOMAIN pool_accounts = 1..m
        /\ i \in 1..m
    BY Listed DEF Placed
  <1>2. /\ DOMAIN staking_pools' = 1..(m - 1) /\ DOMAIN pool_accounts' = 1..(m - 1)
        /\ \A j \in 1..(m - 1) :
             /\ staking_pools'[j] = IF j < i THEN staking_pools[j] ELSE staking_pools[j + 1]
             /\ pool_accounts'[j] = IF j < i THEN pool_accounts[j] ELSE pool_accounts[j + 1]
        /\ \A p \in promises : p.sp < i
    BY PoolRemovedFacts
  <1>3. /\ UNCHANGED <<promises, held_at>>
        /\ staking_pools[i].staked = 0 /\ staking_pools[i].unstaked = 0
    BY DEF PoolRemoved, beside_vars
  <1>4. ASSUME NEW j \in 1..(m - 1) PROVE StoredAt(w, s, j, pool_accounts[j])'
    <2> DEFINE from == IF j < i THEN j ELSE j + 1
    <2>1. /\ from \in 1..m /\ staking_pools'[j] = staking_pools[from]
          /\ pool_accounts'[j] = pool_accounts[from]
      BY <1>1, <1>2
    <2>2. \A p \in promises : p.sp = from <=> p.sp = j
      BY <1>1, <1>2, CallFacts
    <2>3. PICK k \in 1..m : k = from
      BY <2>1
    <2> HIDE DEF from
    <2>4. PICK a : a = pool_accounts[k]
      OBVIOUS
    <2>5. StoredAt(w, s, k, a)
      BY <1>1, <2>4 DEF Stored
    <2>6. staking_pools'[j] = staking_pools[k] /\ pool_accounts'[j] = a
      BY <2>1, <2>3, <2>4
    <2>7. StoredAt(w, s, j, a)'
      BY <1>3, <2>2, <2>3, <2>5, <2>6, StoredStays
    <2> QED
      BY <2>6, <2>7 DEF StoredAt
  <1>5. ASSUME NEW a \in Range(PoolAccounts), a \notin Range(pool_accounts)'
        PROVE  w[a] = 0 /\ s[a] = 0
    <2>1. CASE a = pool_accounts[i]
      <3>1. StoredAt(w, s, i, a)
        BY <2>1 DEF Stored
      <3>2. \A p \in promises : p.sp # i
        BY <1>1, <1>2
      <3> QED
        BY <1>3, <3>1, <3>2 DEF StoredAt
    <2>2. CASE a # pool_accounts[i]
      <3>1. ASSUME NEW j \in 1..m PROVE a # pool_accounts[j]
        <4>1. CASE j < i
          <5>1. j \in 1..(m - 1) /\ pool_accounts'[j] = pool_accounts[j]
            BY <1>1, <1>2, <4>1
          <5> QED
            BY <1>2, <1>5, <5>1 DEF Range
        <4>2. CASE j > i
          <5>1. j - 1 \in 1..(m - 1) /\ ~(j - 1 < i) /\ (j - 1) + 1 = j
            BY <1>1, <4>2
          <5>2. pool_accounts'[j - 1] = pool_accounts[j]
            BY <1>2, <5>1
          <5> QED
            BY <1>2, <1>5, <5>1, <5>2 DEF Range
        <4>3. CASE j = i
          BY <2>2, <4>3
        <4> QED
          BY <1>1, <4>1, <4>2, <4>3
      <3>2. a \notin Range(pool_accounts)
        BY <1>1, <3>1 DEF Range
      <3> QED
        BY <3>2 DEF Stored
    <2> QED
      BY <2>1, <2>2
  <1> QED
    BY <1>2, <1>4, <1>5 DEF Stored


(* Whatever the list becomes, what is stored of its pools stays so. *)
LEMMA OtherStored ==
  ASSUME Placed, Records, OtherMove, NEW w, NEW s, Stored(w, s)
  PROVE  Stored(w, s)'
  <1>1. CASE Quiet
    BY <1>1, QuietStored
  <1>2. CASE Queried
    BY <1>2, QueriedStored
  <1>3. CASE PoolAdded
    BY <1>3, PoolAddedStored
  <1>4. CASE \E i \in DOMAIN staking_pools : PoolRemoved(i)
    BY <1>4, PoolRemovedStored
  <1>5. CASE OrdersUndone \/ \E i \in DOMAIN staking_pools : HandCompleted(i)
    <2>1. UNCHANGED <<promises, held_at, staking_pools, pool_accounts>>
      BY <1>5 DEF OrdersUndone, HandCompleted, beside_vars
    <2> QED
      BY <2>1, SameListStored
  <1> QED
    BY <1>1, <1>2, <1>3, <1>4, <1>5 DEF OtherMove

LEMMA MoveKeepsTotals ==
  ASSUME Placed, LedgerTyped', Move, Records, Totals
  PROVE  Totals'
  <1>1. rounded \in Nat
    BY DEF Placed, CallsTyped
  <1> SUFFICES ASSUME rounded' = 0 PROVE Exact'
    BY DEF Totals
  <1>2. ASSUME NEW i, NEW op, NEW n, NEW manual, Sent(i, op, n, manual)
        PROVE  Exact'
    BY <1>2, SentTotals DEF Totals, Sent
  <1>3. ASSUME NEW p \in promises, CalledBack(p)
        PROVE  Exact'
    <2>1. UNCHANGED rounded
      BY <1>3 DEF CalledBack, Freed, beside_vars
    <2> QED
      BY <1>3, <2>1, CalledBackTotals DEF Totals
  <1>4. ASSUME NEW p \in promises, Answered(p)
        PROVE  Exact'
    <2>1. \/ UNCHANGED rounded
          \/ \E r \in {-1, 0, 1} : rounded' = rounded + (IF r = 0 THEN 0 ELSE 1)
      BY <1>4, Zenon DEF Answered
    <2>2. rounded = 0
      BY <1>1, <2>1
    <2> QED
      BY <1>4, <2>2, AnsweredTotals DEF Totals
  <1>5. CASE OtherMove
    <2>1. /\ UNCHANGED rounded
          /\ UNCHANGED <<total_actually_staked, total_unstaked_and_waiting, staking_in_flight>>
      BY <1>5, OtherBooks
    <2>2. PICK w, s \in PerPool : Stored(w, s) /\ Totalled(SumFunction(w), SumFunction(s))
      BY <2>1 DEF Totals, Exact
    <2>3. Stored(w, s)'
      BY <1>5, <2>2, OtherStored
    <2>4. Totalled(SumFunction(w), SumFunction(s))'
      BY <2>1, <2>2 DEF Totalled
    <2> QED
      BY <2>3, <2>4 DEF Exact
  <1> QED
    BY <1>2, <1>3, <1>4, <1>5 DEF Move, OtherMove

LEMMA InitTotals == OperatorInit => Totals
  <1> SUFFICES ASSUME OperatorInit PROVE Exact
    BY DEF Totals
  <1> DEFINE none == [a \in Range(PoolAccounts) |-> 0]
  <1>1. /\ promises = {}
        /\ held_at = [a \in Range(PoolAccounts) |-> [staked |-> 0, unstaked |-> 0]]
        /\ staking_pools = [i \in DOMAIN Weights |-> NewStakingPool(Weights[i])]
        /\ total_unstaked_and_waiting = 0 /\ total_actually_staked = 0
    BY DEF OperatorInit, Init
  <1>2. none \in PerPool /\ SumFunction(none) = 0
    BY PoolSumZero DEF PerPool
  <1>3. staking_in_flight = 0
    <2>1. promises \cap Staking = {}
      BY <1>1
    <2> QED
      BY <2>1, NoCalls DEF staking_in_flight
  <1>4. ASSUME NEW i \in DOMAIN staking_pools PROVE StoredAt(none, none, i, pool_accounts[i])
    <2>1. PICK a \in Range(PoolAccounts) : a = pool_accounts[i]
      BY InitPlaced, Listed DEF Placed
    <2>2. /\ staking_pools[i].staked = 0 /\ staking_pools[i].unstaked = 0
          /\ held_at[a].unstaked = 0 /\ none[a] = 0
      BY <1>1 DEF NewStakingPool
    <2> HIDE DEF none
    <2>3. StoredAt(none, none, i, a)
      BY <1>1, <2>2 DEF StoredAt
    <2> QED
      BY <2>1, <2>3
  <1>5. Stored(none, none)
    BY <1>4 DEF Stored
  <1> HIDE DEF none
  <1>6. Totalled(SumFunction(none), SumFunction(none))
    BY <1>1, <1>2, <1>3 DEF Totalled
  <1> QED
    BY <1>2, <1>5, <1>6 DEF Exact

LEMMA TotalsAlways == OperatorSpec => []Totals
  <1>1. Placed /\ Records /\ Totals /\ [OperatorNext]_operator_vars => Totals'
    BY EveryMove, MoveKeepsTotals
  <1> QED
    BY <1>1, InitTotals, RecordsAlways, PlacedAlways, PTL DEF OperatorSpec


(* Without rounding no total is less than what a callback takes from it, so  *)
(* only a view that failed panics ("this method SHOULD NOT PANIC",           *)
(* distribute.rs:155), wherever the operator moved pools, indexes and        *)
(* orders. A unit that was rounded and then synchronized is recorded of its  *)
(* pool and not in the total, which restaking it would take it from.         *)
THEOREM OnlyViewsCanPanic == OperatorSpec => [](rounded = 0 => OnlyViewsPanic)
  <1>1. ASSUME Placed, Books, Exact, NEW p \in promises, p.op # "rewards"
        PROVE  callback_completes(p)
    <2> SUFFICES ASSUME NEW i, i = p.sp, NEW n, n = p.amount, NEW a, a = account_of(p)
                 PROVE  callback_completes(p)
      OBVIOUS
    <2>1. /\ n \in Nat /\ p \in AnyCall /\ i \in DOMAIN staking_pools
          /\ a = pool_accounts[i] /\ CallCovered(p)
          /\ staking_pools[i].staked \in Nat /\ staking_pools[i].unstaked \in Nat
      BY <1>1, CallFacts
    <2>2. PICK w, s \in PerPool : Stored(w, s) /\ Totalled(SumFunction(w), SumFunction(s))
      BY <1>1 DEF Exact
    <2>3. /\ StoredAt(w, s, i, a)
          /\ w[a] \in Nat /\ SumFunction(w) \in Nat /\ SumFunction(s) \in Nat
          /\ w[a] <= SumFunction(w)
      BY <1>1, <2>1, <2>2, StoredFacts
    <2>4. CASE p.op = "unstake"
      <3>1. n <= staking_pools[i].staked
        BY <2>1, <2>4 DEF CallCovered
      <3> QED
        BY <2>4, <3>1 DEF callback_completes
    <2>5. CASE p.op = "retrieve"
      BY <2>5 DEF callback_completes
    <2>6. CASE p.op \in {"stake", "restake"}
      <3>1. n <= staking_in_flight /\ staking_in_flight \in Nat
        <4>1. p \in promises \cap Staking
          BY <2>1, <2>6 DEF Staking
        <4>2. IsFiniteSet(promises \cap Staking)
          BY <1>1, FS_Subset DEF Placed, CallsTyped
        <4>3. \A q \in promises \cap Staking : q.amount \in Nat
          BY <1>1 DEF Placed, CallsTyped, AnyCall
        <4> QED
          BY <4>1, <4>2, <4>3, CallsNat DEF staking_in_flight
      <3>2. n <= total_actually_staked
        BY <2>1, <2>2, <2>3, <3>1 DEF Totalled
      <3>3. n <= contract_account_balance
        BY <1>1, <2>1, <3>1 DEF Placed, LedgerTyped, Books, CashHeld
      <3>4. p.op = "restake" =>
              n <= staking_pools[i].unstaked /\ n <= total_unstaked_and_waiting
        BY <2>1, <2>2, <2>3 DEF CallCovered, StoredAt, Totalled
      <3> QED
        BY <2>6, <3>2, <3>3, <3>4 DEF callback_completes
    <2> QED
      BY <1>1, <2>1, <2>4, <2>5, <2>6 DEF AnyCall, Operation
  <1>2. Placed /\ Books /\ Totals => (rounded = 0 => OnlyViewsPanic)
    BY <1>1, CallFacts DEF Totals, OnlyViewsPanic
  <1> QED
    BY <1>2, TotalsAlways, BooksAlways, PlacedAlways, PTL
=============================================================================
