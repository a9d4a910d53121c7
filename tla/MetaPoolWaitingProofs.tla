------------------------ MODULE MetaPoolWaitingProofs ------------------------
(***************************************************************************)
(* NEAR that waits in a pool is made to wait longer only by as many epochs  *)
(* as the call that does it was open, for every list of pools, whoever      *)
(* calls the heartbeat and in whatever order, and however late a callback   *)
(* is. An unstaking is sent only to a pool that does not wait or whose wait *)
(* began in that epoch, and the locks keep the pool's record as it was      *)
(* until the callback, while epochs pass.                                   *)
(***************************************************************************)
EXTENDS MetaPoolWaiting, MetaPoolBookProofs

requested_in(i) == staking_pools[i].unstk_req_epoch_height

(* No unstaking is recorded for an epoch still to come, no call was sent in one. *)
NoneAhead ==
  /\ called_in \in Nat /\ called_in <= epoch_height
  /\ \A i \in DOMAIN staking_pools : requested_in(i) <= epoch_height

(* An unstaking under way was sent when its pool did not wait, or only since. *)
SentInTime ==
  \A p \in promises :
    p.op = "unstake" =>
      \/ called_in >= requested_in(p.sp) + NumEpochsToUnlock
      \/ called_in = requested_in(p.sp)

OnTime == NoneAhead /\ SentInTime

-----------------------------------------------------------------------------
(* What a step may do to the waiting of the pools. *)
SameWaiting ==
  /\ DOMAIN staking_pools' = DOMAIN staking_pools
  /\ \A i \in DOMAIN staking_pools :
       staking_pools'[i].unstk_req_epoch_height = requested_in(i)

(* A call has started; an unstaking of a pool that may unstake. *)
CallStarts ==
  /\ SameWaiting /\ UNCHANGED epoch_height
  /\ call_sent
  /\ \A p \in promises' :
       p.sp \in DOMAIN staking_pools
         /\ (p.op = "unstake" => \/ epoch_height >= requested_in(p.sp) + NumEpochsToUnlock
                                 \/ epoch_height = requested_in(p.sp))

NoCallStarts ==
  /\ SameWaiting /\ UNCHANGED epoch_height
  /\ ~call_sent
  /\ \A p \in promises' : \E q \in promises : p.op = q.op /\ p.sp = q.sp

EpochEnds == UNCHANGED pool_vars /\ epoch_height' = epoch_height + 1

(* The call there was has ended: less waits in its pool, since the same      *)
(* epoch, or what was unstaked waits from now on.                            *)
CallEnds ==
  /\ promises' = {} /\ UNCHANGED epoch_height
  /\ DOMAIN staking_pools' = DOMAIN staking_pools
  /\ \A i \in DOMAIN staking_pools :
       \/ staking_pools'[i].unstk_req_epoch_height = requested_in(i)
       \/ /\ \E p \in promises : p.op = "unstake" /\ p.sp = i
          /\ staking_pools'[i].unstk_req_epoch_height = epoch_height

WaitingStep == CallStarts \/ NoCallStarts \/ EpochEnds \/ CallEnds

LEMMA WaitingValues ==
  ASSUME TypeOK, NEW i \in DOMAIN staking_pools
  PROVE  requested_in(i) \in Nat /\ epoch_height \in Nat /\ NumEpochsToUnlock \in Nat
  BY PoolRecords, Constants DEF TypeOK, StakingPoolInfo, requested_in

LEMMA LockStarts ==
  ASSUME TypeOK, OneCallInFlight, NEW i \in DOMAIN staking_pools, NEW op, NEW n,
         ~contract_busy, lock_and_call(i, Call(op, i, n)), UNCHANGED epoch_height,
         op = "unstake" => \/ epoch_height >= requested_in(i) + NumEpochsToUnlock
                           \/ epoch_height = requested_in(i)
  PROVE  CallStarts
  <1> DEFINE c == Call(op, i, n)
  <1>1. promises = {} /\ promises' = {c} /\ c.op = op /\ c.sp = i /\ c.status = "sent"
    BY NoneInFlight DEF lock_and_call, Call
  <1>2. staking_pools' = [staking_pools EXCEPT ![i].busy_lock = TRUE]
    BY DEF lock_and_call
  <1>3. SameWaiting
    BY <1>2, PoolRecords DEF SameWaiting, requested_in, StakingPoolInfo
  <1> HIDE DEF c
  <1>4. call_sent
    BY <1>1 DEF call_sent
  <1> QED
    BY <1>1, <1>3, <1>4 DEF CallStarts

LEMMA SamePoolsWait ==
  ASSUME UNCHANGED pool_vars, UNCHANGED epoch_height
  PROVE  NoCallStarts
  BY DEF pool_vars, NoCallStarts, SameWaiting, requested_in, call_sent

(* The pool chosen to unstake is not one that waits since an earlier epoch. *)
LEMMA ChosenMayUnstake ==
  ASSUME TypeOK, NEW i \in DOMAIN staking_pools, is_most_unbalanced(i, unstake_imbalance),
         requested_in(i) <= epoch_height
  PROVE  \/ epoch_height >= requested_in(i) + NumEpochsToUnlock
         \/ epoch_height = requested_in(i)
  <1>1. required_unstake(staking_pools[i]) > 0
    BY DEF is_most_unbalanced, unstake_imbalance
  <1>2. may_unstake(staking_pools[i])
    BY <1>1 DEF required_unstake
  <1> QED
    BY <1>2, WaitingValues DEF may_unstake, wait_period_ended, requested_in

LEMMA HeartbeatWaiting ==
  ASSUME TypeOK, OneCallInFlight, NoneAhead, HeartbeatCall
  PROVE  WaitingStep
  <1>1. CASE distribute_staking_clearing \/ end_of_epoch_clearing
    <2>1. UNCHANGED pool_vars /\ UNCHANGED epoch_height
      BY <1>1 DEF distribute_staking_clearing, end_of_epoch_clearing
    <2> QED
      BY <2>1, SamePoolsWait DEF WaitingStep
  <1>2. CASE distribute_staking_call
    <2>1. PICK i \in DOMAIN staking_pools : \E n :
            lock_and_call(i, Call("stake", i, n)) \/ lock_and_call(i, Call("restake", i, n))
      BY <1>2 DEF distribute_staking_call, direct_stake
    <2>2. PICK n :
            lock_and_call(i, Call("stake", i, n)) \/ lock_and_call(i, Call("restake", i, n))
      BY <2>1
    <2>3. ~contract_busy /\ UNCHANGED epoch_height
      BY <1>2 DEF distribute_staking_call
    <2> QED
      BY <2>2, <2>3, LockStarts DEF WaitingStep
  <1>3. CASE distribute_unstaking
    <2>1. PICK i \in DOMAIN staking_pools : \E n :
            is_most_unbalanced(i, unstake_imbalance) /\ lock_and_call(i, Call("unstake", i, n))
      BY <1>3 DEF distribute_unstaking, direct_unstake
    <2>2. PICK n : lock_and_call(i, Call("unstake", i, n))
      BY <2>1
    <2>3. ~contract_busy /\ UNCHANGED epoch_height
      BY <1>3 DEF distribute_unstaking
    <2>4. \/ epoch_height >= requested_in(i) + NumEpochsToUnlock
          \/ epoch_height = requested_in(i)
      BY <2>1, ChosenMayUnstake DEF NoneAhead
    <2> QED
      BY <2>2, <2>3, <2>4, LockStarts DEF WaitingStep
  <1>4. CASE \E i \in DOMAIN staking_pools : retrieve_funds_from_a_pool(i)
    BY <1>4, LockStarts DEF retrieve_funds_from_a_pool, free_to_call, WaitingStep
  <1>5. CASE \E i \in AskedPools \cap DOMAIN staking_pools : distribute_rewards(i)
    BY <1>5, LockStarts DEF distribute_rewards, free_to_call, WaitingStep
  <1> QED
    BY <1>1, <1>2, <1>3, <1>4, <1>5 DEF HeartbeatCall, distribute_staking

LEMMA UnlockEnds ==
  ASSUME TypeOK, OneCallInFlight, NEW p \in promises, NEW sp, unlock_with(p, sp),
         UNCHANGED epoch_height,
         sp \in StakingPoolInfo,
         \/ sp.unstk_req_epoch_height = staking_pools[p.sp].unstk_req_epoch_height
         \/ p.op = "unstake" /\ sp.unstk_req_epoch_height = epoch_height
  PROVE  CallEnds
  <1> DEFINE freed == [sp EXCEPT !.busy_lock = FALSE]
  <1>1. promises' = {}
    BY OnlyOne DEF unlock_with
  <1>2. p.sp \in DOMAIN staking_pools /\ freed.unstk_req_epoch_height = sp.unstk_req_epoch_height
    BY Promises DEF StakingPoolInfo
  <1>3. staking_pools' = [staking_pools EXCEPT ![p.sp] = freed]
    BY DEF unlock_with
  <1> HIDE DEF freed
  <1> QED
    BY <1>1, <1>2, <1>3, PoolRecords DEF CallEnds, requested_in

LEMMA CallbackWaiting ==
  ASSUME TypeOK, OneCallInFlight, Callback
  PROVE  WaitingStep
  <1>1. PICK p \in promises :
          \/ on_staking_pool_stake_maybe_deposit(p)
          \/ on_staking_pool_unstake(p)
          \/ on_retrieve_from_staking_pool(p)
          \/ on_get_sp_total_balance(p)
          \/ on_get_sp_total_balance_panics(p)
    BY DEF Callback
  <1> DEFINE sp == staking_pools[p.sp]
  <1>2. /\ sp \in StakingPoolInfo /\ sp.staked \in Nat /\ sp.unstaked \in Nat
        /\ p.amount \in Nat /\ p.reply \in Nat /\ epoch_height \in Nat
    BY Promises DEF TypeOK
  <1>3. CASE on_staking_pool_stake_maybe_deposit(p)
    <2>1. UNCHANGED epoch_height
      BY <1>3 DEF on_staking_pool_stake_maybe_deposit
    <2>2. CASE unlock_with(p, sp)
      BY <1>2, <2>1, <2>2, UnlockEnds DEF WaitingStep
    <2>3. CASE unlock_with(p, [sp EXCEPT !.staked = @ + p.amount])
      <3>1. [sp EXCEPT !.staked = @ + p.amount] \in StakingPoolInfo
        BY <1>2 DEF StakingPoolInfo
      <3>2. [sp EXCEPT !.staked = @ + p.amount].unstk_req_epoch_height
              = sp.unstk_req_epoch_height
        BY <1>2 DEF StakingPoolInfo
      <3> QED
        BY <2>1, <2>3, <3>1, <3>2, UnlockEnds DEF WaitingStep
    <2>4. CASE /\ p.amount <= sp.unstaked
               /\ unlock_with(p, [sp EXCEPT !.staked = @ + p.amount, !.unstaked = @ - p.amount])
      <3> DEFINE after == [sp EXCEPT !.staked = @ + p.amount, !.unstaked = @ - p.amount]
      <3>1. /\ after \in StakingPoolInfo
            /\ after.unstk_req_epoch_height = sp.unstk_req_epoch_height
        <4>1. sp.staked + p.amount \in Nat /\ sp.unstaked - p.amount \in Nat
          BY <1>2, <2>4
        <4> HIDE DEF sp
        <4> QED
          BY <1>2, <4>1 DEF StakingPoolInfo
      <3>2. unlock_with(p, after)
        BY <2>4
      <3> HIDE DEF after
      <3> QED
        BY <2>1, <3>1, <3>2, UnlockEnds DEF WaitingStep
    <2> QED
      BY <1>3, <2>2, <2>3, <2>4 DEF on_staking_pool_stake_maybe_deposit
  <1>4. CASE on_staking_pool_unstake(p)
    <2>1. UNCHANGED epoch_height /\ p.op = "unstake"
      BY <1>4 DEF on_staking_pool_unstake
    <2>2. CASE unlock_with(p, sp)
      BY <1>2, <2>1, <2>2, UnlockEnds DEF WaitingStep
    <2> DEFINE after == [sp EXCEPT !.staked = @ - p.amount,
                                   !.unstaked = @ + p.amount,
                                   !.unstk_req_epoch_height = epoch_height]
    <2>3. CASE p.amount <= sp.staked /\ unlock_with(p, after)
      <3>1. after \in StakingPoolInfo /\ after.unstk_req_epoch_height = epoch_height
        <4>1. sp.staked - p.amount \in Nat /\ sp.unstaked + p.amount \in Nat
          BY <1>2, <2>3
        <4> HIDE DEF sp
        <4> QED
          BY <1>2, <4>1 DEF StakingPoolInfo
      <3>2. unlock_with(p, after)
        BY <2>3
      <3> HIDE DEF after
      <3> QED
        BY <2>1, <3>1, <3>2, UnlockEnds DEF WaitingStep
    <2> QED
      BY <1>4, <2>2, <2>3 DEF on_staking_pool_unstake
  <1>5. CASE on_retrieve_from_staking_pool(p)
    <2>1. UNCHANGED epoch_height
      BY <1>5 DEF on_retrieve_from_staking_pool
    <2>2. CASE unlock_with(p, sp)
      BY <1>2, <2>1, <2>2, UnlockEnds DEF WaitingStep
    <2>3. CASE unlock_with(p, [sp EXCEPT !.unstaked = 0])
      <3>1. /\ [sp EXCEPT !.unstaked = 0] \in StakingPoolInfo
            /\ [sp EXCEPT !.unstaked = 0].unstk_req_epoch_height = sp.unstk_req_epoch_height
        BY <1>2 DEF StakingPoolInfo
      <3> QED
        BY <2>1, <2>3, <3>1, UnlockEnds DEF WaitingStep
    <2> QED
      BY <1>5, <2>2, <2>3 DEF on_retrieve_from_staking_pool
  <1>6. CASE on_get_sp_total_balance(p)
    <2> DEFINE after == [sp EXCEPT !.staked = p.reply - sp.unstaked,
                                   !.last_asked_rewards_epoch_height = epoch_height]
    <2>1. UNCHANGED epoch_height /\ sp.unstaked <= p.reply /\ unlock_with(p, after)
      BY <1>6 DEF on_get_sp_total_balance
    <2>2. /\ after \in StakingPoolInfo
          /\ after.unstk_req_epoch_height = sp.unstk_req_epoch_height
      <3>1. p.reply - sp.unstaked \in Nat
        BY <1>2, <2>1
      <3> HIDE DEF sp
      <3> QED
        BY <1>2, <3>1 DEF StakingPoolInfo
    <2> HIDE DEF after
    <2> QED
      BY <2>1, <2>2, UnlockEnds DEF WaitingStep
  <1>7. CASE on_get_sp_total_balance_panics(p)
    BY <1>7 DEF on_get_sp_total_balance_panics, WaitingStep, NoCallStarts, SameWaiting,
                requested_in, call_sent
  <1> QED
    BY <1>1, <1>3, <1>4, <1>5, <1>6, <1>7

LEMMA EnvironmentWaiting ==
  ASSUME TypeOK, Environment
  PROVE  WaitingStep
  <1>1. CASE \E p \in promises : pool_performs(p) \/ pool_fails(p)
    <2>1. PICK p \in promises :
            /\ \E status \in {"ok", "failed"} : \E reply : resolved(p, status, reply)
            /\ UNCHANGED <<staking_pools, epoch_height>>
      BY <1>1 DEF pool_performs, pool_fails
    <2>2. PICK status \in {"ok", "failed"} : \E reply : resolved(p, status, reply)
      BY <2>1
    <2>3. PICK reply : resolved(p, status, reply)
      BY <2>2
    <2> DEFINE q == [p EXCEPT !.status = status, !.reply = reply]
    <2>4. q.op = p.op /\ q.sp = p.sp /\ q.status = status
      BY Promises DEF Promise
    <2>5. promises' = (promises \ {p}) \cup {q}
      BY <2>3 DEF resolved
    <2> HIDE DEF q
    <2>6. ~call_sent /\ \A r \in promises' : \E s \in promises : r.op = s.op /\ r.sp = s.sp
      BY <2>2, <2>4, <2>5 DEF call_sent
    <2> QED
      BY <2>1, <2>6 DEF WaitingStep, NoCallStarts, SameWaiting, requested_in
  <1>2. CASE transfer_arrives
    BY <1>2, SamePoolsWait DEF transfer_arrives, WaitingStep
  <1>3. CASE next_epoch
    BY <1>3 DEF next_epoch, WaitingStep, EpochEnds
  <1> QED
    BY <1>1, <1>2, <1>3 DEF Environment

LEMMA EveryWaiting ==
  ASSUME TypeOK, OneCallInFlight, NoneAhead, [Next]_vars
  PROVE  WaitingStep
  <1>1. CASE UserStep
    <2>1. UNCHANGED pool_vars
      BY <1>1, UserMoves DEF BalancedStep, Balanced
    <2>2. UNCHANGED epoch_height
      <3>1. ASSUME NEW u, NEW a,
                   \/ deposit_and_stake(u, a) \/ unstake(u, a) \/ withdraw(u, a)
                   \/ liquid_unstake(u, a) \/ nslp_add_liquidity(u, a)
                   \/ nslp_remove_liquidity(u, a)
            PROVE  UNCHANGED epoch_height
        BY <3>1 DEF deposit_and_stake, unstake, withdraw, liquid_unstake,
                    nslp_add_liquidity, nslp_remove_liquidity
      <3> QED
        BY <1>1, <3>1 DEF UserStep, unstake_all, withdraw_unstaked
    <2> QED
      BY <2>1, <2>2, SamePoolsWait DEF WaitingStep
  <1>2. CASE UNCHANGED vars
    BY <1>2, SamePoolsWait DEF vars, WaitingStep
  <1> QED
    BY <1>1, <1>2, HeartbeatWaiting, CallbackWaiting, EnvironmentWaiting DEF Next

-----------------------------------------------------------------------------
(* A step of the meta-pool with the epoch of its call noted, or a stutter. *)
noted_step == [Next /\ note_call]_waiting_vars

LEMMA NotedMeans ==
  ASSUME noted_step
  PROVE  [Next]_vars /\ (note_call \/ UNCHANGED waiting_vars)
  BY DEF noted_step, waiting_vars

LEMMA StaysOnTime ==
  ASSUME TypeOK, OneCallInFlight, OnTime, noted_step
  PROVE  OnTime'
  <1>1. WaitingStep
    BY NotedMeans, EveryWaiting DEF OnTime
  <1>2. called_in' = (IF call_sent THEN epoch_height ELSE called_in)
    BY NotedMeans DEF note_call, waiting_vars, vars, pool_vars, call_sent
  <1>3. epoch_height \in Nat /\ called_in \in Nat /\ called_in <= epoch_height
    BY DEF TypeOK, OnTime, NoneAhead
  <1>4. CASE CallStarts
    <2>1. called_in' = epoch_height
      BY <1>2, <1>4 DEF CallStarts
    <2> QED
      BY <1>3, <1>4, <2>1 DEF CallStarts, SameWaiting, OnTime, NoneAhead, SentInTime,
                              requested_in
  <1>5. CASE NoCallStarts
    <2>1. called_in' = called_in
      BY <1>2, <1>5 DEF NoCallStarts
    <2>2. \A p \in promises : p.sp \in DOMAIN staking_pools
      BY Promises
    <2> QED
      BY <1>3, <1>5, <2>1, <2>2 DEF NoCallStarts, SameWaiting, OnTime, NoneAhead, SentInTime,
                                    requested_in
  <1>6. CASE EpochEnds
    <2>1. ~call_sent /\ called_in' = called_in
      BY <1>2, <1>6 DEF EpochEnds, pool_vars, call_sent
    <2>2. \A i \in DOMAIN staking_pools : requested_in(i) <= epoch_height + 1
      BY <1>3, WaitingValues DEF OnTime, NoneAhead
    <2> QED
      BY <1>3, <1>6, <2>1, <2>2 DEF EpochEnds, pool_vars, OnTime, NoneAhead, SentInTime,
                                    requested_in
  <1>7. CASE CallEnds
    <2>1. ~call_sent /\ called_in' = called_in
      BY <1>2, <1>7 DEF CallEnds, call_sent
    <2>2. \A i \in DOMAIN staking_pools :
            staking_pools'[i].unstk_req_epoch_height <= epoch_height
      BY <1>3, <1>7 DEF CallEnds, OnTime, NoneAhead
    <2> QED
      BY <1>3, <1>7, <2>1, <2>2 DEF CallEnds, OnTime, NoneAhead, SentInTime, requested_in
  <1> QED
    BY <1>1, <1>4, <1>5, <1>6, <1>7 DEF WaitingStep

LEMMA ProlongedByTheCall ==
  ASSUME TypeOK, OneCallInFlight, OnTime, noted_step,
         NEW i \in DOMAIN staking_pools, still_waiting(staking_pools[i])
  PROVE  staking_pools'[i].unstk_req_epoch_height
           <= staking_pools[i].unstk_req_epoch_height + (epoch_height - called_in)
  <1>1. WaitingStep
    BY NotedMeans, EveryWaiting DEF OnTime
  <1>2. /\ requested_in(i) \in Nat /\ epoch_height \in Nat /\ NumEpochsToUnlock \in Nat
        /\ called_in \in Nat /\ called_in <= epoch_height
    BY WaitingValues DEF OnTime, NoneAhead
  <1>3. epoch_height < requested_in(i) + NumEpochsToUnlock
    BY <1>2 DEF still_waiting, wait_period_ended, requested_in
  <1>4. CASE staking_pools'[i].unstk_req_epoch_height = requested_in(i)
    BY <1>2, <1>4 DEF requested_in
  <1>5. CASE /\ \E p \in promises : p.op = "unstake" /\ p.sp = i
             /\ staking_pools'[i].unstk_req_epoch_height = epoch_height
    <2>1. called_in = requested_in(i)
      BY <1>2, <1>3, <1>5 DEF OnTime, SentInTime
    <2> QED
      BY <1>2, <1>5, <2>1 DEF requested_in
  <1> QED
    BY <1>1, <1>4, <1>5 DEF WaitingStep, CallStarts, NoCallStarts, SameWaiting, EpochEnds,
                            pool_vars, CallEnds, requested_in

LEMMA InitOnTime == Init /\ called_in = epoch_height => OnTime
  <1> SUFFICES ASSUME Init, called_in = epoch_height PROVE OnTime
    OBVIOUS
  <1>1. /\ promises = {} /\ epoch_height \in Nat
        /\ staking_pools = [i \in DOMAIN Weights |-> NewStakingPool(Weights[i])]
    BY InitTyped DEF Init, TypeOK
  <1>2. \A i \in DOMAIN staking_pools : requested_in(i) = 0
    BY <1>1 DEF NewStakingPool, requested_in
  <1> QED
    BY <1>1, <1>2 DEF OnTime, NoneAhead, SentInTime

(* "No harm in unstaking more" (internal.rs:529): whoever calls the           *)
(* heartbeat, NEAR that still waits in a pool is made to wait longer only by  *)
(* the epochs that ended while the call to unstake more was open.             *)
THEOREM WaitsAreKept == WaitingSpec => WaitNotProlonged
  <1>1. TypeOK /\ OneCallInFlight /\ OnTime /\ [Next /\ note_call]_waiting_vars => OnTime'
    BY StaysOnTime DEF noted_step
  <1>2. TypeOK /\ OneCallInFlight /\ OnTime /\ [Next /\ note_call]_waiting_vars
          => [\A i \in DOMAIN staking_pools :
                still_waiting(staking_pools[i]) =>
                  staking_pools'[i].unstk_req_epoch_height
                    <= staking_pools[i].unstk_req_epoch_height
                       + (epoch_height - called_in)]_waiting_vars
    BY ProlongedByTheCall DEF noted_step
  <1>3. TypeOK /\ OneCallInFlight /\ [Next /\ note_call]_waiting_vars
          => TypeOK' /\ OneCallInFlight'
    BY NextTyped, OneCallStep, NotedMeans DEF noted_step
  <1> QED
    BY <1>1, <1>2, <1>3, InitOnTime, InitTyped, InitNoCall, PTL
       DEF WaitingSpec, WaitNotProlonged
=============================================================================
