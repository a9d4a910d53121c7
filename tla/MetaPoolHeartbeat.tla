------------------------- MODULE MetaPoolHeartbeat -------------------------
(***************************************************************************)
(* The heartbeat: the methods that move NEAR between the contract and the   *)
(* staking pools, their callbacks, and the pools as the contract sees them. *)
(*                                                                          *)
(* Every method here is open to anyone and refuses to start while the       *)
(* contract is busy. It records what it schedules before the pool has done  *)
(* it ("preventively"), and its callback completes or undoes that record.   *)
(* A callback that takes the pool's answer as a #[callback] argument is not *)
(* entered when the call failed: it panics, and the locks stay taken.       *)
(***************************************************************************)
EXTENDS MetaPoolState

CONSTANTS
  FailingCalls,      (* the operations a pool may fail to perform           *)
  AskedPools,        (* the indexes distribute_rewards is called with       *)
  RewardReplies,     (* total balance a pool reports, less the one recorded *)
  MaxRewards,        (* bound: rewards accumulated                          *)
  MaxEpoch           (* bound: the last epoch                               *)

ASSUME EnvironmentAssumption ==
  /\ FailingCalls \subseteq Operation
  /\ AskedPools \subseteq Nat
  /\ RewardReplies \subseteq Int
  /\ MaxRewards \in Nat
  /\ MaxEpoch \in Nat

-----------------------------------------------------------------------------
(* Mutant of lock_and_call: the call is scheduled with no lock taken. *)
call_without_locks(i, call) ==
  /\ UNCHANGED <<contract_busy, staking_pools>>
  /\ promises' = promises \cup {call}

(* Take both locks and schedule a call, or complete one and release them. *)
lock_and_call(i, call) ==
  /\ contract_busy' = TRUE
  /\ staking_pools' = [staking_pools EXCEPT ![i].busy_lock = TRUE]
  /\ promises' = promises \cup {call}

(* Mutants of unlock_with: the contract stays locked, the record is lost. *)
unlock_pool_only(p, sp) ==
  /\ UNCHANGED contract_busy
  /\ staking_pools' = [staking_pools EXCEPT ![p.sp] = [sp EXCEPT !.busy_lock = FALSE]]
  /\ promises' = promises \ {p}

unlock_without_saving(p, sp) ==
  /\ contract_busy' = FALSE
  /\ staking_pools' = [staking_pools EXCEPT ![p.sp].busy_lock = FALSE]
  /\ promises' = promises \ {p}

unlock_with(p, sp) ==
  /\ contract_busy' = FALSE
  /\ staking_pools' = [staking_pools EXCEPT ![p.sp] = [sp EXCEPT !.busy_lock = FALSE]]
  /\ promises' = promises \ {p}

(* Mutant of free_to_call: only the pool has to be free. *)
free_pool(i) == ~staking_pools[i].busy_lock

free_to_call(i) == ~contract_busy /\ ~staking_pools[i].busy_lock

(* Mutant of should_have: the weight is applied to what is staked already. *)
should_have_of_staked(sp) == apply_pct(sp.weight_basis_points, total_actually_staked)

(* The part of the stake that belongs in this pool, by its weight. *)
should_have(sp) == apply_pct(sp.weight_basis_points, total_for_staking)

(* The first of the pools whose imbalance is the largest, if any has one. *)
is_most_unbalanced(i, imbalance) ==
  /\ imbalance[i] > 0
  /\ \A j \in DOMAIN imbalance :
       /\ imbalance[j] <= imbalance[i]
       /\ j < i => imbalance[j] < imbalance[i]

-----------------------------------------------------------------------------
(***************************************************************************)
(* Staking. A pool that is not busy and has a weight requires what it lacks *)
(* of its share; a small remainder is included in the movement.             *)
(***************************************************************************)
required_stake(sp) ==
  IF ~sp.busy_lock /\ sp.weight_basis_points > 0
  THEN saturating_sub(should_have(sp), sp.staked) ELSE 0

stake_imbalance ==
  [i \in DOMAIN staking_pools |-> required_stake(staking_pools[i])]

amount_to_move(required, total, remainder_fits) ==
  LET selected == minimum(required, total)
      remainder == total - selected
  IN IF remainder <= MinMovement /\ remainder_fits THEN total ELSE selected

total_amount_to_stake ==
  minimum(epoch_stake_orders, total_for_staking - total_actually_staked)

amount_to_restake(sp, requested) == minimum(requested, sp.unstaked)

(***************************************************************************)
(* direct_stake: NEAR the pool holds unstaked is staked again, and only as  *)
(* much of it as there is; otherwise NEAR is sent along from the contract,  *)
(* above the balance its storage requires.                                  *)
(***************************************************************************)
direct_stake(i, requested) ==
  LET sp == staking_pools[i]
      restake == sp.unstaked >= MinRestakeAmount
      amount == IF restake THEN amount_to_restake(sp, requested) ELSE requested
  IN /\ requested > 0
     /\ lock_and_call(i, Call(IF restake THEN "restake" ELSE "stake", i, amount))
     /\ IF restake THEN UNCHANGED account_balance
        ELSE /\ account_balance >= MinBalanceForStorage + amount
             /\ account_balance' = account_balance - amount
     /\ amount <= epoch_stake_orders
     /\ total_actually_staked' = total_actually_staked + amount
     /\ epoch_stake_orders' = epoch_stake_orders - amount

(* The liquidity pool is given the chance to clear before any staking. *)
distribute_staking_clearing ==
  LET sale == clearing_sale(total_for_staking, total_stake_shares, epoch_stake_orders,
                            accounts[NSLP].stake_shares)
  IN /\ ~contract_busy
     /\ epoch_stake_orders > 0
     /\ clearing_applies(total_for_staking, accounts[NSLP].stake_shares)
     /\ sale_covered(sale, total_stake_shares)
     /\ accounts' = [accounts EXCEPT ![NSLP] = after_sale(@, sale)]
     /\ total_available' = total_available + sale.near
     /\ total_for_staking' = total_for_staking - sale.near
     /\ epoch_stake_orders' = epoch_stake_orders - sale.near
     /\ total_stake_shares' = total_stake_shares - sale.st_near
     /\ UNCHANGED <<epoch_unstake_orders, total_actually_staked, claim_vars, pool_vars,
                    money_vars, accumulated_staked_rewards, epoch_height>>

distribute_staking_call ==
  /\ ~contract_busy
  /\ total_for_staking > total_actually_staked
  /\ epoch_stake_orders > 0
  /\ ~clearing_applies(total_for_staking, accounts[NSLP].stake_shares)
  /\ total_amount_to_stake >= MinStakeAmount
  /\ \E i \in DOMAIN staking_pools :
       /\ is_most_unbalanced(i, stake_imbalance)
       /\ direct_stake(i, amount_to_move(required_stake(staking_pools[i]),
                                         total_amount_to_stake, TRUE))
  /\ UNCHANGED <<user_vars, epoch_unstake_orders, total_for_staking, claim_vars,
                 contract_account_balance, incoming, accumulated_staked_rewards,
                 epoch_height>>

distribute_staking == distribute_staking_clearing \/ distribute_staking_call

(***************************************************************************)
(* on_staking_pool_stake_maybe_deposit. A re-stake used NEAR that was       *)
(* unstaked in the pool to serve a stake order, so the NEAR of that order,  *)
(* still in the contract, now backs the unstake claims.                     *)
(***************************************************************************)
(* Mutant of restaked_to_reserve: the NEAR of the order stays unassigned. *)
restaked_to_nothing(amount) == UNCHANGED reserve_for_unstake_claims

restaked_to_reserve(amount) ==
  reserve_for_unstake_claims' = reserve_for_unstake_claims + amount

(* Mutant of undo_stake: the order is not restored. *)
undo_stake_not_order(amount) ==
  /\ total_actually_staked' = total_actually_staked - amount
  /\ UNCHANGED epoch_stake_orders

undo_stake(amount) ==
  /\ total_actually_staked' = total_actually_staked - amount
  /\ epoch_stake_orders' = epoch_stake_orders + amount

on_staking_pool_stake_maybe_deposit(p) ==
  LET sp == staking_pools[p.sp]
  IN /\ p \in promises
     /\ p.op \in {"stake", "restake"}
     /\ \/ /\ p.status = "ok" /\ p.op = "stake"
           /\ p.amount <= contract_account_balance
           /\ contract_account_balance' = contract_account_balance - p.amount
           /\ unlock_with(p, [sp EXCEPT !.staked = @ + p.amount])
           /\ UNCHANGED <<total_actually_staked, epoch_stake_orders, claim_vars>>
        \/ /\ p.status = "ok" /\ p.op = "restake"
           /\ p.amount <= sp.unstaked
           /\ p.amount <= total_unstaked_and_waiting
           /\ unlock_with(p, [sp EXCEPT !.staked = @ + p.amount, !.unstaked = @ - p.amount])
           /\ total_unstaked_and_waiting' = total_unstaked_and_waiting - p.amount
           /\ restaked_to_reserve(p.amount)
           /\ UNCHANGED <<total_actually_staked, epoch_stake_orders, total_unstake_claims,
                          contract_account_balance>>
        \/ /\ p.status = "failed"
           /\ p.amount <= total_actually_staked
           /\ unlock_with(p, sp)
           /\ undo_stake(p.amount)
           /\ UNCHANGED <<claim_vars, contract_account_balance>>
     /\ UNCHANGED <<user_vars, epoch_unstake_orders, total_for_staking, account_balance,
                    incoming, accumulated_staked_rewards, epoch_height>>

-----------------------------------------------------------------------------
(***************************************************************************)
(* Unstaking. A pool may unstake if no earlier unstaking is still waiting,  *)
(* or it started in this epoch and unstaking more does not prolong it.      *)
(***************************************************************************)
(* Mutant of may_unstake: also while an earlier unstaking waits. *)
may_unstake_again(sp) == ~sp.busy_lock /\ sp.staked > 0

may_unstake(sp) ==
  /\ ~sp.busy_lock /\ sp.staked > 0
  /\ wait_period_ended(sp) \/ sp.unstk_req_epoch_height = epoch_height

(* Mutant of required_unstake: only pools without a weight unstake. *)
required_of_weightless(sp) ==
  IF may_unstake(sp) /\ sp.weight_basis_points = 0
  THEN saturating_sub(sp.staked, should_have(sp)) ELSE 0

(* What it has above its part of the total. *)
required_unstake(sp) ==
  IF may_unstake(sp) THEN saturating_sub(sp.staked, should_have(sp)) ELSE 0

unstake_imbalance ==
  [i \in DOMAIN staking_pools |-> required_unstake(staking_pools[i])]

total_to_unstake ==
  minimum(epoch_unstake_orders, total_actually_staked - total_for_staking)

amount_to_unstake(sp) ==
  LET selected == minimum(required_unstake(sp), total_to_unstake)
      remainder == total_to_unstake - selected
  IN amount_to_move(required_unstake(sp), total_to_unstake,
                    sp.staked > selected + remainder + 2 * MinMovement)

direct_unstake(i, amount) ==
  /\ ~contract_busy
  /\ amount > 0
  /\ amount <= total_actually_staked
  /\ amount <= epoch_unstake_orders
  /\ amount <= staking_pools[i].staked
  /\ lock_and_call(i, Call("unstake", i, amount))
  /\ total_actually_staked' = total_actually_staked - amount
  /\ epoch_unstake_orders' = epoch_unstake_orders - amount

distribute_unstaking ==
  /\ ~contract_busy
  /\ total_actually_staked > total_for_staking
  /\ total_to_unstake > MinUnstakeAmount
  /\ \E i \in DOMAIN staking_pools :
       /\ is_most_unbalanced(i, unstake_imbalance)
       /\ amount_to_unstake(staking_pools[i]) > MinUnstakeAmount
       /\ direct_unstake(i, amount_to_unstake(staking_pools[i]))
  /\ UNCHANGED <<user_vars, epoch_stake_orders, total_for_staking, claim_vars, money_vars,
                 accumulated_staked_rewards, epoch_height>>

on_staking_pool_unstake(p) ==
  LET sp == staking_pools[p.sp]
  IN /\ p \in promises
     /\ p.op = "unstake"
     /\ \/ /\ p.status = "ok"
           /\ p.amount <= sp.staked
           /\ unlock_with(p, [sp EXCEPT !.staked = @ - p.amount,
                                        !.unstaked = @ + p.amount,
                                        !.unstk_req_epoch_height = epoch_height])
           /\ total_unstaked_and_waiting' = total_unstaked_and_waiting + p.amount
           /\ UNCHANGED <<total_actually_staked, epoch_unstake_orders>>
        \/ /\ p.status = "failed"
           /\ unlock_with(p, sp)
           /\ total_actually_staked' = total_actually_staked + p.amount
           /\ epoch_unstake_orders' = epoch_unstake_orders + p.amount
           /\ UNCHANGED total_unstaked_and_waiting
     /\ UNCHANGED <<user_vars, epoch_stake_orders, total_for_staking,
                    reserve_for_unstake_claims, total_unstake_claims, money_vars,
                    accumulated_staked_rewards, epoch_height>>

-----------------------------------------------------------------------------
(***************************************************************************)
(* Retrieving what a pool holds unstaked once its waiting period is over.   *)
(* The callback takes the pool's record as it then stands for the amount.   *)
(***************************************************************************)
retrieve_funds_from_a_pool(i) ==
  /\ free_to_call(i)
  /\ staking_pools[i].unstaked > 0
  /\ wait_period_ended(staking_pools[i])
  /\ lock_and_call(i, Call("retrieve", i, staking_pools[i].unstaked))
  /\ UNCHANGED <<user_vars, order_vars, stake_vars, claim_vars, money_vars,
                 accumulated_staked_rewards, epoch_height>>

on_retrieve_from_staking_pool(p) ==
  LET sp == staking_pools[p.sp]
      amount == sp.unstaked
  IN /\ p \in promises
     /\ p.op = "retrieve"
     /\ \/ /\ p.status = "ok"
           /\ unlock_with(p, [sp EXCEPT !.unstaked = 0])
           /\ total_unstaked_and_waiting' =
                saturating_sub(total_unstaked_and_waiting, amount)
           /\ contract_account_balance' = contract_account_balance + amount
           /\ reserve_for_unstake_claims' = reserve_for_unstake_claims + amount
        \/ /\ p.status = "failed"
           /\ unlock_with(p, sp)
           /\ UNCHANGED <<total_unstaked_and_waiting, contract_account_balance,
                          reserve_for_unstake_claims>>
     /\ UNCHANGED <<user_vars, order_vars, stake_vars, total_unstake_claims,
                    account_balance, incoming, accumulated_staked_rewards, epoch_height>>

-----------------------------------------------------------------------------
(***************************************************************************)
(* Rewards, once per epoch and pool: what the pool reports above the record *)
(* raises the price of stNEAR, then a part of it is minted as stNEAR for    *)
(* the operator and the developers, at the raised price. A report below the *)
(* record only corrects the record.                                         *)
(***************************************************************************)
distribute_rewards(i) ==
  LET sp == staking_pools[i]
  IN /\ free_to_call(i)
     /\ sp.staked > 0 \/ sp.unstaked > 0
     /\ sp.last_asked_rewards_epoch_height # epoch_height
     /\ lock_and_call(i, Call("rewards", i, 0))
     /\ UNCHANGED <<user_vars, order_vars, stake_vars, claim_vars, money_vars,
                    accumulated_staked_rewards, epoch_height>>

fee_shares(fee, for_staking) ==
  shares_from_amount(fee, for_staking, total_stake_shares)

on_get_sp_total_balance(p) ==
  LET sp == staking_pools[p.sp]
      rewards == saturating_sub(p.reply, sp.staked + sp.unstaked)
      for_staking == total_for_staking + rewards
      operator_fee_shares ==
        fee_shares(apply_pct(OperatorRewardsFee, rewards), for_staking)
      developers_fee_shares ==
        fee_shares(apply_pct(DevelopersRewardsFee, rewards), for_staking)
  IN /\ p \in promises
     /\ p.op = "rewards" /\ p.status = "ok"
     /\ sp.unstaked <= p.reply
     /\ unlock_with(p, [sp EXCEPT !.staked = p.reply - sp.unstaked,
                                  !.last_asked_rewards_epoch_height = epoch_height])
     /\ accumulated_staked_rewards' = accumulated_staked_rewards + rewards
     /\ total_for_staking' = for_staking
     /\ total_actually_staked' = total_actually_staked + rewards
     /\ accounts' = [accounts EXCEPT
          ![Operator].stake_shares = @ + operator_fee_shares,
          ![Developers].stake_shares = @ + developers_fee_shares]
     /\ total_stake_shares' =
          total_stake_shares + operator_fee_shares + developers_fee_shares
     /\ UNCHANGED <<total_available, order_vars, claim_vars, money_vars, epoch_height>>

(* The call failed: #[callback] panics before the locks are released. *)
on_get_sp_total_balance_panics(p) ==
  /\ p \in promises
  /\ p.op = "rewards" /\ p.status = "failed"
  /\ promises' = promises \ {p}
  /\ UNCHANGED <<user_vars, order_vars, stake_vars, claim_vars, contract_busy,
                 staking_pools, money_vars, accumulated_staked_rewards, epoch_height>>

-----------------------------------------------------------------------------
(***************************************************************************)
(* End of epoch: opposite orders cancel out, and the NEAR that will not go  *)
(* to the pools is reserved for the claims those unstake orders left.       *)
(***************************************************************************)
(* Mutant of to_keep: as if there were always more stake orders. *)
keep_all_unstake_orders == epoch_unstake_orders

to_keep == minimum(epoch_stake_orders, epoch_unstake_orders)

end_of_epoch_clearing ==
  /\ ~contract_busy
  /\ epoch_stake_orders > 0 /\ epoch_unstake_orders > 0
  /\ reserve_for_unstake_claims' = reserve_for_unstake_claims + to_keep
  /\ epoch_stake_orders' = epoch_stake_orders - to_keep
  /\ epoch_unstake_orders' = epoch_unstake_orders - to_keep
  /\ UNCHANGED <<user_vars, stake_vars, total_unstaked_and_waiting, total_unstake_claims,
                 pool_vars, money_vars, accumulated_staked_rewards, epoch_height>>

-----------------------------------------------------------------------------
(***************************************************************************)
(* The pools and the chain, as the contract meets them. A pool performs the *)
(* call or fails; the NEAR of a withdrawal, or the refund of a deposit that *)
(* failed, travels in a receipt of its own and may arrive before or after   *)
(* the callback.                                                            *)
(***************************************************************************)
resolved(p, status, reply) ==
  promises' = (promises \ {p}) \cup {[p EXCEPT !.status = status, !.reply = reply]}

pool_performs(p) ==
  LET sp == staking_pools[p.sp]
  IN /\ p \in promises
     /\ p.status = "sent"
     /\ \/ /\ p.op = "rewards"
           /\ \E r \in RewardReplies :
                /\ sp.staked + r >= 0
                /\ accumulated_staked_rewards + r <= MaxRewards
                /\ resolved(p, "ok", sp.staked + sp.unstaked + r)
           /\ UNCHANGED incoming
        \/ /\ p.op = "retrieve"
           /\ resolved(p, "ok", 0)
           /\ incoming' = incoming + p.amount
        \/ /\ p.op \in {"stake", "restake", "unstake"}
           /\ resolved(p, "ok", 0)
           /\ UNCHANGED incoming
     /\ UNCHANGED <<user_vars, order_vars, stake_vars, claim_vars, contract_busy,
                    staking_pools, contract_account_balance, account_balance,
                    accumulated_staked_rewards, epoch_height>>

pool_fails(p) ==
  /\ p \in promises
  /\ p.status = "sent"
  /\ p.op \in FailingCalls
  /\ resolved(p, "failed", 0)
  /\ incoming' = incoming + (IF p.op = "stake" THEN p.amount ELSE 0)
  /\ UNCHANGED <<user_vars, order_vars, stake_vars, claim_vars, contract_busy,
                 staking_pools, contract_account_balance, account_balance,
                 accumulated_staked_rewards, epoch_height>>

transfer_arrives ==
  /\ incoming > 0
  /\ account_balance' = account_balance + incoming
  /\ incoming' = 0
  /\ UNCHANGED <<user_vars, order_vars, stake_vars, claim_vars, pool_vars,
                 contract_account_balance, accumulated_staked_rewards, epoch_height>>

next_epoch ==
  /\ epoch_height < MaxEpoch
  /\ epoch_height' = epoch_height + 1
  /\ UNCHANGED <<user_vars, order_vars, stake_vars, claim_vars, pool_vars, money_vars,
                 accumulated_staked_rewards>>

-----------------------------------------------------------------------------
HeartbeatCall ==
  \/ distribute_staking
  \/ distribute_unstaking
  \/ end_of_epoch_clearing
  \/ \E i \in DOMAIN staking_pools : retrieve_funds_from_a_pool(i)
  \/ \E i \in AskedPools \cap DOMAIN staking_pools : distribute_rewards(i)

Callback ==
  \E p \in promises :
    \/ on_staking_pool_stake_maybe_deposit(p)
    \/ on_staking_pool_unstake(p)
    \/ on_retrieve_from_staking_pool(p)
    \/ on_get_sp_total_balance(p)
    \/ on_get_sp_total_balance_panics(p)

Environment ==
  \/ \E p \in promises : pool_performs(p) \/ pool_fails(p)
  \/ transfer_arrives
  \/ next_epoch
=============================================================================
