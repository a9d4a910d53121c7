--------------------------- MODULE MetaPoolUsers ---------------------------
(***************************************************************************)
(* The methods of the users: deposit and stake, delayed unstake, withdraw,  *)
(* liquid unstake, and adding and removing liquidity. Each is one action,   *)
(* from the first assertion to the last account saved.                      *)
(***************************************************************************)
EXTENDS MetaPoolState

CONSTANTS
  Deposits,          (* NEAR attached to deposit_and_stake                  *)
  LiquidityDeposits, (* NEAR attached to nslp_add_liquidity                 *)
  UnstakeAmounts,    (* NEAR asked of unstake, besides unstake_all          *)
  WithdrawAmounts,   (* NEAR asked of withdraw, besides withdraw_unstaked   *)
  SellAmounts,       (* stNEAR asked of liquid_unstake                      *)
  RemoveAmounts,     (* NEAR asked of nslp_remove_liquidity                 *)
  MaxNear            (* bound: NEAR the users may have in the contract      *)

ASSUME InputsAssumption ==
  /\ Deposits \cup LiquidityDeposits \cup UnstakeAmounts \cup WithdrawAmounts
       \cup SellAmounts \cup RemoveAmounts \subseteq Nat
  /\ MaxNear \in Nat

WithinBound(deposit) ==
  total_available + total_for_staking + total_unstake_claims + deposit <= MaxNear

-----------------------------------------------------------------------------
assert_not_busy == ~contract_busy

assert_min_deposit_amount(amount) == amount >= MinDepositAmount

(* Mutant of internal_deposit: the contract does not count the NEAR as its own. *)
deposit_unrecorded(deposit) ==
  /\ assert_min_deposit_amount(deposit)
  /\ account_balance' = account_balance + deposit
  /\ UNCHANGED contract_account_balance

(* NEAR attached to the call: already in the native balance when it runs. *)
internal_deposit(deposit) ==
  /\ assert_min_deposit_amount(deposit)
  /\ contract_account_balance' = contract_account_balance + deposit
  /\ account_balance' = account_balance + deposit

(* Mutant of native_transfer_to_predecessor: the payment is not recorded. *)
transfer_unrecorded(amount) ==
  /\ amount <= contract_account_balance
  /\ amount <= account_balance
  /\ account_balance' = account_balance - amount
  /\ UNCHANGED contract_account_balance

(* A transfer leaves the native balance as it is scheduled. *)
native_transfer_to_predecessor(amount) ==
  /\ amount <= contract_account_balance
  /\ amount <= account_balance
  /\ contract_account_balance' = contract_account_balance - amount
  /\ account_balance' = account_balance - amount

-----------------------------------------------------------------------------
(***************************************************************************)
(* internal_stake, for a user who has acc.available of which `deposited` is *)
(* not in total_available yet. Shares are bought at the price before the    *)
(* order; the liquidity pool then gets the chance to sell its stNEAR.       *)
(***************************************************************************)
internal_stake(u, acc, deposited, requested) ==
  LET amount == take_from_available(u, requested, acc.available)
      num_shares == stake_shares_from_amount(amount)
      staked == [acc EXCEPT !.available = @ - amount,
                            !.stake_shares = @ + num_shares]
      for_staking == total_for_staking + amount
      shares == total_stake_shares + num_shares
      orders == epoch_stake_orders + amount
      sale == clearing_sale(for_staking, shares, orders, accounts[NSLP].stake_shares)
  IN /\ assert_not_busy
     /\ assert_min_deposit_amount(requested)
     /\ amount <= acc.available
     /\ amount <= total_available + deposited
     /\ num_shares > 0
     /\ sale_covered(sale, shares)
     /\ accounts' = [accounts EXCEPT ![u] = staked, ![NSLP] = after_sale(@, sale)]
     /\ total_available' = (total_available + deposited - amount) + sale.near
     /\ total_for_staking' = for_staking - sale.near
     /\ total_stake_shares' = shares - sale.st_near
     /\ epoch_stake_orders' = orders - sale.near

deposit_and_stake(u, deposit) ==
  /\ WithinBound(deposit)
  /\ internal_deposit(deposit)
  /\ internal_stake(u, [accounts[u] EXCEPT !.available = @ + deposit], deposit, deposit)
  /\ UNCHANGED <<total_actually_staked, epoch_unstake_orders, claim_vars, pool_vars,
                 incoming, accumulated_staked_rewards, epoch_height>>

(***************************************************************************)
(* Delayed unstake. Asking for about all one has burns every share; the     *)
(* unlock epoch of an earlier claim is overwritten by the new one's.        *)
(***************************************************************************)
internal_unstake(u, requested) ==
  LET acc == accounts[u]
      valued_shares == amount_from_stake_shares(acc.stake_shares)
      all == is_close(requested, valued_shares)
      amount == IF all THEN valued_shares ELSE requested
      to_burn == IF all THEN acc.stake_shares ELSE stake_shares_from_amount(requested)
  IN /\ assert_not_busy
     /\ amount <= valued_shares
     /\ to_burn > 0 /\ to_burn <= acc.stake_shares
     /\ amount <= total_for_staking /\ to_burn <= total_stake_shares
     /\ accounts' = [accounts EXCEPT ![u] =
          [acc EXCEPT !.stake_shares = @ - to_burn,
                      !.unstaked = @ + amount,
                      !.unstaked_requested_unlock_epoch =
                        epoch_height + internal_compute_current_unstaking_delay(amount)]]
     /\ epoch_unstake_orders' = epoch_unstake_orders + amount
     /\ total_unstake_claims' = total_unstake_claims + amount
     /\ total_stake_shares' = total_stake_shares - to_burn
     /\ total_for_staking' = total_for_staking - amount

unstake(u, amount) ==
  /\ internal_unstake(u, amount)
  /\ UNCHANGED <<total_available, epoch_stake_orders, total_actually_staked,
                 reserve_for_unstake_claims, total_unstaked_and_waiting, pool_vars,
                 money_vars, accumulated_staked_rewards, epoch_height>>

unstake_all(u) == unstake(u, amount_from_stake_shares(accounts[u].stake_shares))

(* Mutant of funds_retrieved: the delay alone is enough. *)
funds_assumed_there(amount) == amount <= total_unstake_claims

(***************************************************************************)
(* Withdraw from what was unstaked: finish unstaking if the delay passed    *)
(* and the heartbeat has really moved the funds, then pay. It is open while *)
(* the contract is busy.                                                    *)
(***************************************************************************)
funds_retrieved(amount) == amount <= reserve_for_unstake_claims

withdraw(u, requested) ==
  LET acc == accounts[u]
      available == acc.available + requested
      amount == take_from_available(u, requested, available)
  IN /\ requested <= acc.unstaked
     /\ epoch_height >= acc.unstaked_requested_unlock_epoch
     /\ funds_retrieved(requested)
     /\ requested <= total_unstake_claims
     /\ amount <= total_available + requested
     /\ native_transfer_to_predecessor(amount)
     /\ accounts' = [accounts EXCEPT ![u] =
          [acc EXCEPT !.unstaked = @ - requested, !.available = available - amount]]
     /\ reserve_for_unstake_claims' = reserve_for_unstake_claims - requested
     /\ total_unstake_claims' = total_unstake_claims - requested
     /\ total_available' = (total_available + requested) - amount
     /\ UNCHANGED <<total_stake_shares, order_vars, stake_vars,
                    total_unstaked_and_waiting, pool_vars, incoming,
                    accumulated_staked_rewards, epoch_height>>

(* withdraw_all and withdraw_unstaked; with nothing unstaked they pay nothing. *)
withdraw_unstaked(u) == accounts[u].unstaked > 0 /\ withdraw(u, accounts[u].unstaked)

-----------------------------------------------------------------------------
(***************************************************************************)
(* Liquid unstake: the user sells stNEAR to the liquidity pool at a         *)
(* discount. The discount stays in the pool as stNEAR, less the cuts of the *)
(* treasury, the operator and the developers. A minimum the user may ask    *)
(* for only makes the call panic; it is not modelled.                       *)
(***************************************************************************)
swap_fee_basis_points(available, nears_out) ==
  discount_basis_points(available, nears_out, LiquidityTarget, MinDiscount, MaxDiscount)

(* Mutant of st_near_to_liq_pool: the cuts are minted instead of taken. *)
st_near_without_cuts(st_near_to_sell, cuts) == st_near_to_sell

st_near_to_liq_pool(st_near_to_sell, cuts) == st_near_to_sell - cuts

liquid_unstake(u, st_near_to_burn) ==
  LET acc == accounts[u]
      lp == accounts[NSLP]
      to_sell == IF is_close(st_near_to_burn, acc.stake_shares)
                 THEN acc.stake_shares ELSE st_near_to_burn
      nears_out == amount_from_stake_shares(to_sell)
      discount == swap_fee_basis_points(lp.available, nears_out)
      fee == apply_pct(discount, nears_out)
      near_to_receive == nears_out - fee
      fee_in_st_near == stake_shares_from_amount(fee)
      treasury_cut == apply_pct(TreasurySwapCut, fee_in_st_near)
      operator_cut == apply_pct(OperatorSwapCut, fee_in_st_near)
      developers_cut == apply_pct(DevelopersSwapCut, fee_in_st_near)
      cuts == treasury_cut + operator_cut + developers_cut
      available == acc.available + near_to_receive
      amount == take_from_available(u, near_to_receive, available)
  IN /\ assert_not_busy
     /\ to_sell <= acc.stake_shares
     /\ discount < BasisPoints
     /\ near_to_receive <= lp.available
     /\ fee_in_st_near > cuts
     /\ cuts <= to_sell
     /\ amount <= available /\ amount <= total_available
     /\ native_transfer_to_predecessor(amount)
     /\ accounts' = [accounts EXCEPT
          ![u] = [acc EXCEPT !.stake_shares = @ - to_sell,
                             !.available = available - amount],
          ![NSLP] = [lp EXCEPT !.available = @ - near_to_receive,
                               !.stake_shares = @ + st_near_to_liq_pool(to_sell, cuts)],
          ![Treasury].stake_shares = @ + treasury_cut,
          ![Operator].stake_shares = @ + operator_cut,
          ![Developers].stake_shares = @ + developers_cut]
     /\ total_available' = total_available - amount
     /\ UNCHANGED <<total_stake_shares, order_vars, stake_vars, claim_vars, pool_vars,
                    incoming, accumulated_staked_rewards, epoch_height>>

nslp_add_liquidity(u, deposit) ==
  LET acc == [accounts[u] EXCEPT !.available = @ + deposit]
      lp == accounts[NSLP]
      amount == take_from_available(u, deposit, acc.available)
      num_shares == nslp_shares_from_amount(amount)
  IN /\ WithinBound(deposit)
     /\ internal_deposit(deposit)
     /\ assert_not_busy
     /\ amount <= acc.available
     /\ amount <= total_available + deposit
     /\ num_shares > 0
     /\ accounts' = [accounts EXCEPT
          ![u] = [acc EXCEPT !.available = @ - amount, !.nslp_shares = @ + num_shares],
          ![NSLP] = [lp EXCEPT !.available = @ + amount, !.nslp_shares = @ + num_shares]]
     /\ total_available' = (total_available + deposit - amount) + amount
     /\ UNCHANGED <<total_stake_shares, order_vars, stake_vars, claim_vars, pool_vars,
                    incoming, accumulated_staked_rewards, epoch_height>>

(***************************************************************************)
(* Removing liquidity pays the pool's stNEAR and NEAR in proportion: the    *)
(* stNEAR by shares burned, the NEAR by difference to the amount asked.     *)
(***************************************************************************)
st_near_to_remove(lp, to_burn) == proportional(lp.stake_shares, to_burn, lp.nslp_shares)

nslp_remove_liquidity(u, requested) ==
  LET acc == accounts[u]
      lp == accounts[NSLP]
      valued == amount_from_nslp_shares(acc.nslp_shares)
      all == is_close(requested, valued)
      to_remove == IF all THEN valued ELSE requested
      to_burn == IF all THEN acc.nslp_shares ELSE nslp_shares_from_amount(requested)
      st_near == st_near_to_remove(lp, to_burn)
      near_to_remove == to_remove - amount_from_stake_shares(st_near)
      available == acc.available + near_to_remove
      amount == take_from_available(u, near_to_remove, available)
  IN /\ assert_not_busy
     /\ all \/ valued >= requested
     /\ to_burn > 0 /\ to_burn <= acc.nslp_shares /\ to_burn <= lp.nslp_shares
     /\ to_remove >= amount_from_stake_shares(st_near)
     /\ near_to_remove <= lp.available /\ st_near <= lp.stake_shares
     /\ amount <= available /\ amount <= total_available
     /\ native_transfer_to_predecessor(amount)
     /\ accounts' = [accounts EXCEPT
          ![u] = [acc EXCEPT !.available = available - amount,
                             !.stake_shares = @ + st_near,
                             !.nslp_shares = @ - to_burn],
          ![NSLP] = [lp EXCEPT !.available = @ - near_to_remove,
                               !.stake_shares = @ - st_near,
                               !.nslp_shares = @ - to_burn]]
     /\ total_available' = total_available - amount
     /\ UNCHANGED <<total_stake_shares, order_vars, stake_vars, claim_vars, pool_vars,
                    incoming, accumulated_staked_rewards, epoch_height>>

UserStep ==
  \E u \in Users :
    \/ \E d \in Deposits : deposit_and_stake(u, d)
    \/ \E a \in UnstakeAmounts : unstake(u, a)
    \/ unstake_all(u)
    \/ \E a \in WithdrawAmounts : withdraw(u, a)
    \/ withdraw_unstaked(u)
    \/ \E s \in SellAmounts : liquid_unstake(u, s)
    \/ \E d \in LiquidityDeposits : nslp_add_liquidity(u, d)
    \/ \E a \in RemoveAmounts : nslp_remove_liquidity(u, a)
=============================================================================
