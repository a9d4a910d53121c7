--------------------------- MODULE MetaPoolState ---------------------------
(***************************************************************************)
(* The state of the meta-pool contract: the accounts, the totals kept       *)
(* beside them, the list of staking pools, the two kinds of locks, and what *)
(* the contract does not store but NEAR keeps for it: its native balance,   *)
(* the promises in flight and the transfers on their way to it.             *)
(*                                                                          *)
(* A method runs to completion or panics, and a panic undoes all it did, so *)
(* every assertion and checked subtraction of a method is a guard of its    *)
(* action. What interleaves is the execution of the promises a method       *)
(* schedules, the callbacks, and all the methods called in between.         *)
(*                                                                          *)
(* Left out: the META token's meters and multipliers, the trip meters, the  *)
(* contract's metadata; none of them changes an amount of NEAR or stNEAR.   *)
(***************************************************************************)
EXTENDS PoolMath, Integers, Sequences, FiniteSets

LOCAL INSTANCE FiniteSetsExt

CONSTANTS
  Users,                (* accounts of stakers and liquidity providers      *)
  LockupAccounts,       (* the users whose name ends with .lockup.near      *)
  NSLP,                 (* NSLP_INTERNAL_ACCOUNT, the liquidity pool's      *)
  Operator, Treasury, Developers,     (* accounts that receive the fees     *)
  Weights,              (* weight_basis_points of each staking pool         *)
  NumEpochsToUnlock,    (* NUM_EPOCHS_TO_UNLOCK: 4                          *)
  MinDepositAmount,     (* min_deposit_amount: 10 NEAR                      *)
  MinStakeAmount,       (* MIN_STAKE_AMOUNT: 1 NEAR                         *)
  MinRestakeAmount,     (* TEN_NEAR: unstaked from which a pool re-stakes   *)
  MinMovement,          (* MIN_STAKE_UNSTAKE_AMOUNT_MOVEMENT: 5000 NEAR     *)
  MinUnstakeAmount,     (* 10 * TGAS: unstaking this or less does not pay   *)
  MinBalanceForStorage, (* MIN_BALANCE_FOR_STORAGE: 35 NEAR                 *)
  OperatorRewardsFee, DevelopersRewardsFee,             (* basis points     *)
  TreasurySwapCut, OperatorSwapCut, DevelopersSwapCut,  (* basis points     *)
  MinDiscount, MaxDiscount,                             (* basis points     *)
  LiquidityTarget       (* nslp_liquidity_target                            *)

Accounts == Users \cup {NSLP, Operator, Treasury, Developers}

ASSUME AccountsAssumption ==
  /\ IsFiniteSet(Users)
  /\ Users \cap {NSLP, Operator, Treasury, Developers} = {}
  /\ NSLP \notin {Operator, Treasury, Developers}
  /\ Operator # Treasury /\ Operator # Developers /\ Treasury # Developers
  /\ LockupAccounts \subseteq Users

ASSUME ParametersAssumption ==
  /\ Weights \in Seq(Nat)
  /\ NumEpochsToUnlock \in Nat
  /\ {MinDepositAmount, MinStakeAmount, MinRestakeAmount, MinMovement,
      MinUnstakeAmount, MinBalanceForStorage, LiquidityTarget} \subseteq Nat
  /\ MinRestakeAmount > 0
  /\ {OperatorRewardsFee, DevelopersRewardsFee, TreasurySwapCut, OperatorSwapCut,
      DevelopersSwapCut, MinDiscount} \subseteq Nat
  /\ MaxDiscount \in 0..BasisPoints /\ MinDiscount <= MaxDiscount

(* set_reward_fee refuses fees, both together, of a tenth of the rewards. *)
ASSUME RewardFeesAssumption == OperatorRewardsFee + DevelopersRewardsFee <= BasisPoints

VARIABLES
  accounts,                   (* the map of accounts; absent is default     *)
  total_available,            (* sum of what accounts have available        *)
  reserve_for_unstake_claims, (* NEAR kept to pay unstake claims            *)
  epoch_stake_orders,         (* NEAR waiting to be sent to the pools       *)
  epoch_unstake_orders,       (* NEAR waiting to be unstaked from the pools *)
  total_for_staking,          (* NEAR that backs stNEAR                     *)
  total_actually_staked,      (* NEAR staked, or on its way, in the pools   *)
  total_stake_shares,         (* stNEAR minted                              *)
  total_unstaked_and_waiting, (* NEAR unstaked in the pools                 *)
  total_unstake_claims,       (* NEAR owed to the users who unstaked        *)
  contract_account_balance,   (* what the contract believes it holds        *)
  accumulated_staked_rewards,
  contract_busy,              (* a locking promise is in flight             *)
  staking_pools,              (* what the contract believes of each pool    *)
  promises,                   (* calls scheduled and not yet called back    *)
  account_balance,            (* env::account_balance(), what it does hold  *)
  incoming,                   (* NEAR of refunds and withdrawals under way  *)
  epoch_height                (* env::epoch_height()                        *)

user_vars   == <<accounts, total_available, total_stake_shares>>
order_vars  == <<epoch_stake_orders, epoch_unstake_orders>>
stake_vars  == <<total_for_staking, total_actually_staked>>
claim_vars  == <<reserve_for_unstake_claims, total_unstaked_and_waiting,
                 total_unstake_claims>>
pool_vars   == <<contract_busy, staking_pools, promises>>
money_vars  == <<contract_account_balance, account_balance, incoming>>
vars == <<user_vars, order_vars, stake_vars, claim_vars, pool_vars, money_vars,
          accumulated_staked_rewards, epoch_height>>

-----------------------------------------------------------------------------
Account == [available : Nat, stake_shares : Nat, unstaked : Nat,
            unstaked_requested_unlock_epoch : Nat, nslp_shares : Nat]

EmptyAccount == [available |-> 0, stake_shares |-> 0, unstaked |-> 0,
                 unstaked_requested_unlock_epoch |-> 0, nslp_shares |-> 0]

StakingPoolInfo == [weight_basis_points : Nat, busy_lock : BOOLEAN,
                    staked : Nat, unstaked : Nat,
                    unstk_req_epoch_height : Nat,
                    last_asked_rewards_epoch_height : Nat]

NewStakingPool(weight) ==
  [weight_basis_points |-> weight, busy_lock |-> FALSE, staked |-> 0,
   unstaked |-> 0, unstk_req_epoch_height |-> 0,
   last_asked_rewards_epoch_height |-> 0]

(***************************************************************************)
(* A promise is a call to the pool at index sp with the contract's callback *)
(* attached. "stake" carries the amount as a deposit; "restake" stakes what *)
(* the pool holds unstaked. The reply is what a view call returns.          *)
(***************************************************************************)
Operation == {"stake", "restake", "unstake", "retrieve", "rewards"}

Promise == [op : Operation, sp : DOMAIN Weights, amount : Nat,
            status : {"sent", "ok", "failed"}, reply : Nat]

Call(op, sp, amount) ==
  [op |-> op, sp |-> sp, amount |-> amount, status |-> "sent", reply |-> 0]

(***************************************************************************)
(* A deployed contract: created empty, holding what its storage needs, its  *)
(* pools added to the list and given their weights. The chain is old enough *)
(* for a pool that never unstaked not to be in its waiting period.          *)
(***************************************************************************)
Init ==
  /\ accounts = [a \in Accounts |-> EmptyAccount]
  /\ total_available = 0
  /\ reserve_for_unstake_claims = 0
  /\ epoch_stake_orders = 0
  /\ epoch_unstake_orders = 0
  /\ total_for_staking = 0
  /\ total_actually_staked = 0
  /\ total_stake_shares = 0
  /\ total_unstaked_and_waiting = 0
  /\ total_unstake_claims = 0
  /\ contract_account_balance = 0
  /\ accumulated_staked_rewards = 0
  /\ contract_busy = FALSE
  /\ staking_pools = [i \in DOMAIN Weights |-> NewStakingPool(Weights[i])]
  /\ promises = {}
  /\ account_balance = MinBalanceForStorage
  /\ incoming = 0
  /\ epoch_height = NumEpochsToUnlock

-----------------------------------------------------------------------------
(* stNEAR at the current price, total_for_staking / total_stake_shares. *)
stake_shares_from_amount(amount) ==
  shares_from_amount(amount, total_for_staking, total_stake_shares)

amount_from_stake_shares(num_shares) ==
  amount_from_shares(num_shares, total_for_staking, total_stake_shares)

(* Shares of the liquidity pool, worth its NEAR and its stNEAR together. *)
total_pool_value ==
  accounts[NSLP].available + amount_from_stake_shares(accounts[NSLP].stake_shares)

(* Mutant of nslp_shares_from_amount: forgets the stNEAR the pool holds. *)
nslp_shares_of_near_only(amount) ==
  shares_from_amount(amount, accounts[NSLP].available, accounts[NSLP].nslp_shares)

nslp_shares_from_amount(amount) ==
  shares_from_amount(amount, total_pool_value, accounts[NSLP].nslp_shares)

amount_from_nslp_shares(num_shares) ==
  amount_from_shares(num_shares, total_pool_value, accounts[NSLP].nslp_shares)

(* Mutant of take_from_available: leaves a unit behind. *)
take_leaving_dust(u, requested, available) == saturating_sub(requested, 1)

(* What a request takes out of what user u has available. *)
take_from_available(u, requested, available) ==
  IF u \notin LockupAccounts /\ is_close(requested, available)
  THEN available ELSE requested

(* A height in the future is bad data: nothing to wait for. *)
wait_period_ended(sp) ==
  \/ sp.unstk_req_epoch_height > epoch_height
  \/ epoch_height >= sp.unstk_req_epoch_height + NumEpochsToUnlock

can_unstake_now(sp) == ~sp.busy_lock /\ sp.staked > 0 /\ wait_period_ended(sp)

(* Mutant of internal_compute_current_unstaking_delay: none in the first epoch. *)
no_delay_before_staking(amount) ==
  IF \A i \in DOMAIN staking_pools : staking_pools[i].staked = 0
  THEN 0 ELSE 2 * NumEpochsToUnlock

(***************************************************************************)
(* Twice the normal delay when what is staked in the pools that are free    *)
(* to unstake now does not exceed the amount.                               *)
(***************************************************************************)
internal_compute_current_unstaking_delay(amount) ==
  LET staked(i) == staking_pools[i].staked
      free == {i \in DOMAIN staking_pools : can_unstake_now(staking_pools[i])}
  IN IF \/ MapThenSumSet(staked, free) > amount
        \/ \A i \in DOMAIN staking_pools : staked(i) = 0
     THEN NumEpochsToUnlock ELSE 2 * NumEpochsToUnlock

-----------------------------------------------------------------------------
(***************************************************************************)
(* Internal clearing: when there are orders to stake, the liquidity pool    *)
(* sells its stNEAR for the NEAR of those orders instead of it going to the *)
(* staking pools. The arguments are the totals at the moment of the sale.   *)
(***************************************************************************)
clearing_applies(for_staking, nslp_stake_shares) ==
  for_staking > total_actually_staked /\ nslp_stake_shares > 0

clearing_sale(for_staking, stake_shares, stake_orders, nslp_stake_shares) ==
  LET amount_to_stake == minimum(stake_orders, for_staking - total_actually_staked)
      valued == amount_from_shares(nslp_stake_shares, for_staking, stake_shares)
  IN IF ~clearing_applies(for_staking, nslp_stake_shares)
     THEN [st_near |-> 0, near |-> 0]
     ELSE IF amount_to_stake >= valued
     THEN [st_near |-> nslp_stake_shares, near |-> valued]
     ELSE [st_near |-> shares_from_amount(amount_to_stake, for_staking, stake_shares),
           near |-> amount_to_stake]

(* The shares sold are taken from the liquidity pool and from the total. *)
sale_covered(sale, stake_shares) ==
  sale.st_near <= accounts[NSLP].stake_shares /\ sale.st_near <= stake_shares

(* What the sale leaves in the liquidity pool's account. *)
after_sale(nslp_account, sale) ==
  [nslp_account EXCEPT !.available = @ + sale.near,
                       !.stake_shares = @ - sale.st_near]
=============================================================================
