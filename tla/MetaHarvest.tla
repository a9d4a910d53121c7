----------------------------- MODULE MetaHarvest -----------------------------
(***************************************************************************)
(* META rewards. The meta-pool owes its users META for what their stNEAR    *)
(* and their liquidity earned, and has it minted by the META token's        *)
(* contract when they harvest. The two contracts, composed.                 *)
(*                                                                          *)
(* A meter remembers what an account's shares were worth when META was last *)
(* realized, and what was added or taken since; what they are worth above   *)
(* that is rewards. META is realized on the way of every user's method, and *)
(* given with every liquid unstake. harvest_meta takes all that is realized *)
(* out of the account before it calls the token, so that it is not minted   *)
(* twice; when minting fails, its callback puts the amount back.            *)
(*                                                                          *)
(* Left out: last_multiplier_pct, which realize overwrites before it is     *)
(* used, and the meters of the liquidity pool itself, which nothing reads.  *)
(***************************************************************************)
EXTENDS MetaPool, MetaToken

CONSTANTS
  MetaPoolAccount,  (* the account of the meta-pool, as a minter            *)
  Multipliers,      (* what set_reward_multipliers is called with           *)
  MaxMetaRewards,   (* max_meta_rewards_stakers, _lp and _lu                *)
  HarvestCallers,   (* accounts that harvest, or META is realized for       *)
  HarvestReceipts,  (* bound: harvests in flight, by their receipt          *)
  MaxMeta           (* bound: META ever granted                             *)

Reward == {"stakers", "lp", "lu"}

(* Whole NEAR in the code. With a maximum of 0 damp_multiplier divides by   *)
(* zero as soon as it is reached; it is left out.                           *)
ASSUME MetaAssumption ==
  /\ MetaPoolAccount \in Minters
  /\ Accounts \subseteq TokenHolders
  /\ Multipliers \subseteq [Reward -> Nat]
  /\ MaxMetaRewards \in [Reward -> Nat] /\ \A w \in Reward : MaxMetaRewards[w] >= 2
  /\ HarvestCallers \subseteq Accounts \ {NSLP}
  /\ IsFiniteSet(HarvestReceipts)
  /\ MaxMeta \in Nat

VARIABLES
  staking_meter,     (* delta_staked of each account, by its stNEAR         *)
  lp_meter,          (* delta_staked of each account, by its liquidity      *)
  realized_meta,     (* of each account                                     *)
  total_meta,        (* META ever granted                                   *)
  est_meta_rewards,  (* META distributed, as estimated, for each reward     *)
  mult_pct,          (* multiplier of each reward, 10 is once               *)
  harvests,          (* the minting each harvest waits for, if in flight    *)
  harvested          (* META minted by harvests                             *)

meter_vars == <<staking_meter, lp_meter>>
meta_vars ==
  <<meter_vars, realized_meta, total_meta, est_meta_rewards, mult_pct, harvests, harvested>>
all_vars == <<vars, token_vars, meta_vars>>

Harvester == Accounts \ {NSLP}

Harvest == [account : Harvester, to_mint : Nat, status : {"sent", "ok", "failed"}]

MetaInit ==
  /\ Init /\ TokenInit
  /\ staking_meter = [a \in Harvester |-> 0]
  /\ lp_meter = [a \in Harvester |-> 0]
  /\ realized_meta = [a \in Harvester |-> 0]
  /\ total_meta = 0
  /\ est_meta_rewards = [w \in Reward |-> 0]
  /\ mult_pct \in Multipliers
  /\ harvests = [r \in HarvestReceipts |-> no_call]
  /\ harvested = 0

-----------------------------------------------------------------------------
apply_multiplier(amount, percentage) == (amount * (percentage * 10)) \div 100

(***************************************************************************)
(* Once the maximum is distributed the multiplier goes down, in proportion, *)
(* to once the amount when half as much again is.                           *)
(***************************************************************************)
damped(multiplier, distributed, max_to_distribute) ==
  LET half == max_to_distribute \div 2
      excess == distributed - max_to_distribute
  IN IF multiplier <= 10 \/ distributed < max_to_distribute THEN multiplier
     ELSE IF excess > half THEN 10
     ELSE LET left == multiplier - proportional(multiplier, excess, half)
          IN IF left < 10 THEN 10 ELSE left

damp_multiplier(amount, w) ==
  apply_multiplier(amount, damped(mult_pct[w], est_meta_rewards[w], MaxMetaRewards[w]))

(* A meter that is negative, or says what the shares are worth or more. *)
compute_rewards(valued, delta_staked, w) ==
  IF delta_staked < 0 \/ delta_staked >= valued THEN 0
  ELSE damp_multiplier(valued - delta_staked, w)

valued_stake(a) == amount_from_stake_shares(accounts[a].stake_shares)

valued_lp(a) == amount_from_nslp_shares(accounts[a].nslp_shares)

staking_pending(a) == compute_rewards(valued_stake(a), staking_meter[a], "stakers")

lp_pending(a) == compute_rewards(valued_lp(a), lp_meter[a], "lp")

granted(a, amount) ==
  /\ total_meta + amount <= MaxMeta
  /\ realized_meta' = [realized_meta EXCEPT ![a] = @ + amount]
  /\ total_meta' = total_meta + amount

-----------------------------------------------------------------------------
(* What the users' methods do to META, beside what MetaPoolUsers says. *)
only_meters == UNCHANGED <<est_meta_rewards, mult_pct, harvests, harvested, token_vars>>

stake_and_realize(u, deposit) ==
  LET amount == take_from_available(u, deposit, accounts[u].available + deposit)
  IN /\ deposit_and_stake(u, deposit)
     /\ granted(u, staking_pending(u))
     /\ staking_meter' = [staking_meter EXCEPT ![u] = valued_stake(u) + amount]
     /\ UNCHANGED lp_meter
     /\ only_meters

unstake_and_realize(u, amount) ==
  LET unstaked == accounts'[u].unstaked - accounts[u].unstaked
  IN /\ unstake(u, amount)
     /\ granted(u, staking_pending(u))
     /\ staking_meter' = [staking_meter EXCEPT ![u] = valued_stake(u) - unstaked]
     /\ UNCHANGED lp_meter
     /\ only_meters

add_liquidity_and_realize(u, deposit) ==
  LET amount == take_from_available(u, deposit, accounts[u].available + deposit)
  IN /\ nslp_add_liquidity(u, deposit)
     /\ granted(u, lp_pending(u))
     /\ lp_meter' = [lp_meter EXCEPT ![u] = valued_lp(u) + amount]
     /\ UNCHANGED staking_meter
     /\ only_meters

remove_liquidity_and_realize(u, requested) ==
  LET st_near == accounts[NSLP].stake_shares - accounts'[NSLP].stake_shares
      near == accounts[NSLP].available - accounts'[NSLP].available
      value == amount_from_stake_shares(st_near)
  IN /\ nslp_remove_liquidity(u, requested)
     /\ granted(u, lp_pending(u))
     /\ lp_meter' = [lp_meter EXCEPT ![u] = valued_lp(u) - (near + value)]
     /\ staking_meter' = [staking_meter EXCEPT ![u] = @ + value]
     /\ only_meters

(***************************************************************************)
(* A sale realizes nothing of what was earned before, and grants META for   *)
(* its fee: to the seller, and for the cuts to the operator and the         *)
(* developers, half each.                                                   *)
(***************************************************************************)
meta_of_sale(u, fee, cuts) ==
  LET fee_in_st_near == stake_shares_from_amount(fee)
      est_lp == est_meta_rewards["lp"] + damp_multiplier(fee, "lp")
      from_operation ==
        apply_multiplier(cuts, damped(mult_pct["lp"], est_lp, MaxMetaRewards["lp"]))
      to_seller == damp_multiplier(fee_in_st_near, "lu")
  IN /\ total_meta + from_operation + to_seller <= MaxMeta
     /\ total_meta' = total_meta + from_operation + to_seller
     /\ realized_meta' = [realized_meta EXCEPT
          ![Operator] = @ + (from_operation \div 2),
          ![Developers] = @ + (from_operation \div 2),
          ![u] = @ + to_seller]
     /\ est_meta_rewards' = [est_meta_rewards EXCEPT !["lp"] = est_lp, !["lu"] = @ + to_seller]

liquid_unstake_with_meta(u, st_near_to_burn) ==
  LET sold == accounts[u].stake_shares - accounts'[u].stake_shares
      nears_out == amount_from_stake_shares(sold)
      fee == apply_pct(swap_fee_basis_points(accounts[NSLP].available, nears_out), nears_out)
      cut(a) == accounts'[a].stake_shares - accounts[a].stake_shares
  IN /\ liquid_unstake(u, st_near_to_burn)
     /\ meta_of_sale(u, fee, cut(Treasury) + cut(Operator) + cut(Developers))
     /\ staking_meter' = [a \in Harvester |->
          staking_meter[a] + (IF a = u THEN -nears_out
                              ELSE amount_from_stake_shares(cut(a)))]
     /\ UNCHANGED <<lp_meter, mult_pct, harvests, harvested, token_vars>>

UserMetaStep ==
  \E u \in Users :
    \/ \E d \in Deposits : stake_and_realize(u, d)
    \/ \E a \in UnstakeAmounts \cup {valued_stake(u)} : unstake_and_realize(u, a)
    \/ \E s \in SellAmounts : liquid_unstake_with_meta(u, s)
    \/ \E d \in LiquidityDeposits : add_liquidity_and_realize(u, d)
    \/ \E a \in RemoveAmounts : remove_liquidity_and_realize(u, a)

withdrawal ==
  \E u \in Users : withdraw_unstaked(u) \/ \E a \in WithdrawAmounts : withdraw(u, a)

(* All else grants no META; new rewards add to the estimate for stakers. *)
beside_meta ==
  LET rewards == accumulated_staked_rewards' - accumulated_staked_rewards
  IN /\ withdrawal \/ HeartbeatCall \/ Callback \/ Environment
     /\ est_meta_rewards' = [est_meta_rewards EXCEPT
          !["stakers"] = @ + damp_multiplier(rewards, "stakers")]
     /\ UNCHANGED <<meter_vars, realized_meta, total_meta, mult_pct, harvests, harvested,
                    token_vars>>

-----------------------------------------------------------------------------
set_reward_multipliers(mult) ==
  /\ mult_pct' = mult
  /\ UNCHANGED <<vars, token_vars, meter_vars, realized_meta, total_meta,
                 est_meta_rewards, harvests, harvested>>

all_pending(a) == staking_pending(a) + lp_pending(a)

realized_meters(S) ==
  /\ staking_meter' = [a \in Harvester |-> IF a \in S THEN valued_stake(a) ELSE staking_meter[a]]
  /\ lp_meter' = [a \in Harvester |-> IF a \in S THEN valued_lp(a) ELSE lp_meter[a]]

realize_meta(a) ==
  /\ granted(a, all_pending(a))
  /\ realized_meters({a})
  /\ UNCHANGED <<vars, token_vars, est_meta_rewards, mult_pct, harvests, harvested>>

(* An account for which nothing is pending is not saved. *)
realize_meta_massive ==
  LET amount == SumFunction([a \in Harvester |-> all_pending(a)])
  IN /\ total_meta + amount <= MaxMeta
     /\ total_meta' = total_meta + amount
     /\ realized_meta' = [a \in Harvester |-> realized_meta[a] + all_pending(a)]
     /\ realized_meters({a \in Harvester : all_pending(a) > 0})
     /\ UNCHANGED <<vars, token_vars, est_meta_rewards, mult_pct, harvests, harvested>>

-----------------------------------------------------------------------------
(* Mutant of taken_for_minting: what is minted stays realized until it is.  *)
kept_while_minting(a) ==
  realized_meta' = [realized_meta EXCEPT ![a] = @ + all_pending(a)]

taken_for_minting(a) == realized_meta' = [realized_meta EXCEPT ![a] = 0]

harvest_meta(r, a) ==
  /\ harvests[r] = no_call
  /\ total_meta + all_pending(a) <= MaxMeta
  /\ total_meta' = total_meta + all_pending(a)
  /\ realized_meters({a})
  /\ taken_for_minting(a)
  /\ harvests' = [harvests EXCEPT ![r] =
       [account |-> a, to_mint |-> realized_meta[a] + all_pending(a), status |-> "sent"]]
  /\ UNCHANGED <<vars, token_vars, est_meta_rewards, mult_pct, harvested>>

minting_resolved(r, status) ==
  /\ harvests' = [harvests EXCEPT ![r].status = status]
  /\ UNCHANGED <<vars, meter_vars, realized_meta, total_meta, est_meta_rewards, mult_pct>>

(* The token mints if the meta-pool is one of its minters and the gas lasts.  *)
(* Nothing else its owner and its holders do there is seen by the meta-pool. *)
minted(r) ==
  /\ harvests[r].status = "sent"
  /\ mint(MetaPoolAccount, harvests[r].account, harvests[r].to_mint)
  /\ harvested' = harvested + harvests[r].to_mint
  /\ minting_resolved(r, "ok")

minting_fails(r) ==
  /\ harvests[r].status = "sent"
  /\ minting_resolved(r, "failed")
  /\ UNCHANGED <<token_vars, harvested>>

(* What was realized while the minting was under way is overwritten. *)
after_minting_meta(r) ==
  LET harvest == harvests[r]
  IN /\ harvest.status \in {"ok", "failed"}
     /\ realized_meta' = [realized_meta EXCEPT ![harvest.account] =
          IF harvest.status = "failed" THEN harvest.to_mint ELSE @]
     /\ harvests' = [harvests EXCEPT ![r] = no_call]
     /\ UNCHANGED <<vars, token_vars, meter_vars, total_meta, est_meta_rewards, mult_pct,
                    harvested>>

MetaStep ==
  \/ \E mult \in Multipliers : set_reward_multipliers(mult)
  \/ \E a \in HarvestCallers : realize_meta(a)
  \/ realize_meta_massive
  \/ \E r \in HarvestReceipts :
       \/ \E a \in HarvestCallers : harvest_meta(r, a)
       \/ minted(r) \/ minting_fails(r) \/ after_minting_meta(r)

MetaNext == UserMetaStep \/ beside_meta \/ MetaStep

MetaSpec == MetaInit /\ [][MetaNext]_all_vars

-----------------------------------------------------------------------------
(***************************************************************************)
(* "If we don't, while `mint` is still pending, the attacker may call       *)
(* `harvest_meta` again and get `realized_meta` transferred multiple times" *)
(* (lib.rs:899): META that was granted once is realized, being minted or    *)
(* minted, and nowhere twice, however many harvests are in flight, fail or  *)
(* are called back late. What is granted and in none of these places was    *)
(* lost: the odd unit of a half, and what was realized while a harvest was  *)
(* in flight that failed.                                                   *)
(***************************************************************************)
being_minted(r) ==
  IF harvests[r].status \in {"sent", "failed"} THEN harvests[r].to_mint ELSE 0

accounted_for ==
  harvested + SumFunction(realized_meta) + SumFunction([r \in HarvestReceipts |-> being_minted(r)])

lost == total_meta - accounted_for

overwritten(r) ==
  IF harvests[r].status = "failed" /\ harvests'[r] = no_call
  THEN realized_meta[harvests[r].account] ELSE 0

lost_as_said ==
  LET odd == IF accounts' = accounts THEN 0 ELSE 1
      discarded == SumFunction([r \in HarvestReceipts |-> overwritten(r)])
  IN lost' - lost \in {discarded + n : n \in 0..odd}

MetaMintedOnce == [][lost_as_said]_all_vars
=============================================================================
