------------------------------ MODULE MetaPool ------------------------------
(***************************************************************************)
(* The meta-pool contract: its users, its heartbeat and the staking pools,  *)
(* interleaved.                                                             *)
(***************************************************************************)
EXTENDS MetaPoolUsers, MetaPoolHeartbeat, Functions

Next == UserStep \/ HeartbeatCall \/ Callback \/ Environment

Spec == Init /\ [][Next]_vars

-----------------------------------------------------------------------------
(* The constants and variables have the types of the code's declarations. *)
TypeOK ==
  /\ accounts \in [Accounts -> Account]
  /\ total_available \in Nat /\ total_stake_shares \in Nat
  /\ epoch_stake_orders \in Nat /\ epoch_unstake_orders \in Nat
  /\ total_for_staking \in Nat /\ total_actually_staked \in Nat
  /\ reserve_for_unstake_claims \in Nat /\ total_unstaked_and_waiting \in Nat
  /\ total_unstake_claims \in Nat /\ contract_account_balance \in Nat
  /\ account_balance \in Nat /\ incoming \in Nat
  /\ accumulated_staked_rewards \in Nat /\ epoch_height \in Nat
  /\ contract_busy \in BOOLEAN
  /\ staking_pools \in [DOMAIN Weights -> StakingPoolInfo]
  /\ promises \subseteq Promise

(* The amount of the one call in a set, and of the call in flight, if it is *)
(* one of these operations.                                                 *)
amount_of(calls) == IF calls = {} THEN 0 ELSE (CHOOSE p \in calls : TRUE).amount

in_flight(ops) == amount_of({p \in promises : p.op \in ops})

(***************************************************************************)
(* The locks do what lib.rs:101 says ("Avoid re-entry when async-calls are  *)
(* in-flight"): no two calls to pools are ever in flight, and while one is, *)
(* both the contract and that pool are locked.                              *)
(***************************************************************************)
OneCallInFlight ==
  /\ \A p, q \in promises : p = q
  /\ \A p \in promises : contract_busy /\ staking_pools[p.sp].busy_lock

(***************************************************************************)
(* The NEAR the contract believes it holds is what is available, what is    *)
(* reserved for claims and what waits to be staked, plus the stake on its   *)
(* way, which the callback has not deducted or moved to the reserve yet.    *)
(* Between calls this is the equation the simulation tests assert.          *)
(***************************************************************************)
CashBacked ==
  contract_account_balance
    = total_available + reserve_for_unstake_claims + epoch_stake_orders
      + in_flight({"stake", "restake"})

(***************************************************************************)
(* Every unstake claim is covered: by NEAR in the reserve, by NEAR waiting  *)
(* in the pools, by an order to unstake or by a call doing so. Preventive   *)
(* records, their undoing and the end of epoch clearing all keep it.        *)
(***************************************************************************)
ClaimsBacked ==
  total_unstake_claims
    = reserve_for_unstake_claims + total_unstaked_and_waiting + epoch_unstake_orders
      + in_flight({"unstake"})

(***************************************************************************)
(* What is still to be staked or unstaked is exactly what is ordered, even  *)
(* while a call is in flight: the preventive record and its undoing always  *)
(* move both. Asserted between calls by the simulation tests.               *)
(***************************************************************************)
OrdersMatchDelta ==
  total_for_staking + epoch_unstake_orders = total_actually_staked + epoch_stake_orders

(***************************************************************************)
(* The meta-pool implements the custody it promises: a deposit, a payment,  *)
(* an unstake, a withdrawal, clearing and rewards are the only steps that   *)
(* change what anyone is owed, and all the heartbeat does, its failures     *)
(* included, is invisible. NEAR in custody is what the contract's records   *)
(* say it is, less a stake that left and more an unstaking under way.       *)
(***************************************************************************)
recorded_holdings ==
  (contract_account_balance - in_flight({"stake", "restake"}))
  + total_actually_staked + total_unstaked_and_waiting + in_flight({"unstake"})

Promised == INSTANCE Custody WITH
  Owners <- Users,
  Delay <- NumEpochsToUnlock,
  liquidity <- total_available,
  backing <- total_for_staking,
  minted <- total_stake_shares,
  claim <- [u \in Users |-> accounts[u].unstaked],
  unlock <- [u \in Users |-> accounts[u].unstaked_requested_unlock_epoch],
  claims <- total_unstake_claims,
  held <- recorded_holdings,
  clock <- epoch_height

ImplementsCustody == Promised!Spec

(***************************************************************************)
(* What the contract owes (NEAR available, NEAR behind stNEAR, claims) is   *)
(* exactly what it and the pools hold: nobody's NEAR is lost or counted     *)
(* twice by a call that fails, a re-stake or a clearing.                    *)
(***************************************************************************)
Solvent == Promised!Backed

(***************************************************************************)
(* "It should match env::balance()" (lib.rs:110): the balance kept by the   *)
(* contract is the native one, counting the NEAR that travels to it, a      *)
(* stake sent and not deducted yet, and a withdrawal not recorded yet.      *)
(***************************************************************************)
sent_not_deducted ==
  amount_of({p \in promises : p.op = "stake" /\ p.status \in {"sent", "ok"}})

paid_not_recorded ==
  amount_of({p \in promises : p.op = "retrieve" /\ p.status = "ok"})

BalanceMatches ==
  account_balance + incoming + sent_not_deducted
    = MinBalanceForStorage + contract_account_balance + paid_not_recorded

-----------------------------------------------------------------------------
(***************************************************************************)
(* A claim whose epoch has come and which the reserve covers is paid at any *)
(* time, also while calls are in flight or the contract is locked for good: *)
(* no subtraction of withdraw_unstaked underflows, and the native balance,  *)
(* once what travels has arrived, covers it and leaves what storage needs.  *)
(***************************************************************************)
ReservePayable ==
  \A u \in Users :
    LET amount == accounts[u].unstaked
    IN amount <= reserve_for_unstake_claims =>
         /\ amount <= total_unstake_claims
         /\ amount <= contract_account_balance
         /\ account_balance + incoming - amount >= MinBalanceForStorage

(* No subtraction of its callback underflows, and no answer is missing. *)
callback_completes(p) ==
  LET sp == staking_pools[p.sp]
  IN CASE p.status = "ok" /\ p.op = "stake" -> p.amount <= contract_account_balance
       [] p.status = "ok" /\ p.op = "restake" ->
            p.amount <= sp.unstaked /\ p.amount <= total_unstaked_and_waiting
       [] p.status = "ok" /\ p.op = "unstake" -> p.amount <= sp.staked
       [] p.status = "ok" /\ p.op = "rewards" -> sp.unstaked <= p.reply
       [] p.status = "failed" /\ p.op \in {"stake", "restake"} ->
            p.amount <= total_actually_staked
       [] p.status = "failed" /\ p.op = "rewards" -> FALSE
       [] OTHER -> TRUE

(***************************************************************************)
(* "Busy locks must be saved false in the state, this method SHOULD NOT     *)
(* PANIC" (distribute.rs:155): whatever was done since the call was sent,   *)
(* its callback runs to its end.                                            *)
(***************************************************************************)
CallbacksNeverPanic == \A p \in promises : callback_completes(p)

(***************************************************************************)
(* The totals are the sums they stand for (lib.rs:127 and lib.rs:162): of   *)
(* the accounts' NEAR, claims, stNEAR and liquidity shares.                 *)
(***************************************************************************)
AccountsAddUp ==
  LET available == [a \in Accounts |-> accounts[a].available]
      unstaked == [a \in Accounts |-> accounts[a].unstaked]
      stake_shares == [a \in Accounts |-> accounts[a].stake_shares]
      nslp_shares == [a \in Accounts |-> accounts[a].nslp_shares]
  IN /\ total_available = SumFunction(available)
     /\ total_unstake_claims = SumFunction(unstaked)
     /\ total_stake_shares = SumFunction(stake_shares)
     /\ accounts[NSLP].nslp_shares = SumFunctionOnSet(nslp_shares, Accounts \ {NSLP})

(***************************************************************************)
(* The record of each pool against the contract's totals: all that is       *)
(* staked, plus a stake under way, less an unstaking under way; and all     *)
(* that is unstaked.                                                        *)
(***************************************************************************)
PoolsAddUp ==
  LET staked == [i \in DOMAIN staking_pools |-> staking_pools[i].staked]
      unstaked == [i \in DOMAIN staking_pools |-> staking_pools[i].unstaked]
  IN /\ total_actually_staked + in_flight({"unstake"})
          = SumFunction(staked) + in_flight({"stake", "restake"})
     /\ total_unstaked_and_waiting = SumFunction(unstaked)

(***************************************************************************)
(* When enough NEAR waits to be staked and nothing is locked, some pool     *)
(* requires it: distribute_staking never answers "call again" having done   *)
(* nothing, though each pool's part of the total is truncated.              *)
(***************************************************************************)
StakingFindsAPool ==
  /\ ~contract_busy
  /\ \A i \in DOMAIN staking_pools : ~staking_pools[i].busy_lock
  /\ total_for_staking > total_actually_staked
  /\ total_amount_to_stake >= MinStakeAmount
  => \E i \in DOMAIN staking_pools : is_most_unbalanced(i, stake_imbalance)

(***************************************************************************)
(* "Only the NSLP & the treasury can have available balance" (lib.rs:131):  *)
(* what a method makes available to a user it stakes or pays at once.       *)
(***************************************************************************)
OnlyPoolHasAvailable == \A a \in Accounts \ {NSLP} : accounts[a].available = 0

(***************************************************************************)
(* Nothing a user, a pool or the operator does lowers the price of stNEAR,  *)
(* total_for_staking / total_stake_shares, but an unstake or a clearing     *)
(* sale, which burn a truncated number of shares (none, when the sale is    *)
(* worth less than one): then it falls by no more than that truncation,     *)
(* F'/T' >= (F/T)(1 - 1/T').                                                *)
(***************************************************************************)
PriceStep ==
  LET truncated == \/ total_unstake_claims' > total_unstake_claims
                   \/ accounts'[NSLP].available > accounts[NSLP].available
  IN total_stake_shares > 0 =>
       total_for_staking' * total_stake_shares
         + (IF truncated THEN total_for_staking ELSE 0)
       >= total_for_staking * total_stake_shares'

PriceHolds == [][PriceStep]_vars

(***************************************************************************)
(* Liquidity providers do not lose to swaps, clearing, rewards or each      *)
(* other: what a share of the liquidity pool is worth falls by no more than *)
(* a truncation. A delayed unstake rounds the price of stNEAR down, by less *)
(* than one share's worth over all the stNEAR there is; a removal of        *)
(* liquidity may burn one share too few and leave a unit less. Nothing else *)
(* takes anything from those who stay.                                      *)
(***************************************************************************)
LiquidityValueStep ==
  LET shares == accounts[NSLP].nslp_shares
      value == total_pool_value
      unstaked == total_unstake_claims' > total_unstake_claims
      removed == accounts'[NSLP].nslp_shares < shares
      truncated == IF unstaked THEN amount_from_stake_shares(1) + 1
                   ELSE IF removed THEN 1 ELSE 0
  IN shares > 0 =>
       (total_pool_value' + truncated) * shares + (IF removed THEN value ELSE 0)
         >= value * accounts'[NSLP].nslp_shares

LiquidityValueHolds == [][LiquidityValueStep]_vars
=============================================================================
