---------------------------- MODULE MetaPoolLive ----------------------------
(***************************************************************************)
(* The meta-pool under the fairness its scheduling gives. The chain runs    *)
(* every promise it accepted and delivers every transfer; the operator      *)
(* calls the heartbeat again and again, so a call that is possible again    *)
(* and again, between the locks of the others, is made; and a pool that is  *)
(* called again and again does not fail for ever. Nothing obliges a user.   *)
(***************************************************************************)
EXTENDS MetaPoolWaiting

pool_answers == \E p \in promises : pool_performs(p) \/ pool_fails(p)

Fairness ==
  /\ WF_vars(Callback)
  /\ WF_vars(pool_answers)
  /\ SF_vars(\E p \in promises : pool_performs(p))
  /\ WF_vars(transfer_arrives)
  /\ SF_vars(distribute_staking)
  /\ SF_vars(distribute_unstaking)
  /\ WF_vars(next_epoch)

LiveSpec == WaitingSpec /\ Fairness

-----------------------------------------------------------------------------
(***************************************************************************)
(* "Busy locks must be saved false in the state" (distribute.rs:156): the   *)
(* contract is never locked for good by a call, whether the pool performed  *)
(* it or failed.                                                            *)
(***************************************************************************)
BusyReleased == contract_busy ~> ~contract_busy

(***************************************************************************)
(* The operator "should call it again until it returns false"               *)
(* (technical-notes.md:20), and it does: staking enough to be worth a call  *)
(* is done, in as many calls as there are pools that lack stake, through    *)
(* failures, or cancelled by opposite orders.                               *)
(***************************************************************************)
StakeOrdersServed ==
  []<>(total_for_staking > total_actually_staked
         => total_amount_to_stake < MinStakeAmount)

(***************************************************************************)
(* Likewise for unstaking: an order worth a call is left to another epoch   *)
(* only by a pool that has too much staked and is in its waiting period.    *)
(***************************************************************************)
UnstakeOrdersServed ==
  []<>(/\ total_actually_staked > total_for_staking
       /\ total_to_unstake > MinUnstakeAmount
       => \E i \in DOMAIN staking_pools :
            /\ staking_pools[i].staked > should_have(staking_pools[i])
            /\ ~wait_period_ended(staking_pools[i]))
=============================================================================
