----------------------------- MODULE MCOperator -----------------------------
(* Three pools that stake, a fourth without a weight, a fifth to be added. *)
EXTENDS MetaPoolOperator

MCWeights == <<4, 3, 3, 0>>

MCPoolAccounts == <<"p1", "p2", "p3", "p4", "p5">>

MCWeightings == {<<3, 3, 0, 4>>}

MCAgendas ==
  {<<"manual_stake", "manual_stake">>,
   <<"unstake", "sync_unstaked_balance">>,
   <<"manual_stake", "remove_staking_pool">>,
   <<"manual_stake", "start_manual_unstake", "sync_unstaked_balance",
     "complete_manual_unstake", "remove_staking_pool">>,
   <<"manual_stake", "start_manual_unstake", "undo_end_of_epoch">>,
   <<"set_busy", "manual_stake">>,
   <<"remove_staking_pool", "add_staking_pool", "set_staking_pools", "start_manual_unstake">>}

MCSynced == {<<"unstake", "sync_unstaked_balance">>}

(* An empty pool ahead of those that stake, to be removed. *)
MCRemovedWeights == <<0, 4, 3, 3>>

MCRemoved == {<<"remove_staking_pool">>}

MCRoundings == {-1, 1}

MCNoLockups == {}
=============================================================================
