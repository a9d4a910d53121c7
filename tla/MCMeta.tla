------------------------------ MODULE MCMeta ------------------------------
(* META for stakers, liquidity providers and sellers, and its minting. *)
EXTENDS MetaHarvest, TLC

CONSTANTS m1, r1, r2

MCWeights == <<4, 3, 3>>

MCRewardReplies == {10}

MCNoLockups == {}

MCHolders == Accounts

MCMultipliers ==
  {[stakers |-> 10, lp |-> 5, lu |-> 5], [stakers |-> 10, lp |-> 5, lu |-> 20]}

MCReceiptsAlike == Permutations({r1, r2})

MCMaxRewards == [w \in Reward |-> 2]
=============================================================================
