------------------------------ MODULE MCUsers ------------------------------
(* The liquidity pool and its users, with rewards that move the price. *)
EXTENDS MetaPool

MCWeights == <<4, 3, 3>>

MCRewardReplies == {10}

MCNoLockups == {}
=============================================================================
