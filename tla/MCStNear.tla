------------------------------ MODULE MCStNear ------------------------------
(* Two holders of stNEAR, who transfer it, unstake it and are called, and a *)
(* pool that reports a unit less than is recorded.                         *)
EXTENDS StNear

MCWeights == <<4, 3, 3>>

MCRewardReplies == {-1}

MCNoLockups == {}
=============================================================================
