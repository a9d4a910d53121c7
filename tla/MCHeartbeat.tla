---------------------------- MODULE MCHeartbeat ----------------------------
(* Three pools, the least that set_staking_pools accepts: 40%, 30% and 30%. *)
EXTENDS MetaPoolLive

MCWeights == <<4, 3, 3>>

MCNoLockups == {}
=============================================================================
