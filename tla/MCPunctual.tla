----------------------------- MODULE MCPunctual -----------------------------
(* One user, whose unstakes of a part or of all leave orders to later epochs. *)
EXTENDS MetaPoolPunctual

MCWeights == <<4, 3, 3>>

MCNoLockups == {}
=============================================================================
