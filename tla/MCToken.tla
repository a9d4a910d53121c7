------------------------------ MODULE MCToken ------------------------------
(* The META token alone: vesting, transfer calls, accounts that leave. *)
EXTENDS MetaToken, TLC

CONSTANTS h1, h2, m1

(* All locked until 1, then half of it, then nothing from 2 on; and locked *)
(* whatever the line says until its end.                                   *)
MCSchedules ==
  {[locked_until |-> 0, linear_start |-> 0, linear_end |-> 2],
   [locked_until |-> 1, linear_start |-> 0, linear_end |-> 2]}

MCHoldersAlike == Permutations({h1, h2})
=============================================================================
