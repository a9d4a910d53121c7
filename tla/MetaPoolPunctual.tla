-------------------------- MODULE MetaPoolPunctual --------------------------
(***************************************************************************)
(* The meta-pool with an operator that does its work: every epoch the       *)
(* heartbeat is called until no call has anything to do and every answer is *)
(* in, and no call to a staking pool fails. Users go on calling at any      *)
(* time. Under this schedule, and only under one like it, the contract can  *)
(* be asked when the NEAR of a delayed unstake is really there.             *)
(*                                                                          *)
(* docs/technical-notes.md has both distribute_unstaking and                *)
(* retrieve_funds_from_a_pool called at the beginning of an epoch, in no    *)
(* order; with RetrieveFirst the operator takes the precaution to retrieve  *)
(* all it can before it unstakes more.                                      *)
(***************************************************************************)
EXTENDS MetaPool

CONSTANT RetrieveFirst

ASSUME ScheduleAssumption == RetrieveFirst \in BOOLEAN

VARIABLE unstaked_in    (* history: NEAR asked of unstake, by epoch          *)

punctual_vars == <<vars, unstaked_in>>

ripe(sp) == sp.unstaked > 0 /\ wait_period_ended(sp)

nothing_to_retrieve == \A i \in DOMAIN staking_pools : ~ripe(staking_pools[i])

(* No call is possible (AskedPools are those asked for rewards), none is open. *)
heartbeat_done == promises = {} /\ incoming = 0 /\ ~ENABLED HeartbeatCall

starts_unstaking == \E p \in promises' \ promises : p.op = "unstake" /\ p.status = "sent"

OnSchedule ==
  /\ epoch_height' # epoch_height => heartbeat_done
  /\ RetrieveFirst /\ starts_unstaking => nothing_to_retrieve

(* Only an unstake adds to the claims. *)
noted == saturating_sub(total_unstake_claims', total_unstake_claims)

SpecPunctual ==
  /\ Init /\ unstaked_in = [e \in 0 .. MaxEpoch |-> 0]
  /\ [][/\ Next /\ OnSchedule
        /\ unstaked_in' = [unstaked_in EXCEPT ![epoch_height] = @ + noted]]_punctual_vars

-----------------------------------------------------------------------------
(***************************************************************************)
(* "The new total unstaked balance will be available for withdrawal in four *)
(* epochs" (lib.rs:391): once the epoch an unstake promised has come and    *)
(* its heartbeat is done, the reserve can pay the claim.                    *)
(***************************************************************************)
ClaimsInTime ==
  heartbeat_done =>
    \A u \in Users :
      epoch_height >= accounts[u].unstaked_requested_unlock_epoch
        => accounts[u].unstaked <= reserve_for_unstake_claims

(***************************************************************************)
(* "The user has a claim to this amount, 4-8 epochs form now"               *)
(* (internal.rs:186). Of all that was unstaked, what is not in the reserve  *)
(* yet, once the heartbeat of an epoch is done, was asked for in the last   *)
(* two waiting periods: however pools are blocked by earlier unstaking, and *)
(* orders left over by it, no order waits longer than one period for a pool *)
(* and one more in it.                                                      *)
(***************************************************************************)
asked_since(epoch) ==
  SumFunctionOnSet(unstaked_in, {e \in DOMAIN unstaked_in : e >= epoch})

ReservedInTime ==
  heartbeat_done =>
    total_unstaked_and_waiting + epoch_unstake_orders
      <= asked_since(epoch_height + 1 - 2 * NumEpochsToUnlock)
=============================================================================
