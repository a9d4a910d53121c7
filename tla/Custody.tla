------------------------------ MODULE Custody ------------------------------
(***************************************************************************)
(* What the meta-pool promises to those who trust it with their NEAR, with  *)
(* no word of staking pools, orders, locks or calls. NEAR is liquid (what   *)
(* the liquidity pool pays from), or backs the minted stNEAR, or is claimed *)
(* by users who unstaked. It only moves between these in the ways below,    *)
(* never enters or leaves unaccounted, and no move lowers the price of      *)
(* stNEAR, but for the truncation of one share when stNEAR is burned.       *)
(***************************************************************************)
EXTENDS Integers

CONSTANTS Owners,   (* who may claim                                        *)
          Delay     (* the epochs a claim waits, at least                   *)

VARIABLES liquidity, backing, minted,
          claim, unlock,    (* of each owner: NEAR claimed, and from when   *)
          claims,           (* what they claim together                     *)
          held,             (* NEAR in custody, wherever it is              *)
          clock             (* epochs                                       *)

custody_vars == <<liquidity, backing, minted, claim, unlock, claims, held, clock>>

Init ==
  /\ liquidity = 0 /\ backing = 0 /\ minted = 0 /\ claims = 0 /\ held = 0
  /\ claim = [u \in Owners |-> 0]
  /\ unlock = [u \in Owners |-> 0]
  /\ clock \in Nat

(* backing' / minted' >= backing / minted, exactly and but for one share. *)
PriceKept == minted > 0 => backing' * minted >= backing * minted'

PriceKeptButOneShare ==
  minted > 0 => backing' * minted + backing >= backing * minted'

(* NEAR is paid in; the liquidity pool may sell stNEAR for a part of it. *)
Deposit ==
  /\ held' > held
  /\ liquidity' >= liquidity
  /\ liquidity' + backing' = liquidity + backing + (held' - held)
  /\ PriceKept \/ (liquidity' > liquidity /\ PriceKeptButOneShare)
  /\ UNCHANGED <<claim, unlock, claims, clock>>

(* The liquidity pool buys back NEAR with stNEAR, which is burned. *)
Clear ==
  /\ liquidity' > liquidity
  /\ liquidity' + backing' = liquidity + backing
  /\ minted' <= minted
  /\ PriceKeptButOneShare
  /\ UNCHANGED <<claim, unlock, claims, held, clock>>

(* Liquid NEAR is paid out, to who sold stNEAR or liquidity shares for it. *)
Pay ==
  /\ held' < held
  /\ liquidity' + (held - held') = liquidity
  /\ UNCHANGED <<backing, minted, claim, unlock, claims, clock>>

(* What backed the burned stNEAR is claimed, and the owner has to wait. *)
Unstake(u) ==
  /\ backing' < backing /\ minted' < minted
  /\ PriceKeptButOneShare
  /\ claim' = [claim EXCEPT ![u] = @ + (backing - backing')]
  /\ claims' = claims + (backing - backing')
  /\ unlock'[u] >= clock + Delay
  /\ unlock' = [unlock EXCEPT ![u] = unlock'[u]]
  /\ UNCHANGED <<liquidity, held, clock>>

(* A claim is paid, not before its time, and in NEAR nobody else counts on. *)
Withdraw(u) ==
  /\ clock >= unlock[u]
  /\ held' < held
  /\ claim' = [claim EXCEPT ![u] = @ - (held - held')]
  /\ claim'[u] >= 0
  /\ claims' = claims - (held - held')
  /\ UNCHANGED <<liquidity, backing, minted, unlock, clock>>

(* Rewards raise the price; their fees are minted and do not lower it. *)
Reward ==
  /\ held' > held
  /\ backing' = backing + (held' - held)
  /\ minted' >= minted
  /\ PriceKept
  /\ UNCHANGED <<liquidity, claim, unlock, claims, clock>>

Tick ==
  /\ clock' = clock + 1
  /\ UNCHANGED <<liquidity, backing, minted, claim, unlock, claims, held>>

Next ==
  \/ Deposit \/ Clear \/ Pay \/ Reward \/ Tick
  \/ \E u \in Owners : Unstake(u) \/ Withdraw(u)

Spec == Init /\ [][Next]_custody_vars

-----------------------------------------------------------------------------
(* All NEAR in custody is liquid, backs stNEAR or is claimed: none is lost. *)
Backed == held = liquidity + backing + claims
=============================================================================
