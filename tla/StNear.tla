------------------------------- MODULE StNear -------------------------------
(***************************************************************************)
(* stNEAR as a NEP-141 token. Transfers move shares between accounts and    *)
(* are open while the contract is busy. ft_transfer_call moves the shares   *)
(* at once, then calls the receiver and, in a callback, gives back what it  *)
(* left unused, as far as the receiver still has it: in between anyone,     *)
(* the receiver included, may transfer, unstake, sell or be paid stNEAR.    *)
(*                                                                          *)
(* Left out: the yocto attached, the gas required, the metadata.            *)
(***************************************************************************)
EXTENDS MetaPool

CONSTANTS
  Holders,         (* the accounts that transfer stNEAR                     *)
  Receipts,        (* bound: transfer calls in flight, by their receipt     *)
  TransferAmounts, (* stNEAR asked of ft_transfer and ft_transfer_call      *)
  UnusedReplies    (* what ft_on_transfer may answer, more than sent too    *)

ASSUME TransfersAssumption ==
  /\ Holders \subseteq Accounts \ {NSLP}
  /\ TransferAmounts \cup UnusedReplies \subseteq Nat

VARIABLE transfers (* the transfer call of each receipt, if in flight       *)

st_near_vars == <<vars, transfers>>

TransferCall == [sender : Holders, receiver : Holders, amount : Nat,
                 status : {"sent", "ok", "failed"}, unused : Nat]

none == [status |-> "none"]

StNearInit == Init /\ transfers = [r \in Receipts |-> none]

-----------------------------------------------------------------------------
(* Mutant of assert_different. *)
may_be_the_same(sender, receiver) == TRUE

(* Both accounts are read before either is saved: they have to be different. *)
assert_different(sender, receiver) == sender # receiver

shares_only ==
  UNCHANGED <<total_available, order_vars, stake_vars, claim_vars, pool_vars,
              money_vars, accumulated_staked_rewards, epoch_height>>

internal_st_near_transfer(sender, receiver, amount) ==
  /\ assert_different(sender, receiver)
  /\ amount > 0
  /\ amount <= accounts[sender].stake_shares
  /\ LET sender_shares == accounts[sender].stake_shares - amount
         receiver_shares == accounts[receiver].stake_shares + amount
     IN accounts' = [accounts EXCEPT ![sender].stake_shares = sender_shares,
                                     ![receiver].stake_shares = receiver_shares]
  /\ UNCHANGED total_stake_shares

ft_transfer(sender, receiver, amount) ==
  /\ internal_st_near_transfer(sender, receiver, amount)
  /\ shares_only
  /\ UNCHANGED transfers

ft_transfer_call(r, sender, receiver, amount) ==
  /\ transfers[r] = none
  /\ internal_st_near_transfer(sender, receiver, amount)
  /\ shares_only
  /\ transfers' = [transfers EXCEPT ![r] =
       [sender |-> sender, receiver |-> receiver, amount |-> amount,
        status |-> "sent", unused |-> 0]]

(* The receiver's contract answers what it did not use, or fails. *)
ft_on_transfer(r) ==
  /\ transfers[r].status = "sent"
  /\ \/ \E unused \in UnusedReplies :
          transfers' = [transfers EXCEPT ![r].status = "ok", ![r].unused = unused]
     \/ transfers' = [transfers EXCEPT ![r].status = "failed"]
  /\ UNCHANGED vars

(***************************************************************************)
(* int_ft_resolve_transfer: a receiver that failed, or whose answer is not  *)
(* an amount, has used nothing.                                             *)
(***************************************************************************)
unused_amount(t) ==
  IF t.status = "ok" THEN minimum(t.amount, t.unused) ELSE t.amount

(* Mutant of refund_amount: what was left unused, wherever it is by now. *)
refund_all_unused(t) == unused_amount(t)

refund_amount(t) == minimum(accounts[t.receiver].stake_shares, unused_amount(t))

(* From one account, saved, to the other. *)
refunded(t) ==
  accounts' = [accounts EXCEPT ![t.receiver].stake_shares = @ - refund_amount(t),
                               ![t.sender].stake_shares = @ + refund_amount(t)]

(* Mutants of refund: what the receiver returns is burned, or is waited for *)
(* while the contract is busy, as for the lock of the TODO at line 112.     *)
refund_burned(t) ==
  /\ accounts' = [accounts EXCEPT ![t.receiver].stake_shares = @ - refund_amount(t)]
  /\ total_stake_shares' = total_stake_shares - refund_amount(t)

refund_when_free(t) ==
  /\ assert_not_busy
  /\ refunded(t)
  /\ UNCHANGED total_stake_shares

refund(t) ==
  /\ refunded(t)
  /\ UNCHANGED total_stake_shares

ft_resolve_transfer(r) ==
  /\ transfers[r].status \in {"ok", "failed"}
  /\ refund(transfers[r])
  /\ shares_only
  /\ transfers' = [transfers EXCEPT ![r] = none]

-----------------------------------------------------------------------------
TransferStep ==
  \/ \E sender, receiver \in Holders, amount \in TransferAmounts :
       \/ ft_transfer(sender, receiver, amount)
       \/ \E r \in Receipts : ft_transfer_call(r, sender, receiver, amount)
  \/ \E r \in Receipts : ft_on_transfer(r) \/ ft_resolve_transfer(r)

StNearNext == (Next /\ UNCHANGED transfers) \/ TransferStep

(* The runtime executes every receipt, and gas bounds what a receiver does. *)
StNearSpec ==
  /\ StNearInit /\ [][StNearNext]_st_near_vars
  /\ \A r \in Receipts :
       WF_st_near_vars(ft_on_transfer(r)) /\ WF_st_near_vars(ft_resolve_transfer(r))

-----------------------------------------------------------------------------
(* Shares are never negative and a call in flight is what was scheduled:    *)
(* a refund finds the shares it takes, although the receiver spent some.    *)
StNearTypeOK ==
  /\ accounts \in [Accounts -> Account]
  /\ total_stake_shares \in Nat
  /\ transfers \in [Receipts -> TransferCall \cup {none}]

(* Every transfer call is resolved and what was left unused returned, also  *)
(* when the contract is locked for good by a heartbeat call that panicked.  *)
TransfersResolved ==
  \A r \in Receipts : transfers[r] # none ~> transfers[r] = none
=============================================================================
