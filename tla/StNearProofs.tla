---------------------------- MODULE StNearProofs ----------------------------
(***************************************************************************)
(* Transfers of stNEAR, interleaved with everything else the contract does: *)
(* each moves shares of one holder to another, and nothing the theorems of  *)
(* the other modules rest on is about who holds the shares. A call in       *)
(* flight is between two different accounts, so that its refund moves       *)
(* shares back too, and no more of them than the receiver still has.        *)
(***************************************************************************)
EXTENDS StNear, MetaPoolCustodyProofs

Moved(sender, receiver, amount) ==
  /\ sender # receiver
  /\ amount <= accounts[sender].stake_shares
  /\ accounts' = [accounts EXCEPT ![sender].stake_shares = @ - amount,
                                  ![receiver].stake_shares = @ + amount]
  /\ UNCHANGED total_stake_shares
  /\ shares_only

SomeMoved ==
  \E sender, receiver \in Holders, amount \in Nat : Moved(sender, receiver, amount)

TransfersTyped ==
  /\ transfers \in [Receipts -> TransferCall \cup {none}]
  /\ \A r \in Receipts : transfers[r] # none =>
       transfers[r].sender # transfers[r].receiver

-----------------------------------------------------------------------------
(* A call in flight has the fields of one, and names two holders. *)
LEMMA CallOf ==
  ASSUME TransfersTyped, NEW r \in Receipts, transfers[r] # none
  PROVE  /\ transfers[r] \in TransferCall
         /\ transfers[r].sender \in Holders /\ transfers[r].receiver \in Holders
         /\ transfers[r].sender # transfers[r].receiver
  BY DEF TransfersTyped, TransferCall

LEMMA HolderAccount ==
  ASSUME TypeOK, NEW a \in Holders
  PROVE  /\ a \in Accounts /\ a # NSLP
         /\ accounts[a] \in Account /\ accounts[a].stake_shares \in Nat
  BY TransfersAssumption DEF TypeOK, Account

(* What is given back is what the receiver has, at most. *)
LEMMA RefundBounds ==
  ASSUME TypeOK, NEW t \in TransferCall
  PROVE  /\ refund_amount(t) \in Nat
         /\ refund_amount(t) <= accounts[t.receiver].stake_shares
  <1>1. /\ t.receiver \in Holders /\ t.amount \in Nat /\ t.unused \in Nat
    BY DEF TransferCall
  <1>2. accounts[t.receiver].stake_shares \in Nat
    BY <1>1, HolderAccount
  <1>3. unused_amount(t) \in Nat
    BY <1>1 DEF unused_amount, minimum
  <1> QED
    BY <1>2, <1>3 DEF refund_amount, minimum

LEMMA TransferMoves ==
  ASSUME TypeOK, NEW sender \in Holders, NEW receiver \in Holders,
         NEW amount \in TransferAmounts,
         internal_st_near_transfer(sender, receiver, amount), shares_only
  PROVE  Moved(sender, receiver, amount) /\ amount \in Nat
  <1>1. /\ sender # receiver /\ amount \in Nat /\ amount <= accounts[sender].stake_shares
        /\ UNCHANGED total_stake_shares
        /\ accounts' = [accounts EXCEPT
             ![sender].stake_shares = accounts[sender].stake_shares - amount,
             ![receiver].stake_shares = accounts[receiver].stake_shares + amount]
    BY TransfersAssumption DEF internal_st_near_transfer, assert_different
  <1>2. accounts' = [accounts EXCEPT ![sender].stake_shares = @ - amount,
                                     ![receiver].stake_shares = @ + amount]
    BY <1>1, HolderAccount DEF TypeOK
  <1> QED
    BY <1>1, <1>2 DEF Moved

LEMMA RefundMoves ==
  ASSUME TypeOK, TransfersTyped, NEW r \in Receipts, ft_resolve_transfer(r)
  PROVE  SomeMoved
  <1> DEFINE t == transfers[r]
  <1>1. t # none
    BY DEF ft_resolve_transfer, none
  <1>2. /\ t \in TransferCall /\ t.sender \in Holders /\ t.receiver \in Holders
        /\ t.sender # t.receiver
    BY <1>1, CallOf
  <1>3. /\ refund_amount(t) \in Nat
        /\ refund_amount(t) <= accounts[t.receiver].stake_shares
    BY <1>2, RefundBounds
  <1>4. /\ accounts' = [accounts EXCEPT ![t.receiver].stake_shares = @ - refund_amount(t),
                                        ![t.sender].stake_shares = @ + refund_amount(t)]
        /\ UNCHANGED total_stake_shares /\ shares_only
    BY DEF ft_resolve_transfer, refund, refunded
  <1>5. Moved(t.receiver, t.sender, refund_amount(t))
    <2> HIDE DEF t
    <2> QED
      BY <1>2, <1>3, <1>4 DEF Moved
  <1> QED
    BY <1>2, <1>3, <1>5 DEF SomeMoved

(* What a step of the token does to the shares, and to the calls in flight. *)
LEMMA TransferStepMoves ==
  ASSUME TypeOK, TransfersTyped, TransferStep
  PROVE  (UNCHANGED vars \/ SomeMoved) /\ TransfersTyped'
  <1>1. ASSUME NEW sender \in Holders, NEW receiver \in Holders,
               NEW amount \in TransferAmounts,
               \/ ft_transfer(sender, receiver, amount)
               \/ \E r \in Receipts : ft_transfer_call(r, sender, receiver, amount)
        PROVE  SomeMoved /\ TransfersTyped'
    <2>1. /\ internal_st_near_transfer(sender, receiver, amount)
          /\ shares_only
      BY <1>1 DEF ft_transfer, ft_transfer_call
    <2>2. Moved(sender, receiver, amount) /\ amount \in Nat
      BY <2>1, TransferMoves
    <2>3. SomeMoved
      BY <2>2 DEF SomeMoved
    <2>4. CASE ft_transfer(sender, receiver, amount)
      BY <2>3, <2>4 DEF ft_transfer, TransfersTyped
    <2>5. ASSUME NEW r \in Receipts, ft_transfer_call(r, sender, receiver, amount)
          PROVE  TransfersTyped'
      <3> DEFINE t == [sender |-> sender, receiver |-> receiver, amount |-> amount,
                       status |-> "sent", unused |-> 0]
      <3>1. t \in TransferCall /\ t.sender # t.receiver
        BY <2>2 DEF TransferCall, Moved
      <3>2. transfers' = [transfers EXCEPT ![r] = t]
        BY <2>5 DEF ft_transfer_call
      <3> HIDE DEF t
      <3> QED
        BY <3>1, <3>2 DEF TransfersTyped
    <2> QED
      BY <1>1, <2>3, <2>4, <2>5
  <1>2. ASSUME NEW r \in Receipts, ft_on_transfer(r)
        PROVE  UNCHANGED vars /\ TransfersTyped'
    <2>1. transfers[r] # none
      BY <1>2 DEF ft_on_transfer, none
    <2>2. transfers[r] \in TransferCall /\ transfers[r].sender # transfers[r].receiver
      BY <2>1, CallOf
    <2>3. PICK t \in TransferCall :
            t.sender # t.receiver /\ transfers' = [transfers EXCEPT ![r] = t]
      <3>1. CASE transfers' = [transfers EXCEPT ![r].status = "failed"]
        <4>1. [transfers[r] EXCEPT !.status = "failed"] \in TransferCall
          BY <2>2 DEF TransferCall
        <4> QED
          BY <2>2, <3>1, <4>1 DEF TransferCall, TransfersTyped
      <3>2. ASSUME NEW unused \in UnusedReplies,
                   transfers' = [transfers EXCEPT ![r].status = "ok", ![r].unused = unused]
            PROVE  \E t \in TransferCall :
                     t.sender # t.receiver /\ transfers' = [transfers EXCEPT ![r] = t]
        <4> DEFINE t == [transfers[r] EXCEPT !.status = "ok", !.unused = unused]
        <4>1. t \in TransferCall /\ t.sender # t.receiver
          BY <2>2, TransfersAssumption DEF TransferCall
        <4>2. transfers' = [transfers EXCEPT ![r] = t]
          BY <3>2 DEF TransfersTyped
        <4> QED
          BY <4>1, <4>2
      <3> QED
        BY <1>2, <3>1, <3>2 DEF ft_on_transfer
    <2> QED
      BY <1>2, <2>3 DEF ft_on_transfer, TransfersTyped
  <1>3. ASSUME NEW r \in Receipts, ft_resolve_transfer(r)
        PROVE  SomeMoved /\ TransfersTyped'
    BY <1>3, RefundMoves DEF ft_resolve_transfer, TransfersTyped
  <1> QED
    BY <1>1, <1>2, <1>3 DEF TransferStep

-----------------------------------------------------------------------------
(* A move of shares leaves everything but the two holders' shares. *)
LEMMA MovedFields ==
  ASSUME TypeOK, NEW s \in Holders, NEW r \in Holders, NEW n \in Nat, Moved(s, r, n)
  PROVE  /\ accounts' \in [Accounts -> Account]
         /\ \A a \in Accounts \ {s, r} : accounts'[a] = accounts[a]
         /\ \A a \in Accounts :
              /\ accounts'[a].available = accounts[a].available
              /\ accounts'[a].unstaked = accounts[a].unstaked
              /\ accounts'[a].nslp_shares = accounts[a].nslp_shares
              /\ accounts'[a].unstaked_requested_unlock_epoch
                   = accounts[a].unstaked_requested_unlock_epoch
         /\ accounts'[s].stake_shares = accounts[s].stake_shares - n
         /\ accounts'[r].stake_shares = accounts[r].stake_shares + n
  <1>1. /\ s \in Accounts /\ r \in Accounts /\ s # r
        /\ accounts[s] \in Account /\ accounts[s].stake_shares \in Nat
        /\ accounts[r] \in Account /\ accounts[r].stake_shares \in Nat
        /\ n <= accounts[s].stake_shares
    BY HolderAccount DEF Moved
  <1> DEFINE sender == [accounts[s] EXCEPT !.stake_shares = accounts[s].stake_shares - n]
             receiver == [accounts[r] EXCEPT !.stake_shares = accounts[r].stake_shares + n]
  <1>2. sender \in Account /\ receiver \in Account
    <2>1. /\ accounts[s].stake_shares - n \in Nat
          /\ accounts[r].stake_shares + n \in Nat
      BY <1>1
    <2> QED
      BY <1>1, <2>1 DEF Account
  <1>3. accounts' = [accounts EXCEPT ![s] = sender, ![r] = receiver]
    BY <1>1 DEF Moved, TypeOK
  <1>4. /\ sender.available = accounts[s].available
        /\ sender.unstaked = accounts[s].unstaked
        /\ sender.nslp_shares = accounts[s].nslp_shares
        /\ sender.unstaked_requested_unlock_epoch
             = accounts[s].unstaked_requested_unlock_epoch
        /\ sender.stake_shares = accounts[s].stake_shares - n
        /\ receiver.available = accounts[r].available
        /\ receiver.unstaked = accounts[r].unstaked
        /\ receiver.nslp_shares = accounts[r].nslp_shares
        /\ receiver.unstaked_requested_unlock_epoch
             = accounts[r].unstaked_requested_unlock_epoch
        /\ receiver.stake_shares = accounts[r].stake_shares + n
    BY <1>1 DEF Account
  <1> HIDE DEF sender, receiver
  <1>5. /\ accounts' \in [Accounts -> Account]
        /\ \A a \in Accounts \ {s, r} : accounts'[a] = accounts[a]
        /\ accounts'[s] = sender /\ accounts'[r] = receiver
    BY <1>1, <1>2, <1>3 DEF TypeOK
  <1> QED
    BY <1>4, <1>5

(* The variables that no move of shares writes. *)
LEMMA MovedKeeps ==
  ASSUME shares_only, UNCHANGED total_stake_shares
  PROVE  /\ UNCHANGED <<total_available, epoch_stake_orders, epoch_unstake_orders,
                        total_for_staking, total_actually_staked, total_stake_shares,
                        reserve_for_unstake_claims, total_unstaked_and_waiting,
                        total_unstake_claims, contract_account_balance, account_balance,
                        incoming, accumulated_staked_rewards, epoch_height,
                        contract_busy, staking_pools, promises>>
  BY DEF shares_only, order_vars, stake_vars, claim_vars, pool_vars, money_vars

LEMMA MovedKeepsTotals ==
  ASSUME TypeOK, AccountsAddUp,
         NEW s \in Holders, NEW r \in Holders, NEW n \in Nat, Moved(s, r, n)
  PROVE  AccountsAddUp'
  <1> DEFINE A == Accounts
             available == [a \in A |-> accounts[a].available]
             unstaked == [a \in A |-> accounts[a].unstaked]
             shares == [a \in A |-> accounts[a].stake_shares]
             lp == [a \in A |-> accounts[a].nslp_shares]
             shares2 == [a \in A |-> accounts'[a].stake_shares]
             sent == [a \in A |-> IF a = s THEN shares2[a] ELSE shares[a]]
  <1>1. /\ s \in A /\ r \in A /\ s # r
        /\ \A a \in A : accounts[a] \in Account /\ accounts'[a] \in Account
    BY HolderAccount, MovedFields DEF Moved, TypeOK
  <1>2. /\ \A a \in A : shares[a] \in Int /\ shares2[a] \in Int /\ sent[a] \in Int
    BY <1>1, AccountFields
  <1>3. /\ \A a \in A \ {s} : sent[a] = shares[a]
        /\ \A a \in A \ {r} : shares2[a] = sent[a]
        /\ sent[s] = shares[s] - n /\ sent[r] = shares[r]
        /\ shares2[r] = shares[r] + n
    BY <1>1, MovedFields
  <1>4. IsFiniteSet(A)
    BY AccountsFinite
  <1>5. total_stake_shares = SumFunctionOnSet(shares, A)
    BY DEF AccountsAddUp, SumFunction
  <1>6. /\ [a \in A |-> accounts'[a].available] = available
        /\ [a \in A |-> accounts'[a].unstaked] = unstaked
        /\ [a \in A |-> accounts'[a].nslp_shares] = lp
        /\ accounts'[NSLP].nslp_shares = accounts[NSLP].nslp_shares
    BY AccountNames, MovedFields
  <1>7. UNCHANGED <<total_available, total_unstake_claims, total_stake_shares>>
    BY MovedKeeps DEF Moved
  <1>8. SumFunctionOnSet(shares2, A) = SumFunctionOnSet(shares, A)
    <2> HIDE DEF A, shares, shares2, sent
    <2>1. SumFunctionOnSet(sent, A) = SumFunctionOnSet(shares, A) + (sent[s] - shares[s])
      BY <1>1, <1>2, <1>3, <1>4, SumOfOneChange
    <2>2. SumFunctionOnSet(shares2, A) = SumFunctionOnSet(sent, A) + (shares2[r] - sent[r])
      BY <1>1, <1>2, <1>3, <1>4, SumOfOneChange
    <2>3. SumFunctionOnSet(shares, A) \in Int
      BY <1>2, <1>4, SumInt
    <2> QED
      BY <1>1, <1>2, <1>3, <2>1, <2>2, <2>3
  <1> QED
    BY <1>5, <1>6, <1>7, <1>8 DEF AccountsAddUp, SumFunction

LEMMA MovedKeepsAvailable ==
  ASSUME TypeOK, OnlyPoolHasAvailable,
         NEW s \in Holders, NEW r \in Holders, NEW n \in Nat, Moved(s, r, n)
  PROVE  OnlyPoolHasAvailable'
  BY MovedFields DEF OnlyPoolHasAvailable

LEMMA MovedKeepsTypes ==
  ASSUME TypeOK, NEW s \in Holders, NEW r \in Holders, NEW n \in Nat, Moved(s, r, n)
  PROVE  TypeOK'
  <1>1. accounts' \in [Accounts -> Account]
    BY MovedFields
  <1> QED
    BY <1>1, MovedKeeps DEF Moved, TypeOK

LEMMA MovedKeepsBooks ==
  ASSUME OneCallInFlight, Books, PriceAtLeastOne, shares_only, UNCHANGED total_stake_shares
  PROVE  OneCallInFlight' /\ Books' /\ PriceAtLeastOne'
  <1>1. OneCallInFlight'
    BY MovedKeeps DEF OneCallInFlight
  <1>2. PriceAtLeastOne'
    BY MovedKeeps DEF PriceAtLeastOne
  <1>3. /\ promises' = promises
        /\ in_flight({"stake", "restake"})' = in_flight({"stake", "restake"})
        /\ in_flight({"unstake"})' = in_flight({"unstake"})
        /\ sent_not_deducted' = sent_not_deducted
        /\ paid_not_recorded' = paid_not_recorded
    BY MovedKeeps DEF in_flight, sent_not_deducted, paid_not_recorded
  <1>4. Books'
    <2>1. UnstakedAddsUp' /\ RetrievesAll'
      BY MovedKeeps DEF Books, UnstakedAddsUp, RetrievesAll, unstaked_in_pools
    <2> QED
      BY <1>3, <2>1, MovedKeeps
      DEF Books, CashBacked, ClaimsBacked, OrdersMatchDelta, BalanceMatches
  <1> QED
    BY <1>1, <1>2, <1>4

(* Nothing anyone is owed changes: the shares are the same shares. *)
LEMMA MovedIsInvisible ==
  ASSUME TypeOK, NEW s \in Holders, NEW r \in Holders, NEW n \in Nat, Moved(s, r, n)
  PROVE  UNCHANGED Promised!custody_vars
  <1>1. \A u \in Users :
          /\ accounts'[u].unstaked = accounts[u].unstaked
          /\ accounts'[u].unstaked_requested_unlock_epoch
               = accounts[u].unstaked_requested_unlock_epoch
    BY AccountNames, MovedFields
  <1>2. UNCHANGED recorded_holdings
    BY MovedKeeps DEF Moved, recorded_holdings, in_flight
  <1> QED
    BY <1>1, <1>2, MovedKeeps DEF Moved, Promised!custody_vars

-----------------------------------------------------------------------------
(* The invariant of the contract and its token together. *)
StNearInv ==
  /\ TypeOK /\ OneCallInFlight /\ Books /\ OnlyPoolHasAvailable /\ PriceAtLeastOne
  /\ TransfersTyped

LEMMA InitStNear == StNearInit => StNearInv /\ AccountsAddUp
  <1> SUFFICES ASSUME StNearInit PROVE StNearInv /\ AccountsAddUp
    OBVIOUS
  <1>1. Init /\ TransfersTyped
    BY DEF StNearInit, TransfersTyped
  <1>2. PriceAtLeastOne
    BY <1>1 DEF Init, PriceAtLeastOne
  <1> QED
    BY <1>1, <1>2, InitTyped, InitNoCall, InitBooks, InitLeavesNone, InitAddsUp
    DEF StNearInv

LEMMA StNearSteps ==
  ASSUME StNearInv, [StNearNext]_st_near_vars
  PROVE  ([Next]_vars \/ SomeMoved) /\ TransfersTyped'
  <1>1. CASE [Next]_vars /\ UNCHANGED transfers
    BY <1>1 DEF StNearInv, TransfersTyped
  <1>2. CASE TransferStep
    BY <1>2, TransferStepMoves DEF StNearInv
  <1> QED
    BY <1>1, <1>2 DEF StNearNext, st_near_vars

LEMMA StNearKeepsInv ==
  ASSUME StNearInv, [StNearNext]_st_near_vars
  PROVE  StNearInv'
  <1>1. TypeOK /\ OneCallInFlight /\ Books /\ OnlyPoolHasAvailable /\ PriceAtLeastOne
    BY DEF StNearInv
  <1>2. TransfersTyped'
    BY StNearSteps
  <1>3. CASE [Next]_vars
    <2>1. TypeOK'
      BY <1>1, <1>3, NextTyped
    <2>2. OneCallInFlight' /\ Books' /\ OnlyPoolHasAvailable'
      BY <1>1, <1>3, OneCallStep, NextKeepsBooks, NextLeavesNone
    <2>3. PriceAtLeastOne'
      BY <1>1, <1>3, <2>1, PriceKeptByNext DEF PriceKeptSoFar
    <2> QED
      BY <1>2, <2>1, <2>2, <2>3 DEF StNearInv
  <1>4. CASE SomeMoved
    <2>1. PICK s \in Holders, r \in Holders, n \in Nat : Moved(s, r, n)
      BY <1>4 DEF SomeMoved
    <2>2. TypeOK' /\ OnlyPoolHasAvailable'
      BY <1>1, <2>1, MovedKeepsTypes, MovedKeepsAvailable
    <2>3. OneCallInFlight' /\ Books' /\ PriceAtLeastOne'
      BY <1>1, <2>1, MovedKeepsBooks DEF Moved
    <2> QED
      BY <1>2, <2>2, <2>3 DEF StNearInv
  <1> QED
    BY <1>3, <1>4, StNearSteps

LEMMA StNearInvariant == StNearSpec => []StNearInv
  <1>1. StNearInv /\ [StNearNext]_st_near_vars => StNearInv'
    BY StNearKeepsInv
  <1>2. StNearInit => StNearInv
    BY InitStNear
  <1> QED
    BY <1>1, <1>2, PTL DEF StNearSpec

(***************************************************************************)
(* StNearTypeOK: no holder's shares go below zero. A refund finds what it   *)
(* takes, whatever the receiver did with the shares in between, and it goes *)
(* from one account to another, both read before either is written.         *)
(***************************************************************************)
THEOREM TransfersCorrect == StNearSpec => []StNearTypeOK
  <1>1. StNearInv => StNearTypeOK
    BY DEF StNearInv, TypeOK, TransfersTyped, StNearTypeOK
  <1> QED
    BY <1>1, StNearInvariant, PTL

(***************************************************************************)
(* AccountsAddUp, with transfers: no stNEAR is minted or lost by any order  *)
(* of transfers, refunds, unstakes, sales and fees, of any set of holders,  *)
(* the operator, the treasury and the developers among them or not.         *)
(***************************************************************************)
THEOREM TransfersKeepTotals == StNearSpec => []AccountsAddUp
  <1>1. /\ StNearInv /\ AccountsAddUp /\ [StNearNext]_st_near_vars
        => AccountsAddUp'
    <2> SUFFICES ASSUME StNearInv, AccountsAddUp, [StNearNext]_st_near_vars
                 PROVE  AccountsAddUp'
      OBVIOUS
    <2>1. TypeOK
      BY DEF StNearInv
    <2>2. CASE [Next]_vars
      BY <2>1, <2>2, NextAddsUp
    <2>3. CASE SomeMoved
      BY <2>1, <2>3, MovedKeepsTotals DEF SomeMoved
    <2> QED
      BY <2>2, <2>3, StNearSteps
  <1>2. StNearInit => AccountsAddUp
    BY InitStNear
  <1> QED
    BY <1>1, <1>2, StNearInvariant, PTL DEF StNearSpec

(***************************************************************************)
(* Custody is implemented by the contract and its token together: who holds *)
(* the stNEAR is not a matter of custody, and a transfer, its refund and    *)
(* what a receiver does in between change nothing of what is owed.          *)
(***************************************************************************)
THEOREM TransfersAreNotCustody == StNearSpec => ImplementsCustody
  <1>1. StNearInit => Promised!Init
    BY InitIsPromised DEF StNearInit
  <1>2. StNearInv => Solvent
    BY BooksAreSolvent DEF StNearInv
  <1>3. /\ StNearInv /\ StNearInv' /\ Solvent /\ Solvent'
        /\ [StNearNext]_st_near_vars
        => [Promised!Next]_(Promised!custody_vars)
    <2> SUFFICES ASSUME StNearInv, StNearInv', Solvent, Solvent',
                        [StNearNext]_st_near_vars
                 PROVE  [Promised!Next]_(Promised!custody_vars)
      OBVIOUS
    <2>1. TypeOK /\ TypeOK' /\ OnlyPoolHasAvailable /\ PriceAtLeastOne
      BY DEF StNearInv
    <2>2. CASE [Next]_vars
      BY <2>1, <2>2, StepIsPromised
    <2>3. CASE SomeMoved
      BY <2>1, <2>3, MovedIsInvisible DEF SomeMoved
    <2> QED
      BY <2>2, <2>3, StNearSteps
  <1> QED
    BY <1>1, <1>2, <1>3, StNearInvariant, PTL
    DEF StNearSpec, ImplementsCustody, Promised!Spec
=============================================================================
