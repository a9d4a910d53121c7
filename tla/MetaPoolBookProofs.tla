------------------------- MODULE MetaPoolBookProofs -------------------------
(***************************************************************************)
(* The accounts of the meta-pool, its locks and its books. Nobody but the   *)
(* liquidity pool has NEAR available between two methods, and each total is *)
(* the sum of what the accounts hold. At most one call is in flight, so     *)
(* what the books hold for the calls in flight is the amount of that one    *)
(* call, or nothing; every action then moves equal amounts between entries. *)
(***************************************************************************)
EXTENDS MetaPoolTypeProofs, SumProofs

-----------------------------------------------------------------------------
(* A request for all that is available takes it, close or not. *)
LEMMA TakesAll ==
  ASSUME NEW u, NEW n \in Nat
  PROVE  take_from_available(u, n, n) = n
  BY DEF take_from_available

LEMMA UserAccount ==
  ASSUME TypeOK, OnlyPoolHasAvailable, NEW u \in Users
  PROVE  /\ accounts[u] \in Account /\ accounts[u].available = 0
         /\ u # NSLP /\ accounts[NSLP] \in Account
  BY AccountNames DEF TypeOK, OnlyPoolHasAvailable

(* A method that writes its user's account, and the liquidity pool's. *)
LEMMA TwoAccountsWritten ==
  ASSUME TypeOK, OnlyPoolHasAvailable, NEW u \in Users,
         NEW acc, acc.available = 0, NEW lp,
         accounts' = [accounts EXCEPT ![u] = acc, ![NSLP] = lp]
  PROVE  OnlyPoolHasAvailable'
  BY DEF TypeOK, OnlyPoolHasAvailable

LEMMA OneAccountWritten ==
  ASSUME TypeOK, OnlyPoolHasAvailable, NEW u \in Users,
         NEW acc, acc.available = 0, accounts' = [accounts EXCEPT ![u] = acc]
  PROVE  OnlyPoolHasAvailable'
  BY DEF TypeOK, OnlyPoolHasAvailable

LEMMA SameAccounts ==
  ASSUME OnlyPoolHasAvailable, accounts' = accounts
  PROVE  OnlyPoolHasAvailable'
  BY DEF OnlyPoolHasAvailable

-----------------------------------------------------------------------------
LEMMA StakeLeavesNone ==
  ASSUME TypeOK, OnlyPoolHasAvailable, NEW u \in Users, NEW d \in Deposits,
         deposit_and_stake(u, d)
  PROVE  OnlyPoolHasAvailable'
  <1> DEFINE acc == [accounts[u] EXCEPT !.available = @ + d]
             num_shares == stake_shares_from_amount(d)
             staked == [acc EXCEPT !.available = @ - d, !.stake_shares = @ + num_shares]
  <1>1. d \in Nat
    BY Inputs
  <1>2. acc \in Account /\ acc.available = d
    BY <1>1, UserAccount DEF Account
  <1>3. take_from_available(u, d, acc.available) = d
    BY <1>1, <1>2, TakesAll
  <1>4. PICK sale : accounts' = [accounts EXCEPT ![u] = staked, ![NSLP] = after_sale(@, sale)]
    BY <1>3 DEF deposit_and_stake, internal_stake
  <1>5. staked.available = 0
    BY <1>1, <1>2 DEF Account
  <1>6. accounts' = [accounts EXCEPT ![u] = staked, ![NSLP] = after_sale(accounts[NSLP], sale)]
    <2> HIDE DEF staked
    <2> QED BY <1>4, UserAccount DEF TypeOK
  <1> HIDE DEF staked
  <1> QED
    BY <1>5, <1>6, TwoAccountsWritten

LEMMA UnstakeLeavesNone ==
  ASSUME TypeOK, OnlyPoolHasAvailable, NEW u \in Users, NEW n, unstake(u, n)
  PROVE  OnlyPoolHasAvailable'
  <1>1. accounts[u] \in Account /\ accounts[u].available = 0
    BY UserAccount
  <1> QED
    BY <1>1 DEF unstake, internal_unstake, OnlyPoolHasAvailable, TypeOK, Account

LEMMA WithdrawLeavesNone ==
  ASSUME TypeOK, OnlyPoolHasAvailable, NEW u \in Users, NEW n \in Nat, withdraw(u, n)
  PROVE  OnlyPoolHasAvailable'
  <1> DEFINE available == accounts[u].available + n
             paid == [accounts[u] EXCEPT !.unstaked = @ - n, !.available = available - n]
  <1>1. accounts[u] \in Account /\ accounts[u].available + n = n
    BY UserAccount
  <1>2. take_from_available(u, n, accounts[u].available + n) = n
    BY <1>1, TakesAll
  <1>3. accounts' = [accounts EXCEPT ![u] = paid]
    BY <1>2 DEF withdraw
  <1>4. paid.available = 0
    BY <1>1 DEF Account
  <1> HIDE DEF paid
  <1> QED
    BY <1>3, <1>4, OneAccountWritten

LEMMA AddLiquidityLeavesNone ==
  ASSUME TypeOK, OnlyPoolHasAvailable, NEW u \in Users, NEW d \in LiquidityDeposits,
         nslp_add_liquidity(u, d)
  PROVE  OnlyPoolHasAvailable'
  <1> DEFINE acc == [accounts[u] EXCEPT !.available = @ + d]
             num_shares == nslp_shares_from_amount(d)
             lent == [acc EXCEPT !.available = @ - d, !.nslp_shares = @ + num_shares]
  <1>1. d \in Nat
    BY Inputs
  <1>2. acc \in Account /\ acc.available = d
    BY <1>1, UserAccount DEF Account
  <1>3. take_from_available(u, d, acc.available) = d
    BY <1>1, <1>2, TakesAll
  <1>4. \E lp : accounts' = [accounts EXCEPT ![u] = lent, ![NSLP] = lp]
    BY <1>3 DEF nslp_add_liquidity
  <1>5. lent.available = 0
    BY <1>1, <1>2 DEF Account
  <1> HIDE DEF lent
  <1> QED
    BY <1>4, <1>5, TwoAccountsWritten

(* What is paid for, and out of, the liquidity pool, is an amount. *)
LEMMA SwapFeeNat ==
  ASSUME TypeOK, NEW available \in Nat, NEW n \in Nat
  PROVE  apply_pct(swap_fee_basis_points(available, n), n) \in Nat
  <1>1. swap_fee_basis_points(available, n) \in Nat
    BY Constants, DiscountBounds DEF swap_fee_basis_points
  <1> QED
    BY <1>1, ApplyPctNat

LEMMA PaidInFull ==
  ASSUME NEW u, NEW n \in Int
  PROVE  (0 + n) - take_from_available(u, n, 0 + n) = 0
  BY DEF take_from_available

LEMMA SellLeavesNone ==
  ASSUME TypeOK, OnlyPoolHasAvailable, NEW u \in Users, NEW s \in SellAmounts,
         liquid_unstake(u, s)
  PROVE  OnlyPoolHasAvailable'
  <1> DEFINE acc == accounts[u]
             lp == accounts[NSLP]
             to_sell == IF is_close(s, acc.stake_shares) THEN acc.stake_shares ELSE s
             nears_out == amount_from_stake_shares(to_sell)
             fee == apply_pct(swap_fee_basis_points(lp.available, nears_out), nears_out)
             near == nears_out - fee
             seller == [acc EXCEPT
               !.stake_shares = @ - to_sell,
               !.available = (acc.available + near)
                               - take_from_available(u, near, acc.available + near)]
             fee_in_st_near == stake_shares_from_amount(fee)
             treasury_cut == apply_pct(TreasurySwapCut, fee_in_st_near)
             operator_cut == apply_pct(OperatorSwapCut, fee_in_st_near)
             developers_cut == apply_pct(DevelopersSwapCut, fee_in_st_near)
             cuts == treasury_cut + operator_cut + developers_cut
             buyer == [lp EXCEPT !.available = @ - near,
                                 !.stake_shares = @ + st_near_to_liq_pool(to_sell, cuts)]
  <1>1. /\ acc \in Account /\ lp \in Account /\ acc.available = 0
        /\ lp.available \in Nat /\ to_sell \in Nat
    BY UserAccount, Inputs DEF Account
  <1>2. near \in Int
    <2>1. nears_out \in Nat
      <3> HIDE DEF to_sell
      <3> QED BY <1>1, ValuesNat
    <2> HIDE DEF nears_out
    <2>2. fee \in Nat
      BY <1>1, <2>1, SwapFeeNat
    <2> QED
      BY <2>1, <2>2
  <1>3. accounts' = [accounts EXCEPT
             ![u] = seller, ![NSLP] = buyer,
             ![Treasury].stake_shares = @ + treasury_cut,
             ![Operator].stake_shares = @ + operator_cut,
             ![Developers].stake_shares = @ + developers_cut]
    BY DEF liquid_unstake
  <1>4. seller.available = 0
    <2> HIDE DEF near, to_sell
    <2>1. seller.available = (0 + near) - take_from_available(u, near, 0 + near)
      BY <1>1 DEF Account
    <2> QED
      BY <1>2, <2>1, PaidInFull
  <1> HIDE DEF seller, buyer, treasury_cut, operator_cut, developers_cut
  <1>5. \A a \in Accounts : accounts[a] \in Account
    BY DEF TypeOK
  <1> QED
    BY <1>3, <1>4, <1>5, UserAccount DEF OnlyPoolHasAvailable, TypeOK, Account

LEMMA RemoveLiquidityLeavesNone ==
  ASSUME TypeOK, OnlyPoolHasAvailable, NEW u \in Users, NEW n \in RemoveAmounts,
         nslp_remove_liquidity(u, n)
  PROVE  OnlyPoolHasAvailable'
  <1> DEFINE acc == accounts[u]
             lp == accounts[NSLP]
             valued == amount_from_nslp_shares(acc.nslp_shares)
             all == is_close(n, valued)
             to_remove == IF all THEN valued ELSE n
             to_burn == IF all THEN acc.nslp_shares ELSE nslp_shares_from_amount(n)
             st_near == st_near_to_remove(lp, to_burn)
             near == to_remove - amount_from_stake_shares(st_near)
             left == [acc EXCEPT
               !.available = (acc.available + near)
                               - take_from_available(u, near, acc.available + near),
               !.stake_shares = @ + st_near,
               !.nslp_shares = @ - to_burn]
  <1>1. /\ acc \in Account /\ lp \in Account /\ acc.available = 0
        /\ acc.nslp_shares \in Nat /\ lp.nslp_shares \in Nat /\ lp.stake_shares \in Nat
        /\ n \in Nat
    BY UserAccount, Inputs DEF Account
  <1>2. valued \in Nat /\ nslp_shares_from_amount(n) \in Nat
    BY <1>1, ValuesNat
  <1>3. to_remove \in Nat /\ to_burn \in Nat
    <2> HIDE DEF valued
    <2> QED BY <1>1, <1>2
  <1>4. to_burn > 0 /\ to_burn <= lp.nslp_shares
    BY DEF nslp_remove_liquidity
  <1>5. st_near \in Nat
    <2> HIDE DEF to_burn
    <2>1. lp.nslp_shares \in Nat \ {0}
      BY <1>1, <1>3, <1>4
    <2> QED
      BY <1>1, <1>3, <2>1, ProportionalNat DEF st_near_to_remove
  <1>6. near \in Int
    <2> HIDE DEF to_remove, st_near
    <2>1. amount_from_stake_shares(st_near) \in Nat
      BY <1>5, ValuesNat
    <2> QED
      BY <1>3, <2>1
  <1>7. \E buyer : accounts' = [accounts EXCEPT ![u] = left, ![NSLP] = buyer]
    BY DEF nslp_remove_liquidity
  <1>8. left.available = 0
    <2> HIDE DEF near, st_near, to_burn
    <2>1. left.available = (0 + near) - take_from_available(u, near, 0 + near)
      BY <1>1 DEF Account
    <2> QED
      BY <1>6, <2>1, PaidInFull
  <1> HIDE DEF left
  <1> QED
    BY <1>7, <1>8, TwoAccountsWritten

LEMMA UserStepLeavesNone ==
  ASSUME TypeOK, OnlyPoolHasAvailable, UserStep
  PROVE  OnlyPoolHasAvailable'
  <1> SUFFICES ASSUME NEW u \in Users,
                      \/ \E d \in Deposits : deposit_and_stake(u, d)
                      \/ \E a \in UnstakeAmounts : unstake(u, a)
                      \/ unstake_all(u)
                      \/ \E a \in WithdrawAmounts : withdraw(u, a)
                      \/ withdraw_unstaked(u)
                      \/ \E s \in SellAmounts : liquid_unstake(u, s)
                      \/ \E d \in LiquidityDeposits : nslp_add_liquidity(u, d)
                      \/ \E a \in RemoveAmounts : nslp_remove_liquidity(u, a)
               PROVE  OnlyPoolHasAvailable'
    BY DEF UserStep
  <1>1. CASE \E d \in Deposits : deposit_and_stake(u, d)
    BY <1>1, StakeLeavesNone
  <1>2. CASE \/ \E a \in UnstakeAmounts : unstake(u, a)
             \/ unstake_all(u)
    BY <1>2, UnstakeLeavesNone DEF unstake_all
  <1>3. CASE \/ \E a \in WithdrawAmounts : withdraw(u, a)
             \/ withdraw_unstaked(u)
    <2>1. accounts[u].unstaked \in Nat
      BY UserAccount DEF Account
    <2> QED
      BY <1>3, <2>1, Inputs, WithdrawLeavesNone DEF withdraw_unstaked
  <1>4. CASE \E s \in SellAmounts : liquid_unstake(u, s)
    BY <1>4, SellLeavesNone
  <1>5. CASE \E d \in LiquidityDeposits : nslp_add_liquidity(u, d)
    BY <1>5, AddLiquidityLeavesNone
  <1>6. CASE \E a \in RemoveAmounts : nslp_remove_liquidity(u, a)
    BY <1>6, RemoveLiquidityLeavesNone
  <1> QED
    BY <1>1, <1>2, <1>3, <1>4, <1>5, <1>6

-----------------------------------------------------------------------------
(* The heartbeat writes the account of the liquidity pool, by a sale, and   *)
(* its callback those of the operator and the developers, who earn shares.  *)
LEMMA PoolAccountWritten ==
  ASSUME TypeOK, OnlyPoolHasAvailable,
         NEW lp, accounts' = [accounts EXCEPT ![NSLP] = lp]
  PROVE  OnlyPoolHasAvailable'
  BY DEF OnlyPoolHasAvailable, TypeOK

LEMMA HeartbeatLeavesNone ==
  ASSUME TypeOK, OnlyPoolHasAvailable, HeartbeatCall
  PROVE  OnlyPoolHasAvailable'
  <1>1. CASE distribute_staking_clearing
    BY <1>1, PoolAccountWritten DEF distribute_staking_clearing
  <1>2. CASE ~distribute_staking_clearing
    <2>1. accounts' = accounts
      BY <1>2
      DEF HeartbeatCall, distribute_staking, distribute_staking_call, distribute_unstaking,
          end_of_epoch_clearing, retrieve_funds_from_a_pool, distribute_rewards, user_vars
    <2> QED
      BY <2>1, SameAccounts
  <1> QED
    BY <1>1, <1>2

LEMMA CallbackLeavesNone ==
  ASSUME TypeOK, OnlyPoolHasAvailable, Callback
  PROVE  OnlyPoolHasAvailable'
  <1> SUFFICES ASSUME NEW p \in promises,
                      \/ on_staking_pool_stake_maybe_deposit(p)
                      \/ on_staking_pool_unstake(p)
                      \/ on_retrieve_from_staking_pool(p)
                      \/ on_get_sp_total_balance(p)
                      \/ on_get_sp_total_balance_panics(p)
               PROVE  OnlyPoolHasAvailable'
    BY DEF Callback
  <1>1. CASE on_get_sp_total_balance(p)
    <2>1. PICK operator_shares, developers_shares :
            accounts' = [accounts EXCEPT
              ![Operator].stake_shares = @ + operator_shares,
              ![Developers].stake_shares = @ + developers_shares]
      BY <1>1 DEF on_get_sp_total_balance
    <2>2. \A a \in Accounts : accounts[a] \in Account
      BY DEF TypeOK
    <2> QED
      BY <2>1, <2>2, AccountsAssumption DEF OnlyPoolHasAvailable, TypeOK, Account
  <1>2. CASE ~on_get_sp_total_balance(p)
    <2>1. accounts' = accounts
      BY <1>2
      DEF on_staking_pool_stake_maybe_deposit, on_staking_pool_unstake,
          on_retrieve_from_staking_pool, on_get_sp_total_balance_panics, user_vars
    <2> QED
      BY <2>1, SameAccounts
  <1> QED
    BY <1>1, <1>2

LEMMA EnvironmentLeavesNone ==
  ASSUME OnlyPoolHasAvailable, Environment
  PROVE  OnlyPoolHasAvailable'
  <1>1. accounts' = accounts
    BY DEF Environment, pool_performs, pool_fails, transfer_arrives, next_epoch, user_vars
  <1> QED
    BY <1>1, SameAccounts

LEMMA InitLeavesNone == Init => OnlyPoolHasAvailable
  BY DEF Init, EmptyAccount, OnlyPoolHasAvailable

LEMMA NextLeavesNone ==
  ASSUME TypeOK, OnlyPoolHasAvailable, [Next]_vars
  PROVE  OnlyPoolHasAvailable'
  <1>1. CASE UNCHANGED vars
    BY <1>1, SameAccounts DEF vars, user_vars
  <1> QED
    BY <1>1, UserStepLeavesNone, HeartbeatLeavesNone, CallbackLeavesNone,
       EnvironmentLeavesNone DEF Next

(***************************************************************************)
(* OnlyPoolHasAvailable: whatever users ask for, close to all they have or  *)
(* not, and whatever rounding does to fees and shares.                      *)
(***************************************************************************)
THEOREM NothingLeftAvailable == Spec => []OnlyPoolHasAvailable
  <1>1. TypeOK /\ OnlyPoolHasAvailable /\ [Next]_vars => OnlyPoolHasAvailable'
    BY NextLeavesNone
  <1> QED
    BY <1>1, InitLeavesNone, TypeCorrect, PTL DEF Spec

-----------------------------------------------------------------------------
(***************************************************************************)
(* A method writes the account of one user at most, and those of the        *)
(* liquidity pool, the treasury, the operator and the developers: the sums  *)
(* change by what these change.                                             *)
(***************************************************************************)
OnlySharesWritten(a) ==
  /\ accounts'[a].available = accounts[a].available
  /\ accounts'[a].unstaked = accounts[a].unstaked
  /\ accounts'[a].nslp_shares = accounts[a].nslp_shares

LEMMA AccountFields ==
  ASSUME NEW acc \in Account
  PROVE  /\ acc.available \in Int /\ acc.unstaked \in Int
         /\ acc.stake_shares \in Int /\ acc.nslp_shares \in Int
  BY DEF Account

LEMMA AccountsFinite ==
  /\ IsFiniteSet(Accounts) /\ IsFiniteSet(Accounts \ {NSLP})
  <1>1. IsFiniteSet({NSLP, Operator, Treasury, Developers})
    <2>1. IsFiniteSet({NSLP} \cup {Operator}) /\ IsFiniteSet({Treasury} \cup {Developers})
      BY FS_Singleton, FS_Union
    <2>2. IsFiniteSet(({NSLP} \cup {Operator}) \cup ({Treasury} \cup {Developers}))
      BY <2>1, FS_Union
    <2>3. ({NSLP} \cup {Operator}) \cup ({Treasury} \cup {Developers})
            = {NSLP, Operator, Treasury, Developers}
      OBVIOUS
    <2> QED
      BY <2>2, <2>3
  <1>2. IsFiniteSet(Accounts)
    BY <1>1, AccountsAssumption, FS_Union DEF Accounts
  <1> QED
    BY <1>2, FS_Subset

LEMMA UserTotals ==
  ASSUME TypeOK, TypeOK', AccountsAddUp, NEW u \in Users,
         \A a \in Accounts \ {u, NSLP, Treasury, Operator, Developers} :
            accounts'[a] = accounts[a],
         \A a \in {Treasury, Operator, Developers} : OnlySharesWritten(a),
         accounts'[NSLP].unstaked = accounts[NSLP].unstaked,
         total_available' = total_available
           + (accounts'[NSLP].available - accounts[NSLP].available)
           + (accounts'[u].available - accounts[u].available),
         total_unstake_claims' = total_unstake_claims
           + (accounts'[u].unstaked - accounts[u].unstaked),
         total_stake_shares' = total_stake_shares
           + (accounts'[NSLP].stake_shares - accounts[NSLP].stake_shares)
           + (accounts'[Treasury].stake_shares - accounts[Treasury].stake_shares)
           + (accounts'[Operator].stake_shares - accounts[Operator].stake_shares)
           + (accounts'[Developers].stake_shares - accounts[Developers].stake_shares)
           + (accounts'[u].stake_shares - accounts[u].stake_shares),
         accounts'[NSLP].nslp_shares - accounts[NSLP].nslp_shares
           = accounts'[u].nslp_shares - accounts[u].nslp_shares
  PROVE  AccountsAddUp'
  <1> DEFINE A == Accounts
             available == [a \in A |-> accounts[a].available]
             unstaked == [a \in A |-> accounts[a].unstaked]
             shares == [a \in A |-> accounts[a].stake_shares]
             lp == [a \in A |-> accounts[a].nslp_shares]
             available2 == [a \in A |-> accounts'[a].available]
             unstaked2 == [a \in A |-> accounts'[a].unstaked]
             shares2 == [a \in A |-> accounts'[a].stake_shares]
             lp2 == [a \in A |-> accounts'[a].nslp_shares]
  <1>1. /\ \A a \in A : accounts[a] \in Account /\ accounts'[a] \in Account
        /\ u \in A /\ NSLP \in A /\ Treasury \in A /\ Operator \in A /\ Developers \in A
        /\ NSLP # Treasury /\ NSLP # Operator /\ NSLP # Developers
        /\ Treasury # Operator /\ Treasury # Developers /\ Operator # Developers
        /\ u \notin {NSLP, Treasury, Operator, Developers}
    BY AccountNames, AccountsAssumption DEF TypeOK
  <1>2. /\ \A a \in A : available[a] \in Int /\ available2[a] \in Int
        /\ \A a \in A : unstaked[a] \in Int /\ unstaked2[a] \in Int
        /\ \A a \in A : shares[a] \in Int /\ shares2[a] \in Int
        /\ \A a \in A : lp[a] \in Int /\ lp2[a] \in Int
    BY <1>1, AccountFields
  <1>3. /\ \A a \in A \ {NSLP, Treasury, Operator, Developers, u} : available2[a] = available[a]
        /\ \A a \in {Treasury, Operator, Developers} : available2[a] = available[a]
        /\ \A a \in A \ {u} : unstaked2[a] = unstaked[a]
        /\ \A a \in A \ {NSLP, Treasury, Operator, Developers, u} : shares2[a] = shares[a]
        /\ \A a \in (A \ {NSLP}) \ {u} : lp2[a] = lp[a]
    BY <1>1 DEF OnlySharesWritten
  <1>4. /\ total_available = SumFunctionOnSet(available, A)
        /\ total_unstake_claims = SumFunctionOnSet(unstaked, A)
        /\ total_stake_shares = SumFunctionOnSet(shares, A)
        /\ accounts[NSLP].nslp_shares = SumFunctionOnSet(lp, A \ {NSLP})
    BY DEF AccountsAddUp, SumFunction
  <1>5a. IsFiniteSet(A) /\ IsFiniteSet(A \ {NSLP})
    BY AccountsFinite
  <1> HIDE DEF available, unstaked, shares, lp, available2, unstaked2, shares2, lp2
  <1>5. total_available' = SumFunctionOnSet(available2, A)
    <2>1. SumFunctionOnSet(available2, A)
            = SumFunctionOnSet(available, A)
              + (available2[NSLP] - available[NSLP]) + (available2[Treasury] - available[Treasury])
              + (available2[Operator] - available[Operator])
              + (available2[Developers] - available[Developers])
              + (available2[u] - available[u])
      <3>1. /\ IsFiniteSet(A) /\ \A a \in A : available[a] \in Int /\ available2[a] \in Int
            /\ \A a \in A \ {NSLP, Treasury, Operator, Developers, u} :
                  available2[a] = available[a]
        BY <1>2, <1>3, <1>5a
      <3>2. FiveOf(A, NSLP, Treasury, Operator, Developers, u)
        BY <1>1 DEF FiveOf
      <3> HIDE DEF A
      <3> QED
        BY <3>1, <3>2, SumOfFiveChanges
    <2>2. /\ available2[Treasury] = available[Treasury]
          /\ available2[Operator] = available[Operator]
          /\ available2[Developers] = available[Developers]
      BY <1>1, <1>3
    <2>3. /\ available2[NSLP] = accounts'[NSLP].available
          /\ available[NSLP] = accounts[NSLP].available
          /\ available2[u] = accounts'[u].available /\ available[u] = accounts[u].available
      BY <1>1 DEF available, available2
    <2> QED
      BY <1>1, <1>2, <1>4, <2>1, <2>2, <2>3 DEF TypeOK
  <1>6. total_unstake_claims' = SumFunctionOnSet(unstaked2, A)
    <2>1. SumFunctionOnSet(unstaked2, A)
            = SumFunctionOnSet(unstaked, A) + (unstaked2[u] - unstaked[u])
      <3>1. /\ IsFiniteSet(A) /\ u \in A
            /\ \A a \in A : unstaked[a] \in Int /\ unstaked2[a] \in Int
            /\ \A a \in A \ {u} : unstaked2[a] = unstaked[a]
        BY <1>1, <1>2, <1>3, <1>5a
      <3> HIDE DEF A
      <3> QED
        BY <3>1, SumOfOneChange
    <2>2. unstaked2[u] = accounts'[u].unstaked /\ unstaked[u] = accounts[u].unstaked
      BY <1>1 DEF unstaked, unstaked2
    <2> QED
      BY <1>4, <2>1, <2>2
  <1>7. total_stake_shares' = SumFunctionOnSet(shares2, A)
    <2>1. SumFunctionOnSet(shares2, A)
            = SumFunctionOnSet(shares, A)
              + (shares2[NSLP] - shares[NSLP]) + (shares2[Treasury] - shares[Treasury])
              + (shares2[Operator] - shares[Operator])
              + (shares2[Developers] - shares[Developers])
              + (shares2[u] - shares[u])
      <3>1. /\ IsFiniteSet(A) /\ \A a \in A : shares[a] \in Int /\ shares2[a] \in Int
            /\ \A a \in A \ {NSLP, Treasury, Operator, Developers, u} : shares2[a] = shares[a]
        BY <1>2, <1>3, <1>5a
      <3>2. FiveOf(A, NSLP, Treasury, Operator, Developers, u)
        BY <1>1 DEF FiveOf
      <3> HIDE DEF A
      <3> QED
        BY <3>1, <3>2, SumOfFiveChanges
    <2>2. \A a \in A : shares2[a] = accounts'[a].stake_shares /\ shares[a] = accounts[a].stake_shares
      BY DEF shares, shares2
    <2> QED
      BY <1>1, <1>4, <2>1, <2>2
  <1>8. accounts'[NSLP].nslp_shares = SumFunctionOnSet(lp2, A \ {NSLP})
    <2>1. u \in A \ {NSLP}
      BY <1>1
    <2>2. SumFunctionOnSet(lp2, A \ {NSLP})
            = SumFunctionOnSet(lp, A \ {NSLP}) + (lp2[u] - lp[u])
      <3> DEFINE S == A \ {NSLP}
      <3>1. /\ IsFiniteSet(S) /\ u \in S
            /\ \A a \in S : lp[a] \in Int /\ lp2[a] \in Int
            /\ \A a \in S \ {u} : lp2[a] = lp[a]
        BY <1>2, <1>3, <1>5a, <2>1
      <3> HIDE DEF S
      <3>2. SumFunctionOnSet(lp2, S) = SumFunctionOnSet(lp, S) + (lp2[u] - lp[u])
        BY <3>1, SumOfOneChange
      <3> QED
        BY <3>2 DEF S
    <2>3. lp2[u] = accounts'[u].nslp_shares /\ lp[u] = accounts[u].nslp_shares
      BY <1>1 DEF lp, lp2
    <2>4. /\ accounts'[NSLP].nslp_shares \in Int /\ accounts[NSLP].nslp_shares \in Int
          /\ accounts'[u].nslp_shares \in Int /\ accounts[u].nslp_shares \in Int
      BY <1>1, AccountFields
    <2> QED
      BY <1>4, <2>2, <2>3, <2>4
  <1> QED
    BY <1>5, <1>6, <1>7, <1>8
    DEF AccountsAddUp, SumFunction, available2, unstaked2, shares2, lp2

(* When only the user's account and the liquidity pool's are written. *)
LEMMA PairTotals ==
  ASSUME TypeOK, TypeOK', AccountsAddUp, NEW u \in Users,
         \A a \in Accounts \ {u, NSLP} : accounts'[a] = accounts[a],
         accounts'[NSLP].unstaked = accounts[NSLP].unstaked,
         total_available' = total_available
           + (accounts'[NSLP].available - accounts[NSLP].available)
           + (accounts'[u].available - accounts[u].available),
         total_unstake_claims' = total_unstake_claims
           + (accounts'[u].unstaked - accounts[u].unstaked),
         total_stake_shares' = total_stake_shares
           + (accounts'[NSLP].stake_shares - accounts[NSLP].stake_shares)
           + (accounts'[u].stake_shares - accounts[u].stake_shares),
         accounts'[NSLP].nslp_shares - accounts[NSLP].nslp_shares
           = accounts'[u].nslp_shares - accounts[u].nslp_shares
  PROVE  AccountsAddUp'
  <1>1. \A a \in {Treasury, Operator, Developers} :
          /\ accounts'[a] = accounts[a] /\ accounts[a] \in Account
    BY AccountNames, AccountsAssumption DEF TypeOK
  <1>2. \A a \in {Treasury, Operator, Developers} :
          accounts'[a].stake_shares - accounts[a].stake_shares = 0
    BY <1>1, AccountFields
  <1>3. /\ total_stake_shares \in Int
        /\ accounts'[u].stake_shares - accounts[u].stake_shares \in Int
        /\ accounts'[NSLP].stake_shares - accounts[NSLP].stake_shares \in Int
    <2>1. /\ accounts'[u] \in Account /\ accounts[u] \in Account
          /\ accounts'[NSLP] \in Account /\ accounts[NSLP] \in Account
      BY AccountNames DEF TypeOK
    <2> QED
      BY <2>1, AccountFields DEF TypeOK
  <1>4. total_stake_shares' = total_stake_shares
           + (accounts'[NSLP].stake_shares - accounts[NSLP].stake_shares)
           + (accounts'[Treasury].stake_shares - accounts[Treasury].stake_shares)
           + (accounts'[Operator].stake_shares - accounts[Operator].stake_shares)
           + (accounts'[Developers].stake_shares - accounts[Developers].stake_shares)
           + (accounts'[u].stake_shares - accounts[u].stake_shares)
    BY <1>2, <1>3
  <1> QED
    BY <1>1, <1>4, UserTotals DEF OnlySharesWritten

(* The same for a step that writes no user's account. *)
LEMMA FeeTotals ==
  ASSUME TypeOK, TypeOK', AccountsAddUp,
         \A a \in Accounts \ {NSLP, Operator, Developers} : accounts'[a] = accounts[a],
         OnlySharesWritten(Operator), OnlySharesWritten(Developers),
         accounts'[NSLP].unstaked = accounts[NSLP].unstaked,
         accounts'[NSLP].nslp_shares = accounts[NSLP].nslp_shares,
         total_available' = total_available
           + (accounts'[NSLP].available - accounts[NSLP].available),
         total_unstake_claims' = total_unstake_claims,
         total_stake_shares' = total_stake_shares
           + (accounts'[NSLP].stake_shares - accounts[NSLP].stake_shares)
           + (accounts'[Operator].stake_shares - accounts[Operator].stake_shares)
           + (accounts'[Developers].stake_shares - accounts[Developers].stake_shares)
  PROVE  AccountsAddUp'
  <1> DEFINE A == Accounts
             available == [a \in A |-> accounts[a].available]
             unstaked == [a \in A |-> accounts[a].unstaked]
             shares == [a \in A |-> accounts[a].stake_shares]
             lp == [a \in A |-> accounts[a].nslp_shares]
             available2 == [a \in A |-> accounts'[a].available]
             unstaked2 == [a \in A |-> accounts'[a].unstaked]
             shares2 == [a \in A |-> accounts'[a].stake_shares]
             lp2 == [a \in A |-> accounts'[a].nslp_shares]
  <1>1. /\ \A a \in A : accounts[a] \in Account /\ accounts'[a] \in Account
        /\ NSLP \in A /\ Treasury \in A /\ Operator \in A /\ Developers \in A
        /\ NSLP # Treasury /\ NSLP # Operator /\ NSLP # Developers
        /\ Treasury # Operator /\ Treasury # Developers /\ Operator # Developers
    BY AccountNames, AccountsAssumption DEF TypeOK
  <1>2. /\ \A a \in A : available[a] \in Int /\ available2[a] \in Int
        /\ \A a \in A : unstaked[a] \in Int /\ unstaked2[a] \in Int
        /\ \A a \in A : shares[a] \in Int /\ shares2[a] \in Int
        /\ \A a \in A : lp[a] \in Int /\ lp2[a] \in Int
    BY <1>1, AccountFields
  <1>3. /\ \A a \in A \ {NSLP} : available2[a] = available[a]
        /\ unstaked2 = unstaked
        /\ \A a \in A \ {NSLP, Treasury, Operator, Developers} : shares2[a] = shares[a]
        /\ shares2[Treasury] = shares[Treasury]
        /\ lp2 = lp
    BY <1>1 DEF OnlySharesWritten
  <1>4. /\ total_available = SumFunctionOnSet(available, A)
        /\ total_unstake_claims = SumFunctionOnSet(unstaked, A)
        /\ total_stake_shares = SumFunctionOnSet(shares, A)
        /\ accounts[NSLP].nslp_shares = SumFunctionOnSet(lp, A \ {NSLP})
    BY DEF AccountsAddUp, SumFunction
  <1>5. \A a \in A : /\ shares2[a] = accounts'[a].stake_shares
                     /\ shares[a] = accounts[a].stake_shares
                     /\ available2[a] = accounts'[a].available
                     /\ available[a] = accounts[a].available
    OBVIOUS
  <1>5a. IsFiniteSet(A)
    BY AccountsFinite
  <1> HIDE DEF available, unstaked, shares, lp, available2, unstaked2, shares2, lp2
  <1>6. total_available' = SumFunctionOnSet(available2, A)
    <2>1. SumFunctionOnSet(available2, A)
            = SumFunctionOnSet(available, A) + (available2[NSLP] - available[NSLP])
      <3>1. /\ IsFiniteSet(A) /\ NSLP \in A
            /\ \A a \in A : available[a] \in Int /\ available2[a] \in Int
            /\ \A a \in A \ {NSLP} : available2[a] = available[a]
        BY <1>1, <1>2, <1>3, <1>5a
      <3>2. PICK z \in A : z = NSLP
        BY <1>1
      <3>3. SumFunctionOnSet(available2, A)
              = SumFunctionOnSet(available, A) + (available2[z] - available[z])
        <4>1. /\ IsFiniteSet(A) /\ z \in A
              /\ \A a \in A : available[a] \in Int /\ available2[a] \in Int
              /\ \A a \in A \ {z} : available2[a] = available[a]
          BY <3>1, <3>2
        <4> HIDE DEF A
        <4> QED
          BY <4>1, SumOfOneChange
      <3> QED
        BY <3>2, <3>3
    <2> QED
      BY <1>1, <1>4, <1>5, <2>1
  <1>7. total_stake_shares' = SumFunctionOnSet(shares2, A)
    <2>1. SumFunctionOnSet(shares2, A)
            = SumFunctionOnSet(shares, A)
              + (shares2[NSLP] - shares[NSLP]) + (shares2[Treasury] - shares[Treasury])
              + (shares2[Operator] - shares[Operator])
              + (shares2[Developers] - shares[Developers])
      <3>1. /\ IsFiniteSet(A) /\ \A a \in A : shares[a] \in Int /\ shares2[a] \in Int
            /\ \A a \in A \ {NSLP, Treasury, Operator, Developers} : shares2[a] = shares[a]
        BY <1>2, <1>3, <1>5a
      <3>2. /\ NSLP \in A /\ Treasury \in A /\ Operator \in A /\ Developers \in A
            /\ NSLP # Treasury /\ NSLP # Operator /\ NSLP # Developers
            /\ Treasury # Operator /\ Treasury # Developers /\ Operator # Developers
        BY <1>1
      <3> HIDE DEF A
      <3> QED
        BY <3>1, <3>2, SumOfFourChanges, SMTT(60)
    <2>2. shares2[Treasury] - shares[Treasury] = 0
      BY <1>1, <1>2, <1>3
    <2>3. total_stake_shares \in Int
      BY DEF TypeOK
    <2> QED
      BY <1>1, <1>2, <1>4, <1>5, <2>1, <2>2, <2>3
  <1> QED
    BY <1>3, <1>4, <1>6, <1>7
    DEF AccountsAddUp, SumFunction, available2, unstaked2, shares2, lp2

LEMMA SameTotals ==
  ASSUME AccountsAddUp, UNCHANGED <<accounts, total_available, total_unstake_claims,
                                    total_stake_shares>>
  PROVE  AccountsAddUp'
  BY DEF AccountsAddUp

-----------------------------------------------------------------------------
(* What each method adds to the accounts it writes, it adds to the totals. *)
LEMMA StakeAddsUp ==
  ASSUME TypeOK, AccountsAddUp, NEW u \in Users, NEW d \in Deposits, deposit_and_stake(u, d)
  PROVE  AccountsAddUp'
  <1> DEFINE acc == [accounts[u] EXCEPT !.available = @ + d]
             amount == take_from_available(u, d, acc.available)
             num_shares == stake_shares_from_amount(amount)
             sale == clearing_sale(total_for_staking + amount,
                                   total_stake_shares + num_shares,
                                   epoch_stake_orders + amount,
                                   accounts[NSLP].stake_shares)
             staked == [acc EXCEPT !.available = @ - amount,
                                   !.stake_shares = @ + num_shares]
  <1>1. /\ d \in Nat /\ u \in Accounts /\ NSLP \in Accounts /\ u # NSLP
        /\ accounts \in [Accounts -> Account]
        /\ accounts[u] \in Account /\ accounts[NSLP] \in Account
    BY Inputs, AccountNames DEF TypeOK
  <1>2. amount \in Nat /\ num_shares \in Nat
    <2>1. acc.available \in Nat
      BY <1>1 DEF Account
    <2> HIDE DEF acc
    <2> QED
      BY <1>1, <2>1, TakeNat, ValuesNat
  <1>3. /\ accounts' = [accounts EXCEPT ![u] = staked, ![NSLP] = after_sale(@, sale)]
        /\ total_available' = (total_available + d - amount) + sale.near
        /\ total_stake_shares' = (total_stake_shares + num_shares) - sale.st_near
        /\ UNCHANGED total_unstake_claims
    BY DEF deposit_and_stake, internal_stake, claim_vars
  <1>4. sale.near \in Nat /\ sale.st_near \in Nat
    <2>1. /\ total_for_staking + amount \in Nat /\ total_stake_shares + num_shares \in Nat
          /\ epoch_stake_orders + amount \in Nat /\ accounts[NSLP].stake_shares \in Nat
      BY <1>1, <1>2 DEF TypeOK, Account
    <2> HIDE DEF amount, num_shares
    <2> QED
      BY <2>1, SaleBounds
  <1> HIDE DEF amount, num_shares, sale
  <1>5. /\ accounts'[u].available = (accounts[u].available + d) - amount
        /\ accounts'[u].unstaked = accounts[u].unstaked
        /\ accounts'[u].stake_shares = accounts[u].stake_shares + num_shares
        /\ accounts'[u].nslp_shares = accounts[u].nslp_shares
    BY <1>1, <1>3 DEF Account
  <1>6. /\ accounts'[NSLP].available = accounts[NSLP].available + sale.near
        /\ accounts'[NSLP].unstaked = accounts[NSLP].unstaked
        /\ accounts'[NSLP].stake_shares = accounts[NSLP].stake_shares - sale.st_near
        /\ accounts'[NSLP].nslp_shares = accounts[NSLP].nslp_shares
    BY <1>1, <1>3 DEF Account, after_sale
  <1>7. \A a \in Accounts \ {u, NSLP} : accounts'[a] = accounts[a]
    BY <1>1, <1>3
  <1>8. TypeOK'
    BY TypedLedger, StakeMoves, BalancedTyped
  <1>9. /\ accounts[u].available \in Int /\ accounts[u].unstaked \in Int
        /\ accounts[u].stake_shares \in Int /\ accounts[u].nslp_shares \in Int
        /\ accounts[NSLP].available \in Int /\ accounts[NSLP].stake_shares \in Int
        /\ accounts[NSLP].nslp_shares \in Int
        /\ total_available \in Int /\ total_stake_shares \in Int
        /\ total_unstake_claims \in Int
    BY <1>1, AccountFields DEF TypeOK
  <1> QED
    BY <1>1, <1>2, <1>3, <1>4, <1>5, <1>6, <1>7, <1>8, <1>9, PairTotals

LEMMA UnstakeAddsUp ==
  ASSUME TypeOK, AccountsAddUp, NEW u \in Users, NEW requested \in Nat,
         unstake(u, requested)
  PROVE  AccountsAddUp'
  <1> DEFINE acc == accounts[u]
             valued_shares == amount_from_stake_shares(acc.stake_shares)
             all == is_close(requested, valued_shares)
             amount == IF all THEN valued_shares ELSE requested
             to_burn == IF all THEN acc.stake_shares
                               ELSE stake_shares_from_amount(requested)
  <1>1. /\ u \in Accounts /\ NSLP \in Accounts /\ u # NSLP
        /\ accounts \in [Accounts -> Account]
        /\ acc \in Account /\ accounts[NSLP] \in Account
    BY AccountNames DEF TypeOK
  <1>2. amount \in Nat /\ to_burn \in Nat
    <2>1. acc.stake_shares \in Nat
      BY <1>1 DEF Account
    <2> HIDE DEF acc
    <2> QED
      BY <2>1, ValuesNat
  <1>3. /\ \E epoch : accounts' = [accounts EXCEPT ![u] =
             [acc EXCEPT !.stake_shares = @ - to_burn, !.unstaked = @ + amount,
                         !.unstaked_requested_unlock_epoch = epoch]]
        /\ total_unstake_claims' = total_unstake_claims + amount
        /\ total_stake_shares' = total_stake_shares - to_burn
        /\ UNCHANGED total_available
    BY DEF unstake, internal_unstake
  <1> HIDE DEF amount, to_burn
  <1>4. /\ accounts'[u].available = acc.available
        /\ accounts'[u].unstaked = acc.unstaked + amount
        /\ accounts'[u].stake_shares = acc.stake_shares - to_burn
        /\ accounts'[u].nslp_shares = acc.nslp_shares
        /\ \A a \in Accounts \ {u, NSLP} : accounts'[a] = accounts[a]
        /\ accounts'[NSLP] = accounts[NSLP]
    BY <1>1, <1>3 DEF Account
  <1>5. TypeOK'
    BY TypedLedger, UnstakeMoves, BalancedTyped
  <1>6. /\ acc.available \in Int /\ acc.unstaked \in Int
        /\ acc.stake_shares \in Int /\ acc.nslp_shares \in Int
        /\ accounts[NSLP].available \in Int /\ accounts[NSLP].stake_shares \in Int
        /\ accounts[NSLP].nslp_shares \in Int
        /\ total_available \in Int /\ total_stake_shares \in Int
        /\ total_unstake_claims \in Int
    BY <1>1, AccountFields DEF TypeOK
  <1> QED
    BY <1>1, <1>2, <1>3, <1>4, <1>5, <1>6, PairTotals

LEMMA WithdrawAddsUp ==
  ASSUME TypeOK, AccountsAddUp, NEW u \in Users, NEW requested \in Nat,
         withdraw(u, requested)
  PROVE  AccountsAddUp'
  <1> DEFINE acc == accounts[u]
             available == acc.available + requested
             amount == take_from_available(u, requested, available)
  <1>1. /\ u \in Accounts /\ NSLP \in Accounts /\ u # NSLP
        /\ accounts \in [Accounts -> Account]
        /\ acc \in Account /\ accounts[NSLP] \in Account
        /\ acc.available \in Nat
    BY AccountNames DEF TypeOK, Account
  <1>2. amount \in Nat
    <2>1. available \in Nat
      BY <1>1
    <2> HIDE DEF available
    <2> QED
      BY <2>1, TakeNat
  <1>3. /\ accounts' = [accounts EXCEPT ![u] =
             [acc EXCEPT !.unstaked = @ - requested, !.available = available - amount]]
        /\ total_unstake_claims' = total_unstake_claims - requested
        /\ total_available' = (total_available + requested) - amount
        /\ UNCHANGED total_stake_shares
    BY DEF withdraw
  <1> HIDE DEF amount
  <1>4. /\ accounts'[u].available = (acc.available + requested) - amount
        /\ accounts'[u].unstaked = acc.unstaked - requested
        /\ accounts'[u].stake_shares = acc.stake_shares
        /\ accounts'[u].nslp_shares = acc.nslp_shares
        /\ \A a \in Accounts \ {u, NSLP} : accounts'[a] = accounts[a]
        /\ accounts'[NSLP] = accounts[NSLP]
    BY <1>1, <1>3 DEF Account
  <1>5. TypeOK'
    BY TypedLedger, WithdrawMoves, BalancedTyped
  <1>6. /\ acc.available \in Int /\ acc.unstaked \in Int
        /\ acc.stake_shares \in Int /\ acc.nslp_shares \in Int
        /\ accounts[NSLP].available \in Int /\ accounts[NSLP].stake_shares \in Int
        /\ accounts[NSLP].nslp_shares \in Int
        /\ total_available \in Int /\ total_stake_shares \in Int
        /\ total_unstake_claims \in Int
    BY <1>1, AccountFields DEF TypeOK
  <1> QED
    BY <1>1, <1>2, <1>3, <1>4, <1>5, <1>6, PairTotals

LEMMA AddLiquidityAddsUp ==
  ASSUME TypeOK, AccountsAddUp, NEW u \in Users, NEW d \in LiquidityDeposits,
         nslp_add_liquidity(u, d)
  PROVE  AccountsAddUp'
  <1> DEFINE acc == [accounts[u] EXCEPT !.available = @ + d]
             lp == accounts[NSLP]
             amount == take_from_available(u, d, acc.available)
             num_shares == nslp_shares_from_amount(amount)
  <1>1. /\ d \in Nat /\ u \in Accounts /\ NSLP \in Accounts /\ u # NSLP
        /\ accounts \in [Accounts -> Account]
        /\ accounts[u] \in Account /\ lp \in Account
    BY Inputs, AccountNames DEF TypeOK
  <1>2. amount \in Nat /\ num_shares \in Nat
    <2>1. acc.available \in Nat
      BY <1>1 DEF Account
    <2> HIDE DEF acc
    <2> QED
      BY <1>1, <2>1, TakeNat, ValuesNat
  <1>3. /\ accounts' = [accounts EXCEPT
             ![u] = [acc EXCEPT !.available = @ - amount, !.nslp_shares = @ + num_shares],
             ![NSLP] = [lp EXCEPT !.available = @ + amount, !.nslp_shares = @ + num_shares]]
        /\ total_available' = (total_available + d - amount) + amount
        /\ UNCHANGED <<total_unstake_claims, total_stake_shares>>
    BY DEF nslp_add_liquidity, claim_vars
  <1> HIDE DEF amount, num_shares
  <1>4. /\ accounts'[u].available = (accounts[u].available + d) - amount
        /\ accounts'[u].unstaked = accounts[u].unstaked
        /\ accounts'[u].stake_shares = accounts[u].stake_shares
        /\ accounts'[u].nslp_shares = accounts[u].nslp_shares + num_shares
    BY <1>1, <1>3 DEF Account
  <1>5. /\ accounts'[NSLP].available = lp.available + amount
        /\ accounts'[NSLP].unstaked = lp.unstaked
        /\ accounts'[NSLP].stake_shares = lp.stake_shares
        /\ accounts'[NSLP].nslp_shares = lp.nslp_shares + num_shares
        /\ \A a \in Accounts \ {u, NSLP} : accounts'[a] = accounts[a]
    BY <1>1, <1>3 DEF Account
  <1>6. TypeOK'
    BY TypedLedger, AddLiquidityMoves, BalancedTyped
  <1>7. /\ accounts[u].available \in Int /\ accounts[u].unstaked \in Int
        /\ accounts[u].stake_shares \in Int /\ accounts[u].nslp_shares \in Int
        /\ lp.available \in Int /\ lp.stake_shares \in Int /\ lp.nslp_shares \in Int
        /\ total_available \in Int /\ total_stake_shares \in Int
        /\ total_unstake_claims \in Int
    BY <1>1, AccountFields DEF TypeOK
  <1> QED
    BY <1>1, <1>2, <1>3, <1>4, <1>5, <1>6, <1>7, PairTotals

LEMMA RemoveLiquidityAddsUp ==
  ASSUME TypeOK, AccountsAddUp, NEW u \in Users, NEW n \in RemoveAmounts,
         nslp_remove_liquidity(u, n)
  PROVE  AccountsAddUp'
  <1> DEFINE acc == accounts[u]
             lp == accounts[NSLP]
             valued == amount_from_nslp_shares(acc.nslp_shares)
             all == is_close(n, valued)
             to_remove == IF all THEN valued ELSE n
             to_burn == IF all THEN acc.nslp_shares ELSE nslp_shares_from_amount(n)
             st_near == st_near_to_remove(lp, to_burn)
             near == to_remove - amount_from_stake_shares(st_near)
             amount == take_from_available(u, near, acc.available + near)
  <1>1. /\ u \in Accounts /\ NSLP \in Accounts /\ u # NSLP
        /\ accounts \in [Accounts -> Account]
        /\ acc \in Account /\ lp \in Account
        /\ acc.nslp_shares \in Nat /\ lp.nslp_shares \in Nat /\ lp.stake_shares \in Nat
        /\ acc.available \in Nat /\ n \in Nat
    BY Inputs, AccountNames DEF TypeOK, Account
  <1>2. to_remove \in Nat /\ to_burn \in Nat
    <2>1. valued \in Nat /\ nslp_shares_from_amount(n) \in Nat
      BY <1>1, ValuesNat
    <2> HIDE DEF valued
    <2> QED BY <1>1, <2>1
  <1>3. /\ to_burn > 0 /\ to_burn <= lp.nslp_shares
        /\ accounts' = [accounts EXCEPT
             ![u] = [acc EXCEPT !.available = (acc.available + near) - amount,
                                !.stake_shares = @ + st_near,
                                !.nslp_shares = @ - to_burn],
             ![NSLP] = [lp EXCEPT !.available = @ - near,
                                  !.stake_shares = @ - st_near,
                                  !.nslp_shares = @ - to_burn]]
        /\ total_available' = total_available - amount
        /\ UNCHANGED <<total_unstake_claims, total_stake_shares>>
    BY DEF nslp_remove_liquidity, claim_vars
  <1> HIDE DEF to_burn, to_remove
  <1>4. st_near \in Nat
    <2>1. lp.nslp_shares \in Nat \ {0}
      BY <1>1, <1>2, <1>3
    <2> QED
      BY <1>1, <1>2, <2>1, ProportionalNat DEF st_near_to_remove
  <1> HIDE DEF st_near
  <1>5. near \in Int
    <2>1. amount_from_stake_shares(st_near) \in Nat
      BY <1>4, ValuesNat
    <2> QED
      BY <1>2, <2>1
  <1> HIDE DEF near
  <1>6. amount \in Int
    BY <1>1, <1>5 DEF take_from_available
  <1> HIDE DEF amount
  <1>7. /\ accounts'[u].available = (acc.available + near) - amount
        /\ accounts'[u].unstaked = acc.unstaked
        /\ accounts'[u].stake_shares = acc.stake_shares + st_near
        /\ accounts'[u].nslp_shares = acc.nslp_shares - to_burn
    BY <1>1, <1>3 DEF Account
  <1>8. /\ accounts'[NSLP].available = lp.available - near
        /\ accounts'[NSLP].unstaked = lp.unstaked
        /\ accounts'[NSLP].stake_shares = lp.stake_shares - st_near
        /\ accounts'[NSLP].nslp_shares = lp.nslp_shares - to_burn
        /\ \A a \in Accounts \ {u, NSLP} : accounts'[a] = accounts[a]
    BY <1>1, <1>3 DEF Account
  <1>9. TypeOK'
    BY TypedLedger, RemoveLiquidityMoves, BalancedTyped
  <1>10. /\ acc.available \in Int /\ acc.unstaked \in Int
         /\ acc.stake_shares \in Int /\ acc.nslp_shares \in Int
         /\ lp.available \in Int /\ lp.stake_shares \in Int /\ lp.nslp_shares \in Int
         /\ total_available \in Int /\ total_stake_shares \in Int
         /\ total_unstake_claims \in Int
    BY <1>1, AccountFields DEF TypeOK
  <1> QED
    BY <1>1, <1>2, <1>3, <1>4, <1>5, <1>6, <1>7, <1>8, <1>9, <1>10, PairTotals

LEMMA SellAddsUp ==
  ASSUME TypeOK, AccountsAddUp, NEW u \in Users, NEW s \in SellAmounts,
         liquid_unstake(u, s)
  PROVE  AccountsAddUp'
  <1> DEFINE acc == accounts[u]
             lp == accounts[NSLP]
             to_sell == IF is_close(s, acc.stake_shares) THEN acc.stake_shares ELSE s
             nears_out == amount_from_stake_shares(to_sell)
             fee == apply_pct(swap_fee_basis_points(lp.available, nears_out), nears_out)
             near == nears_out - fee
             amount == take_from_available(u, near, acc.available + near)
             fee_in_st_near == stake_shares_from_amount(fee)
             treasury_cut == apply_pct(TreasurySwapCut, fee_in_st_near)
             operator_cut == apply_pct(OperatorSwapCut, fee_in_st_near)
             developers_cut == apply_pct(DevelopersSwapCut, fee_in_st_near)
             cuts == treasury_cut + operator_cut + developers_cut
             left == st_near_to_liq_pool(to_sell, cuts)
  <1>1. /\ u \in Accounts /\ NSLP \in Accounts
        /\ Treasury \in Accounts /\ Operator \in Accounts /\ Developers \in Accounts
        /\ u \notin {NSLP, Treasury, Operator, Developers}
        /\ NSLP # Treasury /\ NSLP # Operator /\ NSLP # Developers
        /\ Treasury # Operator /\ Treasury # Developers /\ Operator # Developers
        /\ accounts \in [Accounts -> Account]
        /\ \A a \in Accounts : accounts[a] \in Account
        /\ acc.available \in Nat /\ acc.stake_shares \in Nat /\ lp.available \in Nat
        /\ s \in Nat
    BY Inputs, AccountNames, AccountsAssumption DEF TypeOK, Account
  <1>2. to_sell \in Nat
    BY <1>1
  <1>3. /\ accounts' = [accounts EXCEPT
             ![u] = [acc EXCEPT !.stake_shares = @ - to_sell,
                                !.available = (acc.available + near) - amount],
             ![NSLP] = [lp EXCEPT !.available = @ - near, !.stake_shares = @ + left],
             ![Treasury].stake_shares = @ + treasury_cut,
             ![Operator].stake_shares = @ + operator_cut,
             ![Developers].stake_shares = @ + developers_cut]
        /\ total_available' = total_available - amount
        /\ UNCHANGED <<total_unstake_claims, total_stake_shares>>
    BY DEF liquid_unstake, claim_vars
  <1> HIDE DEF to_sell
  <1>4. nears_out \in Nat
    BY <1>2, ValuesNat
  <1> HIDE DEF nears_out
  <1>5. fee \in Nat
    BY <1>1, <1>4, SwapFeeNat
  <1> HIDE DEF fee
  <1>6. near \in Int
    BY <1>4, <1>5
  <1> HIDE DEF near
  <1>7. amount \in Int
    BY <1>1, <1>6 DEF take_from_available
  <1> HIDE DEF amount
  <1>8. fee_in_st_near \in Nat
    BY <1>5, ValuesNat
  <1> HIDE DEF fee_in_st_near
  <1>9. treasury_cut \in Nat /\ operator_cut \in Nat /\ developers_cut \in Nat
    BY <1>8, Constants, ApplyPctNat
  <1> HIDE DEF treasury_cut, operator_cut, developers_cut
  <1>10. left = to_sell - (treasury_cut + operator_cut + developers_cut)
    BY DEF st_near_to_liq_pool
  <1> HIDE DEF cuts, left
  <1>11. /\ accounts'[u].available = (acc.available + near) - amount
         /\ accounts'[u].unstaked = acc.unstaked
         /\ accounts'[u].stake_shares = acc.stake_shares - to_sell
         /\ accounts'[u].nslp_shares = acc.nslp_shares
    BY <1>1, <1>3 DEF Account
  <1>12. /\ accounts'[NSLP].available = lp.available - near
         /\ accounts'[NSLP].unstaked = lp.unstaked
         /\ accounts'[NSLP].stake_shares = lp.stake_shares + left
         /\ accounts'[NSLP].nslp_shares = lp.nslp_shares
    BY <1>1, <1>3 DEF Account
  <1>13. /\ OnlySharesWritten(Treasury) /\ OnlySharesWritten(Operator)
         /\ OnlySharesWritten(Developers)
         /\ accounts'[Treasury].stake_shares = accounts[Treasury].stake_shares + treasury_cut
         /\ accounts'[Operator].stake_shares = accounts[Operator].stake_shares + operator_cut
         /\ accounts'[Developers].stake_shares
              = accounts[Developers].stake_shares + developers_cut
         /\ \A a \in Accounts \ {u, NSLP, Treasury, Operator, Developers} :
               accounts'[a] = accounts[a]
    BY <1>1, <1>3 DEF Account, OnlySharesWritten
  <1>14. TypeOK'
    BY TypedLedger, SellMoves, BalancedTyped
  <1>15. /\ acc.available \in Int /\ acc.unstaked \in Int
         /\ acc.stake_shares \in Int /\ acc.nslp_shares \in Int
         /\ lp.available \in Int /\ lp.stake_shares \in Int /\ lp.nslp_shares \in Int
         /\ accounts[Treasury].stake_shares \in Int /\ accounts[Operator].stake_shares \in Int
         /\ accounts[Developers].stake_shares \in Int
         /\ total_available \in Int /\ total_stake_shares \in Int
         /\ total_unstake_claims \in Int
    BY <1>1, AccountFields DEF TypeOK
  <1>16. /\ total_available' = total_available
              + (accounts'[NSLP].available - accounts[NSLP].available)
              + (accounts'[u].available - accounts[u].available)
         /\ total_unstake_claims' = total_unstake_claims
              + (accounts'[u].unstaked - accounts[u].unstaked)
    <2>1. accounts'[NSLP].available - accounts[NSLP].available = -near
      BY <1>6, <1>12, <1>15
    <2>2. accounts'[u].available - accounts[u].available = near - amount
      BY <1>6, <1>7, <1>11, <1>15
    <2>3. accounts'[u].unstaked - accounts[u].unstaked = 0
      BY <1>11, <1>15
    <2>4. total_available' = total_available - amount
          /\ total_unstake_claims' = total_unstake_claims
      BY <1>3
    <2>5. -near + (near - amount) = -amount
      BY <1>6, <1>7
    <2> DEFINE lp_change == accounts'[NSLP].available - accounts[NSLP].available
               user_change == accounts'[u].available - accounts[u].available
               claim_change == accounts'[u].unstaked - accounts[u].unstaked
    <2> HIDE DEF lp_change, user_change, claim_change
    <2>6. /\ total_available' = total_available + lp_change + user_change
          /\ total_unstake_claims' = total_unstake_claims + claim_change
      BY <1>6, <1>7, <1>15, <2>1, <2>2, <2>3, <2>4 DEF lp_change, user_change, claim_change
    <2> QED
      BY <2>6 DEF lp_change, user_change, claim_change
  <1>17. total_stake_shares' = total_stake_shares
           + (accounts'[NSLP].stake_shares - accounts[NSLP].stake_shares)
           + (accounts'[Treasury].stake_shares - accounts[Treasury].stake_shares)
           + (accounts'[Operator].stake_shares - accounts[Operator].stake_shares)
           + (accounts'[Developers].stake_shares - accounts[Developers].stake_shares)
           + (accounts'[u].stake_shares - accounts[u].stake_shares)
    <2>1. left \in Int
      BY <1>2, <1>9, <1>10
    <2>2. accounts'[NSLP].stake_shares - accounts[NSLP].stake_shares = left
      BY <1>12, <1>15, <2>1
    <2>3. accounts'[u].stake_shares - accounts[u].stake_shares = -to_sell
      BY <1>2, <1>11, <1>15
    <2>4. /\ accounts'[Treasury].stake_shares - accounts[Treasury].stake_shares = treasury_cut
          /\ accounts'[Operator].stake_shares - accounts[Operator].stake_shares = operator_cut
          /\ accounts'[Developers].stake_shares - accounts[Developers].stake_shares
               = developers_cut
      BY <1>9, <1>13, <1>15
    <2>5. total_stake_shares' = total_stake_shares + left + treasury_cut + operator_cut
                                + developers_cut + (-to_sell)
      BY <1>2, <1>3, <1>9, <1>10, <1>15
    <2> QED
      BY <2>2, <2>3, <2>4, <2>5
  <1>18. accounts'[NSLP].nslp_shares - accounts[NSLP].nslp_shares
           = accounts'[u].nslp_shares - accounts[u].nslp_shares
    BY <1>11, <1>12, <1>15
  <1> QED
    BY <1>12, <1>13, <1>14, <1>16, <1>17, <1>18, UserTotals

LEMMA UserStepAddsUp ==
  ASSUME TypeOK, AccountsAddUp, UserStep
  PROVE  AccountsAddUp'
  <1> SUFFICES ASSUME NEW u \in Users,
                      \/ \E d \in Deposits : deposit_and_stake(u, d)
                      \/ \E a \in UnstakeAmounts : unstake(u, a)
                      \/ unstake_all(u)
                      \/ \E a \in WithdrawAmounts : withdraw(u, a)
                      \/ withdraw_unstaked(u)
                      \/ \E s \in SellAmounts : liquid_unstake(u, s)
                      \/ \E d \in LiquidityDeposits : nslp_add_liquidity(u, d)
                      \/ \E a \in RemoveAmounts : nslp_remove_liquidity(u, a)
               PROVE  AccountsAddUp'
    BY DEF UserStep
  <1>1. accounts[u].unstaked \in Nat /\ accounts[u].stake_shares \in Nat
    BY AccountNames DEF TypeOK, Account
  <1>2. CASE \E d \in Deposits : deposit_and_stake(u, d)
    BY <1>2, StakeAddsUp
  <1>3. CASE (\E a \in UnstakeAmounts : unstake(u, a)) \/ unstake_all(u)
    BY <1>1, <1>3, Inputs, ValuesNat, UnstakeAddsUp DEF unstake_all
  <1>4. CASE (\E a \in WithdrawAmounts : withdraw(u, a)) \/ withdraw_unstaked(u)
    BY <1>1, <1>4, Inputs, WithdrawAddsUp DEF withdraw_unstaked
  <1>5. CASE \E s \in SellAmounts : liquid_unstake(u, s)
    BY <1>5, SellAddsUp
  <1>6. CASE \E d \in LiquidityDeposits : nslp_add_liquidity(u, d)
    BY <1>6, AddLiquidityAddsUp
  <1>7. CASE \E a \in RemoveAmounts : nslp_remove_liquidity(u, a)
    BY <1>7, RemoveLiquidityAddsUp
  <1> QED
    BY <1>2, <1>3, <1>4, <1>5, <1>6, <1>7

LEMMA ClearingAddsUp ==
  ASSUME TypeOK, AccountsAddUp, distribute_staking_clearing
  PROVE  AccountsAddUp'
  <1> DEFINE lp == accounts[NSLP]
             sale == clearing_sale(total_for_staking, total_stake_shares,
                                   epoch_stake_orders, lp.stake_shares)
  <1>1. /\ NSLP \in Accounts /\ lp \in Account /\ lp.stake_shares \in Nat
        /\ accounts \in [Accounts -> Account]
        /\ NSLP # Operator /\ NSLP # Developers
        /\ Operator \in Accounts /\ Developers \in Accounts
    BY AccountNames, AccountsAssumption DEF TypeOK, Account
  <1>2. /\ accounts' = [accounts EXCEPT ![NSLP] = after_sale(lp, sale)]
        /\ total_available' = total_available + sale.near
        /\ total_stake_shares' = total_stake_shares - sale.st_near
        /\ UNCHANGED total_unstake_claims
    BY <1>1 DEF distribute_staking_clearing, claim_vars
  <1>3. sale.near \in Nat /\ sale.st_near \in Nat
    BY <1>1, SaleBounds DEF TypeOK
  <1> HIDE DEF sale
  <1>4. /\ accounts'[NSLP].available = lp.available + sale.near
        /\ accounts'[NSLP].unstaked = lp.unstaked
        /\ accounts'[NSLP].stake_shares = lp.stake_shares - sale.st_near
        /\ accounts'[NSLP].nslp_shares = lp.nslp_shares
        /\ \A a \in Accounts \ {NSLP} : accounts'[a] = accounts[a]
    BY <1>1, <1>2 DEF Account, after_sale
  <1>5. TypeOK'
    BY StakingClearingMoves
  <1>6. /\ accounts[Operator] \in Account /\ accounts[Developers] \in Account
        /\ accounts'[Operator] = accounts[Operator]
        /\ accounts'[Developers] = accounts[Developers]
    BY <1>1, <1>4
  <1>7. /\ lp.available \in Int /\ lp.stake_shares \in Int
        /\ total_available \in Int /\ total_stake_shares \in Int
        /\ accounts'[Operator].stake_shares - accounts[Operator].stake_shares = 0
        /\ accounts'[Developers].stake_shares - accounts[Developers].stake_shares = 0
    BY <1>1, <1>6, AccountFields DEF TypeOK
  <1>8. /\ OnlySharesWritten(Operator) /\ OnlySharesWritten(Developers)
        /\ \A a \in Accounts \ {NSLP, Operator, Developers} : accounts'[a] = accounts[a]
    BY <1>4, <1>6 DEF OnlySharesWritten
  <1>9. /\ accounts'[NSLP].available - lp.available = sale.near
        /\ accounts'[NSLP].stake_shares - lp.stake_shares = -sale.st_near
    BY <1>3, <1>4, <1>7
  <1>10. /\ total_available' = total_available + (accounts'[NSLP].available - lp.available)
         /\ total_stake_shares' = total_stake_shares
              + (accounts'[NSLP].stake_shares - lp.stake_shares)
              + (accounts'[Operator].stake_shares - accounts[Operator].stake_shares)
              + (accounts'[Developers].stake_shares - accounts[Developers].stake_shares)
    BY <1>2, <1>3, <1>7, <1>9
  <1> QED
    BY <1>2, <1>4, <1>5, <1>8, <1>10, FeeTotals

LEMMA HeartbeatAddsUp ==
  ASSUME TypeOK, AccountsAddUp, HeartbeatCall
  PROVE  AccountsAddUp'
  <1>1. CASE distribute_staking_clearing
    BY <1>1, ClearingAddsUp
  <1>2. CASE ~distribute_staking_clearing
    <2>1. UNCHANGED user_vars /\ (UNCHANGED claim_vars \/ end_of_epoch_clearing)
      BY <1>2
      DEF HeartbeatCall, distribute_staking, distribute_staking_call, distribute_unstaking,
          end_of_epoch_clearing, retrieve_funds_from_a_pool, distribute_rewards
    <2> QED
      BY <2>1, SameTotals DEF user_vars, claim_vars, end_of_epoch_clearing
  <1> QED
    BY <1>1, <1>2

LEMMA RewardsAddUp ==
  ASSUME TypeOK, AccountsAddUp, NEW p \in promises, on_get_sp_total_balance(p)
  PROVE  AccountsAddUp'
  <1> DEFINE sp == staking_pools[p.sp]
             rewards == saturating_sub(p.reply, sp.staked + sp.unstaked)
             for_staking == total_for_staking + rewards
             operator_shares == fee_shares(apply_pct(OperatorRewardsFee, rewards), for_staking)
             developers_shares ==
               fee_shares(apply_pct(DevelopersRewardsFee, rewards), for_staking)
  <1>1. rewards \in Nat
    <2>1. p.reply \in Nat /\ sp.staked + sp.unstaked \in Nat
      BY Promises
    <2> QED
      BY <2>1, SaturatingSubNat
  <1>2. /\ accounts' = [accounts EXCEPT
             ![Operator].stake_shares = @ + operator_shares,
             ![Developers].stake_shares = @ + developers_shares]
        /\ total_stake_shares' = total_stake_shares + operator_shares + developers_shares
        /\ UNCHANGED <<total_available, total_unstake_claims>>
    BY DEF on_get_sp_total_balance, claim_vars
  <1> HIDE DEF rewards
  <1>3. operator_shares \in Nat /\ developers_shares \in Nat
    <2>1. /\ for_staking \in Nat
          /\ apply_pct(OperatorRewardsFee, rewards) \in Nat
          /\ apply_pct(DevelopersRewardsFee, rewards) \in Nat
      <3>1. OperatorRewardsFee \in Nat /\ DevelopersRewardsFee \in Nat
        BY ParametersAssumption
      <3>2. total_for_staking + rewards \in Nat
        BY <1>1 DEF TypeOK
      <3> QED
        BY <1>1, <3>1, <3>2, ApplyPctNat
    <2> HIDE DEF for_staking
    <2> QED
      BY <2>1, SharesNat DEF fee_shares, TypeOK
  <1> HIDE DEF operator_shares, developers_shares
  <1>4. /\ accounts \in [Accounts -> Account] /\ NSLP \in Accounts
        /\ Operator \in Accounts /\ Developers \in Accounts
        /\ accounts[Operator] \in Account /\ accounts[Developers] \in Account
        /\ accounts[NSLP] \in Account
        /\ NSLP # Operator /\ NSLP # Developers /\ Operator # Developers
    BY AccountNames, AccountsAssumption DEF TypeOK
  <1>5. /\ OnlySharesWritten(Operator) /\ OnlySharesWritten(Developers)
        /\ accounts'[Operator].stake_shares = accounts[Operator].stake_shares + operator_shares
        /\ accounts'[Developers].stake_shares
             = accounts[Developers].stake_shares + developers_shares
        /\ accounts'[NSLP] = accounts[NSLP]
        /\ \A a \in Accounts \ {NSLP, Operator, Developers} : accounts'[a] = accounts[a]
    BY <1>2, <1>4 DEF Account, OnlySharesWritten
  <1>6. TypeOK'
    BY OnRewardsTyped
  <1>7. /\ accounts[NSLP].available \in Int /\ accounts[NSLP].stake_shares \in Int
        /\ accounts[Operator].stake_shares \in Int
        /\ accounts[Developers].stake_shares \in Int
        /\ total_available \in Int /\ total_stake_shares \in Int
    BY <1>4, AccountFields DEF TypeOK
  <1>8. /\ total_available' = total_available
              + (accounts'[NSLP].available - accounts[NSLP].available)
        /\ total_stake_shares' = total_stake_shares
              + (accounts'[NSLP].stake_shares - accounts[NSLP].stake_shares)
              + (accounts'[Operator].stake_shares - accounts[Operator].stake_shares)
              + (accounts'[Developers].stake_shares - accounts[Developers].stake_shares)
    <2>1. /\ accounts'[NSLP].available - accounts[NSLP].available = 0
          /\ accounts'[NSLP].stake_shares - accounts[NSLP].stake_shares = 0
          /\ accounts'[Operator].stake_shares - accounts[Operator].stake_shares
               = operator_shares
          /\ accounts'[Developers].stake_shares - accounts[Developers].stake_shares
               = developers_shares
      BY <1>3, <1>5, <1>7
    <2> QED
      BY <1>2, <1>3, <1>7, <2>1
  <1> QED
    BY <1>2, <1>5, <1>6, <1>8, FeeTotals

LEMMA CallbackAddsUp ==
  ASSUME TypeOK, AccountsAddUp, Callback
  PROVE  AccountsAddUp'
  <1> SUFFICES ASSUME NEW p \in promises,
                      \/ on_staking_pool_stake_maybe_deposit(p)
                      \/ on_staking_pool_unstake(p)
                      \/ on_retrieve_from_staking_pool(p)
                      \/ on_get_sp_total_balance(p)
                      \/ on_get_sp_total_balance_panics(p)
               PROVE  AccountsAddUp'
    BY DEF Callback
  <1>1. CASE on_get_sp_total_balance(p)
    BY <1>1, RewardsAddUp
  <1>2. CASE ~on_get_sp_total_balance(p)
    <2>1. UNCHANGED user_vars /\ UNCHANGED total_unstake_claims
      BY <1>2
      DEF on_staking_pool_stake_maybe_deposit, on_staking_pool_unstake,
          on_retrieve_from_staking_pool, on_get_sp_total_balance_panics, claim_vars
    <2> QED
      BY <2>1, SameTotals DEF user_vars
  <1> QED
    BY <1>1, <1>2

LEMMA EnvironmentAddsUp ==
  ASSUME AccountsAddUp, Environment
  PROVE  AccountsAddUp'
  <1>1. UNCHANGED user_vars /\ UNCHANGED claim_vars
    BY DEF Environment, pool_performs, pool_fails, transfer_arrives, next_epoch
  <1> QED
    BY <1>1, SameTotals DEF user_vars, claim_vars

LEMMA InitAddsUp == Init => AccountsAddUp
  <1> SUFFICES ASSUME Init PROVE AccountsAddUp
    OBVIOUS
  <1>1. \A a \in Accounts : /\ accounts[a].available = 0 /\ accounts[a].unstaked = 0
                            /\ accounts[a].stake_shares = 0 /\ accounts[a].nslp_shares = 0
    BY DEF Init, EmptyAccount
  <1> QED
    BY <1>1, AccountsFinite, AccountNames, SumZero DEF Init, AccountsAddUp, SumFunction

LEMMA NextAddsUp ==
  ASSUME TypeOK, AccountsAddUp, [Next]_vars
  PROVE  AccountsAddUp'
  <1>1. CASE UNCHANGED vars
    BY <1>1, SameTotals DEF vars, user_vars, claim_vars
  <1> QED
    BY <1>1, UserStepAddsUp, HeartbeatAddsUp, CallbackAddsUp, EnvironmentAddsUp DEF Next

(***************************************************************************)
(* AccountsAddUp: for any number of users, each total the contract keeps is *)
(* the sum of its accounts, through fees, cuts, clearing sales and panics.  *)
(***************************************************************************)
THEOREM TotalsAreSums == Spec => []AccountsAddUp
  <1>1. TypeOK /\ AccountsAddUp /\ [Next]_vars => AccountsAddUp'
    BY NextAddsUp
  <1> QED
    BY <1>1, InitAddsUp, TypeCorrect, PTL DEF Spec

-----------------------------------------------------------------------------
(* No call can be in flight when a method finds the contract free. *)
LEMMA NoneInFlight ==
  ASSUME OneCallInFlight, ~contract_busy
  PROVE  promises = {}
  BY DEF OneCallInFlight

LEMMA OnlyOne ==
  ASSUME OneCallInFlight, NEW p \in promises
  PROVE  promises = {p}
  BY DEF OneCallInFlight

LEMMA LockKeepsOne ==
  ASSUME TypeOK, OneCallInFlight, ~contract_busy,
         NEW i \in DOMAIN staking_pools, NEW op, NEW n,
         lock_and_call(i, Call(op, i, n))
  PROVE  OneCallInFlight' /\ promises' = {Call(op, i, n)}
  <1>1. promises' = {Call(op, i, n)}
    BY NoneInFlight DEF lock_and_call
  <1>2. /\ contract_busy' = TRUE
        /\ staking_pools' = [staking_pools EXCEPT ![i].busy_lock = TRUE]
    BY DEF lock_and_call
  <1>3. staking_pools[i] \in StakingPoolInfo
    BY PoolRecords
  <1>4. staking_pools'[i].busy_lock = TRUE
    BY <1>2, <1>3 DEF StakingPoolInfo, TypeOK
  <1>5. Call(op, i, n).sp = i
    BY DEF Call
  <1> QED
    BY <1>1, <1>2, <1>4, <1>5 DEF OneCallInFlight

LEMMA UnlockKeepsOne ==
  ASSUME OneCallInFlight, NEW p \in promises, promises' = promises \ {p}
  PROVE  OneCallInFlight' /\ promises' = {}
  <1>1. promises' = {}
    BY OnlyOne
  <1> QED
    BY <1>1 DEF OneCallInFlight

LEMMA ResolveKeepsOne ==
  ASSUME TypeOK, OneCallInFlight, NEW p \in promises, NEW status, NEW reply,
         resolved(p, status, reply), UNCHANGED <<contract_busy, staking_pools>>
  PROVE  /\ OneCallInFlight'
         /\ promises' = {[p EXCEPT !.status = status, !.reply = reply]}
  <1> DEFINE q == [p EXCEPT !.status = status, !.reply = reply]
  <1>1. promises' = {q}
    BY OnlyOne DEF resolved
  <1>2. q.sp = p.sp
    BY Promises DEF Promise
  <1> QED
    BY <1>1, <1>2 DEF OneCallInFlight

(***************************************************************************)
(* What a step does to the calls in flight: nothing, schedule one when      *)
(* there was none, answer the one there is, or end it.                      *)
(***************************************************************************)
LEMMA OneCallStep ==
  ASSUME TypeOK, OneCallInFlight, [Next]_vars
  PROVE  OneCallInFlight'
  <1>1. CASE UNCHANGED <<contract_busy, staking_pools, promises>>
    BY <1>1 DEF OneCallInFlight
  <1>2. CASE UserStep
    <2>1. UNCHANGED pool_vars
      <3>1. ASSUME NEW u, NEW a,
                   \/ deposit_and_stake(u, a) \/ unstake(u, a) \/ withdraw(u, a)
                   \/ liquid_unstake(u, a) \/ nslp_add_liquidity(u, a)
                   \/ nslp_remove_liquidity(u, a)
            PROVE  UNCHANGED pool_vars
        BY <3>1 DEF deposit_and_stake, unstake, withdraw, liquid_unstake,
                    nslp_add_liquidity, nslp_remove_liquidity
      <3> QED
        BY <1>2, <3>1 DEF UserStep, unstake_all, withdraw_unstaked
    <2> QED
      BY <1>1, <2>1 DEF pool_vars
  <1>3. CASE HeartbeatCall
    <2>1. CASE distribute_staking_clearing \/ end_of_epoch_clearing
      BY <1>1, <2>1 DEF distribute_staking_clearing, end_of_epoch_clearing, pool_vars
    <2>2. CASE distribute_staking_call
      <3>1. PICK i \in DOMAIN staking_pools : \E op, n : lock_and_call(i, Call(op, i, n))
        BY <2>2 DEF distribute_staking_call, direct_stake
      <3> QED
        BY <2>2, <3>1, LockKeepsOne DEF distribute_staking_call
    <2>3. CASE distribute_unstaking
      <3>1. PICK i \in DOMAIN staking_pools : \E op, n : lock_and_call(i, Call(op, i, n))
        BY <2>3 DEF distribute_unstaking, direct_unstake
      <3> QED
        BY <2>3, <3>1, LockKeepsOne DEF distribute_unstaking
    <2>4. CASE \E i \in DOMAIN staking_pools : retrieve_funds_from_a_pool(i)
      BY <2>4, LockKeepsOne DEF retrieve_funds_from_a_pool, free_to_call
    <2>5. CASE \E i \in AskedPools \cap DOMAIN staking_pools : distribute_rewards(i)
      BY <2>5, LockKeepsOne DEF distribute_rewards, free_to_call
    <2> QED
      BY <1>3, <2>1, <2>2, <2>3, <2>4, <2>5 DEF HeartbeatCall, distribute_staking
  <1>4. CASE Callback
    <2>1. PICK p \in promises : promises' = promises \ {p}
      BY <1>4 DEF Callback, on_staking_pool_stake_maybe_deposit, on_staking_pool_unstake,
                  on_retrieve_from_staking_pool, on_get_sp_total_balance,
                  on_get_sp_total_balance_panics, unlock_with
    <2> QED
      BY <2>1, UnlockKeepsOne
  <1>5. CASE Environment
    <2>1. CASE \E p \in promises : pool_performs(p) \/ pool_fails(p)
      <3>1. PICK p \in promises :
              /\ \E status, reply : resolved(p, status, reply)
              /\ UNCHANGED <<contract_busy, staking_pools>>
        BY <2>1 DEF pool_performs, pool_fails
      <3> QED
        BY <3>1, ResolveKeepsOne
    <2>2. CASE transfer_arrives \/ next_epoch
      BY <1>1, <2>2 DEF transfer_arrives, next_epoch, pool_vars
    <2> QED
      BY <1>5, <2>1, <2>2 DEF Environment
  <1> QED
    BY <1>1, <1>2, <1>3, <1>4, <1>5 DEF Next, vars, pool_vars

LEMMA InitNoCall == Init => OneCallInFlight
  BY DEF Init, OneCallInFlight

(***************************************************************************)
(* The locks exclude a second call, whatever fails and whatever users do    *)
(* meanwhile: every method that calls a pool finds the contract free, every *)
(* callback that completes frees it, and the one that panics leaves it      *)
(* locked with nothing in flight.                                           *)
(***************************************************************************)
THEOREM CallsExcludeEachOther == Spec => []OneCallInFlight
  <1>1. TypeOK /\ OneCallInFlight /\ [Next]_vars => OneCallInFlight'
    BY OneCallStep
  <1> QED
    BY <1>1, InitNoCall, TypeCorrect, PTL DEF Spec

-----------------------------------------------------------------------------
(* The amount of the calls in flight, when there is none and when there is one. *)
LEMMA AmountOfCalls ==
  /\ amount_of({}) = 0
  /\ \A p : amount_of({p}) = p.amount
  BY DEF amount_of

sends(p) == p.op = "stake" /\ p.status \in {"sent", "ok"}

pays(p) == p.op = "retrieve" /\ p.status = "ok"

Carries(p, staked, unstaked, sent, paid) ==
  /\ staked = (IF p.op \in {"stake", "restake"} THEN p.amount ELSE 0)
  /\ unstaked = (IF p.op = "unstake" THEN p.amount ELSE 0)
  /\ sent = (IF sends(p) THEN p.amount ELSE 0)
  /\ paid = (IF pays(p) THEN p.amount ELSE 0)

LEMMA NoneCarried ==
  /\ promises = {} => /\ in_flight({"stake", "restake"}) = 0
                      /\ in_flight({"unstake"}) = 0
                      /\ sent_not_deducted = 0 /\ paid_not_recorded = 0
  /\ promises' = {} => /\ in_flight({"stake", "restake"})' = 0
                       /\ in_flight({"unstake"})' = 0
                       /\ sent_not_deducted' = 0 /\ paid_not_recorded' = 0
  <1>1. ASSUME NEW S, S = {}
        PROVE  /\ \A ops : amount_of({p \in S : p.op \in ops}) = 0
               /\ amount_of({p \in S : p.op = "stake" /\ p.status \in {"sent", "ok"}}) = 0
               /\ amount_of({p \in S : p.op = "retrieve" /\ p.status = "ok"}) = 0
    <2>1. /\ \A ops : {p \in S : p.op \in ops} = {}
          /\ {p \in S : p.op = "stake" /\ p.status \in {"sent", "ok"}} = {}
          /\ {p \in S : p.op = "retrieve" /\ p.status = "ok"} = {}
      BY <1>1
    <2> QED
      BY <2>1, AmountOfCalls
  <1> QED
    BY <1>1 DEF in_flight, sent_not_deducted, paid_not_recorded

LEMMA OneCarried ==
  ASSUME NEW p
  PROVE  /\ promises = {p} =>
              Carries(p, in_flight({"stake", "restake"}), in_flight({"unstake"}),
                      sent_not_deducted, paid_not_recorded)
         /\ promises' = {p} =>
              Carries(p, in_flight({"stake", "restake"})', in_flight({"unstake"})',
                      sent_not_deducted', paid_not_recorded')
  <1>1. ASSUME NEW S, S = {p}
        PROVE  Carries(p, amount_of({q \in S : q.op \in {"stake", "restake"}}),
                       amount_of({q \in S : q.op \in {"unstake"}}),
                       amount_of({q \in S : q.op = "stake" /\ q.status \in {"sent", "ok"}}),
                       amount_of({q \in S : q.op = "retrieve" /\ q.status = "ok"}))
    <2>1. /\ \A ops : {q \in S : q.op \in ops} = IF p.op \in ops THEN {p} ELSE {}
          /\ {q \in S : q.op = "stake" /\ q.status \in {"sent", "ok"}}
               = IF sends(p) THEN {p} ELSE {}
          /\ {q \in S : q.op = "retrieve" /\ q.status = "ok"}
               = IF pays(p) THEN {p} ELSE {}
      BY <1>1 DEF sends, pays
    <2> QED
      BY <2>1, AmountOfCalls DEF Carries
  <1> QED
    BY <1>1 DEF in_flight, sent_not_deducted, paid_not_recorded

LEMMA CarriedNat ==
  ASSUME TypeOK, OneCallInFlight
  PROVE  /\ in_flight({"stake", "restake"}) \in Nat /\ in_flight({"unstake"}) \in Nat
         /\ sent_not_deducted \in Nat /\ paid_not_recorded \in Nat
  <1>1. CASE promises = {}
    BY <1>1, NoneCarried
  <1>2. CASE promises # {}
    <2>1. PICK p \in promises : promises = {p}
      BY <1>2, OnlyOne
    <2> QED
      BY <2>1, OneCarried, Promises DEF Carries
  <1> QED
    BY <1>1, <1>2

-----------------------------------------------------------------------------
(***************************************************************************)
(* The invariant the books rest on. What waits in the pools is the total of *)
(* their records, so a retrieval never saturates; and the pool a retrieval  *)
(* was sent to still has the amount it was sent for, so what the callback   *)
(* records is what the pool paid.                                           *)
(***************************************************************************)
unstaked_in_pools == [i \in 1..Len(Weights) |-> staking_pools[i].unstaked]

UnstakedAddsUp == total_unstaked_and_waiting = SumFunctionOnSet(unstaked_in_pools, 1..Len(Weights))

RetrievesAll ==
  \A p \in promises : p.op = "retrieve" => p.amount = staking_pools[p.sp].unstaked

Books == /\ UnstakedAddsUp
         /\ RetrievesAll
         /\ CashBacked
         /\ ClaimsBacked
         /\ OrdersMatchDelta
         /\ BalanceMatches

LEMMA PoolIndexes ==
  /\ Len(Weights) \in Nat /\ IsFiniteSet(1..Len(Weights))
  /\ DOMAIN Weights = 1..Len(Weights)
  /\ TypeOK => /\ DOMAIN staking_pools = 1..Len(Weights)
               /\ unstaked_in_pools \in [1..Len(Weights) -> Nat]
  <1>1. Len(Weights) \in Nat /\ DOMAIN Weights = 1..Len(Weights)
    BY ParametersAssumption
  <1>2. IsFiniteSet(1..Len(Weights))
    BY <1>1, FS_Interval
  <1> QED
    BY <1>1, <1>2, PoolRecords DEF TypeOK, unstaked_in_pools

LEMMA SameUnstaked ==
  ASSUME UnstakedAddsUp, unstaked_in_pools' = unstaked_in_pools,
         UNCHANGED total_unstaked_and_waiting
  PROVE  UnstakedAddsUp'
  BY DEF UnstakedAddsUp

LEMMA LockKeepsUnstaked ==
  ASSUME TypeOK, NEW i \in DOMAIN staking_pools, NEW call, lock_and_call(i, call)
  PROVE  unstaked_in_pools' = unstaked_in_pools
  <1>1. staking_pools' = [staking_pools EXCEPT ![i].busy_lock = TRUE]
    BY DEF lock_and_call
  <1>2. \A j \in 1..Len(Weights) :
          staking_pools'[j].unstaked = staking_pools[j].unstaked
    BY <1>1, PoolIndexes, PoolRecords DEF StakingPoolInfo
  <1> QED
    BY <1>2 DEF unstaked_in_pools

LEMMA UnlockChangesUnstaked ==
  ASSUME TypeOK, UnstakedAddsUp, NEW p \in promises, NEW sp \in StakingPoolInfo,
         unlock_with(p, sp),
         total_unstaked_and_waiting' =
           total_unstaked_and_waiting - staking_pools[p.sp].unstaked + sp.unstaked
  PROVE  UnstakedAddsUp'
  <1> DEFINE freed == [sp EXCEPT !.busy_lock = FALSE]
  <1>1. p.sp \in 1..Len(Weights) /\ sp.unstaked \in Nat /\ freed.unstaked = sp.unstaked
    BY Promises, PoolIndexes DEF StakingPoolInfo
  <1>2. staking_pools' = [staking_pools EXCEPT ![p.sp] = freed]
    BY DEF unlock_with
  <1> HIDE DEF freed
  <1>3. unstaked_in_pools' = [unstaked_in_pools EXCEPT ![p.sp] = sp.unstaked]
    BY <1>1, <1>2, PoolIndexes DEF unstaked_in_pools
  <1>4. unstaked_in_pools[p.sp] = staking_pools[p.sp].unstaked
    BY <1>1 DEF unstaked_in_pools
  <1> QED
    <2> DEFINE S == 1..Len(Weights)
               before == unstaked_in_pools
               after == unstaked_in_pools'
    <2>1. /\ after[p.sp] = sp.unstaked
          /\ \A i \in S : before[i] \in Int /\ after[i] \in Int
          /\ \A i \in S \ {p.sp} : after[i] = before[i]
          /\ p.sp \in S /\ IsFiniteSet(S)
      BY <1>1, <1>3, PoolIndexes
    <2>2. SumFunctionOnSet(after, S)
            = SumFunctionOnSet(before, S) + (after[p.sp] - before[p.sp])
      <3> HIDE DEF S, before, after
      <3> QED
        BY <2>1, SumOfOneChange
    <2>3. staking_pools[p.sp].unstaked \in Nat /\ total_unstaked_and_waiting \in Nat
      BY Promises DEF TypeOK
    <2> QED
      BY <1>1, <1>4, <2>1, <2>2, <2>3 DEF UnstakedAddsUp


-----------------------------------------------------------------------------
(* Each step keeps the books. *)
LEMMA BalancedKeepsBooks ==
  ASSUME TypeOK, OneCallInFlight, Books, BalancedStep
  PROVE  Books'
  <1>1. PICK a, s, r, u \in Int : Balanced(a, s, r, u)
    BY DEF BalancedStep
  <1>2. /\ UNCHANGED <<contract_busy, staking_pools, promises, total_unstaked_and_waiting>>
        /\ unstaked_in_pools' = unstaked_in_pools
        /\ in_flight({"stake", "restake"})' = in_flight({"stake", "restake"})
        /\ in_flight({"unstake"})' = in_flight({"unstake"})
        /\ sent_not_deducted' = sent_not_deducted
        /\ paid_not_recorded' = paid_not_recorded
    BY <1>1 DEF Balanced, pool_vars, unstaked_in_pools, in_flight, sent_not_deducted,
                paid_not_recorded
  <1>3. UnstakedAddsUp' /\ RetrievesAll'
    BY <1>2, SameUnstaked DEF Books, RetrievesAll
  <1>4. CashBacked' /\ ClaimsBacked' /\ OrdersMatchDelta' /\ BalanceMatches'
    <2>1. CashBacked'
      BY <1>1, <1>2, CarriedNat DEF Balanced, Books, TypeOK, CashBacked
    <2>2. ClaimsBacked'
      BY <1>1, <1>2, CarriedNat DEF Balanced, Books, TypeOK, ClaimsBacked
    <2>3. OrdersMatchDelta'
      BY <1>1 DEF Balanced, Books, TypeOK, OrdersMatchDelta
    <2>4. BalanceMatches'
      BY <1>1, <1>2, CarriedNat, Constants DEF Balanced, Books, TypeOK, BalanceMatches
    <2> QED
      BY <2>1, <2>2, <2>3, <2>4
  <1> QED
    BY <1>3, <1>4 DEF Books

LEMMA StakeCalledKeepsBooks ==
  ASSUME TypeOK, OneCallInFlight, ~contract_busy, Books,
         NEW i \in DOMAIN staking_pools, NEW n \in Nat, NEW op \in {"stake", "restake"},
         StakeCalled(i, op, n)
  PROVE  Books'
  <1>1. lock_and_call(i, Call(op, i, n))
    BY DEF StakeCalled
  <1>2. promises = {} /\ promises' = {Call(op, i, n)}
    BY <1>1, NoneInFlight, LockKeepsOne
  <1>3. /\ in_flight({"stake", "restake"}) = 0 /\ in_flight({"unstake"}) = 0
        /\ sent_not_deducted = 0 /\ paid_not_recorded = 0
    BY <1>2, NoneCarried
  <1>4. /\ in_flight({"stake", "restake"})' = n /\ in_flight({"unstake"})' = 0
        /\ sent_not_deducted' = (IF op = "stake" THEN n ELSE 0)
        /\ paid_not_recorded' = 0
    <2> DEFINE p == Call(op, i, n)
    <2>1. Carries(p, in_flight({"stake", "restake"})', in_flight({"unstake"})',
                  sent_not_deducted', paid_not_recorded')
      BY <1>2, OneCarried
    <2>2. p.op = op /\ p.amount = n /\ p.status = "sent"
      BY DEF Call
    <2> QED
      BY <2>1, <2>2 DEF Carries, sends, pays
  <1>5. UnstakedAddsUp' /\ RetrievesAll'
    BY <1>1, <1>2, LockKeepsUnstaked, SameUnstaked
    DEF StakeCalled, Books, RetrievesAll, Call, claim_vars
  <1>6. CashBacked' /\ ClaimsBacked' /\ OrdersMatchDelta' /\ BalanceMatches'
    BY <1>3, <1>4, Constants
    DEF StakeCalled, Books, TypeOK, CashBacked, ClaimsBacked, OrdersMatchDelta,
        BalanceMatches, claim_vars, user_vars
  <1> QED
    BY <1>5, <1>6 DEF Books

LEMMA UnstakeCalledKeepsBooks ==
  ASSUME TypeOK, OneCallInFlight, ~contract_busy, Books,
         NEW i \in DOMAIN staking_pools, NEW n \in Nat, UnstakeCalled(i, n)
  PROVE  Books'
  <1>1. lock_and_call(i, Call("unstake", i, n))
    BY DEF UnstakeCalled
  <1>2. promises = {} /\ promises' = {Call("unstake", i, n)}
    BY <1>1, NoneInFlight, LockKeepsOne
  <1>3. /\ in_flight({"stake", "restake"}) = 0 /\ in_flight({"unstake"}) = 0
        /\ sent_not_deducted = 0 /\ paid_not_recorded = 0
    BY <1>2, NoneCarried
  <1>4. /\ in_flight({"stake", "restake"})' = 0 /\ in_flight({"unstake"})' = n
        /\ sent_not_deducted' = 0 /\ paid_not_recorded' = 0
    <2> DEFINE p == Call("unstake", i, n)
    <2>1. Carries(p, in_flight({"stake", "restake"})', in_flight({"unstake"})',
                  sent_not_deducted', paid_not_recorded')
      BY <1>2, OneCarried
    <2>2. p.op = "unstake" /\ p.amount = n /\ p.status = "sent"
      BY DEF Call
    <2> QED
      BY <2>1, <2>2 DEF Carries, sends, pays
  <1>5. UnstakedAddsUp' /\ RetrievesAll'
    BY <1>1, <1>2, LockKeepsUnstaked, SameUnstaked
    DEF UnstakeCalled, Books, RetrievesAll, Call, claim_vars
  <1>6. CashBacked' /\ ClaimsBacked' /\ OrdersMatchDelta' /\ BalanceMatches'
    BY <1>3, <1>4, Constants
    DEF UnstakeCalled, Books, TypeOK, CashBacked, ClaimsBacked, OrdersMatchDelta,
        BalanceMatches, claim_vars, user_vars, money_vars
  <1> QED
    BY <1>5, <1>6 DEF Books

(* A call that moves nothing until its callback: a retrieval or a reward view. *)
LEMMA QuietCallKeepsBooks ==
  ASSUME TypeOK, OneCallInFlight, ~contract_busy, Books,
         NEW i \in DOMAIN staking_pools, NEW n, NEW op \in {"retrieve", "rewards"},
         op = "retrieve" => n = staking_pools[i].unstaked,
         lock_and_call(i, Call(op, i, n)),
         UNCHANGED <<user_vars, order_vars, stake_vars, claim_vars, money_vars>>
  PROVE  Books'
  <1> DEFINE p == Call(op, i, n)
  <1>1. promises = {} /\ promises' = {p}
    BY NoneInFlight, LockKeepsOne
  <1>2. p.op = op /\ p.sp = i /\ p.amount = n /\ p.status = "sent"
    BY DEF Call
  <1> HIDE DEF p
  <1>3. /\ in_flight({"stake", "restake"}) = 0 /\ in_flight({"unstake"}) = 0
        /\ sent_not_deducted = 0 /\ paid_not_recorded = 0
    BY <1>1, NoneCarried
  <1>4. /\ in_flight({"stake", "restake"})' = 0 /\ in_flight({"unstake"})' = 0
        /\ sent_not_deducted' = 0 /\ paid_not_recorded' = 0
    BY <1>1, <1>2, OneCarried DEF Carries, sends, pays
  <1>5. unstaked_in_pools' = unstaked_in_pools
    BY LockKeepsUnstaked
  <1>6. UnstakedAddsUp'
    BY <1>5, SameUnstaked DEF Books, claim_vars
  <1>7. RetrievesAll'
    <2>1. staking_pools'[i].unstaked = staking_pools[i].unstaked
      BY <1>5, PoolIndexes DEF unstaked_in_pools
    <2> QED
      BY <1>1, <1>2, <2>1 DEF RetrievesAll
  <1> QED
    BY <1>3, <1>4, <1>6, <1>7
    DEF Books, CashBacked, ClaimsBacked, OrdersMatchDelta, BalanceMatches, user_vars,
        order_vars, stake_vars, claim_vars, money_vars

LEMMA EndOfEpochKeepsBooks ==
  ASSUME TypeOK, OneCallInFlight, Books, end_of_epoch_clearing
  PROVE  Books'
  <1>1. to_keep \in Nat
    BY MinimumBounds DEF to_keep, TypeOK
  <1>2. Balanced(0, -to_keep, to_keep, -to_keep)
    BY <1>1 DEF end_of_epoch_clearing, Balanced, TypeOK, user_vars, stake_vars, money_vars
  <1> QED
    BY <1>1, <1>2, BalancedKeepsBooks DEF BalancedStep

LEMMA HeartbeatKeepsBooks ==
  ASSUME TypeOK, OneCallInFlight, Books, HeartbeatCall
  PROVE  Books'
  <1>1. CASE distribute_staking
    BY <1>1, StakingClearingMoves, BalancedKeepsBooks, StakingCallTyped,
       StakeCalledKeepsBooks
    DEF distribute_staking
  <1>2. CASE distribute_unstaking
    BY <1>2, UnstakingTyped, UnstakeCalledKeepsBooks
  <1>3. CASE end_of_epoch_clearing
    BY <1>3, EndOfEpochKeepsBooks
  <1>4. CASE \E i \in DOMAIN staking_pools : retrieve_funds_from_a_pool(i)
    BY <1>4, QuietCallKeepsBooks DEF retrieve_funds_from_a_pool, free_to_call
  <1>5. CASE \E i \in AskedPools \cap DOMAIN staking_pools : distribute_rewards(i)
    BY <1>5, QuietCallKeepsBooks DEF distribute_rewards, free_to_call
  <1> QED
    BY <1>1, <1>2, <1>3, <1>4, <1>5 DEF HeartbeatCall

(* What the end of the only call in flight leaves. *)
LEMMA EndOfCall ==
  ASSUME TypeOK, OneCallInFlight, NEW p \in promises, promises' = promises \ {p}
  PROVE  /\ Carries(p, in_flight({"stake", "restake"}), in_flight({"unstake"}),
                    sent_not_deducted, paid_not_recorded)
         /\ in_flight({"stake", "restake"})' = 0 /\ in_flight({"unstake"})' = 0
         /\ sent_not_deducted' = 0 /\ paid_not_recorded' = 0
         /\ RetrievesAll'
  <1>1. promises = {p} /\ promises' = {}
    BY OnlyOne, UnlockKeepsOne
  <1> QED
    BY <1>1, OneCarried, NoneCarried DEF RetrievesAll

LEMMA OnStakeKeepsBooks ==
  ASSUME TypeOK, OneCallInFlight, Books, NEW p \in promises,
         on_staking_pool_stake_maybe_deposit(p)
  PROVE  Books'
  <1> DEFINE sp == staking_pools[p.sp]
             deposited == [sp EXCEPT !.staked = @ + p.amount]
             restaked == [sp EXCEPT !.staked = @ + p.amount, !.unstaked = @ - p.amount]
  <1>1. /\ p.amount \in Nat /\ sp \in StakingPoolInfo
        /\ sp.staked \in Nat /\ sp.unstaked \in Nat
    BY Promises
  <1>2. promises' = promises \ {p}
    BY DEF on_staking_pool_stake_maybe_deposit, unlock_with
  <1>3. /\ Carries(p, in_flight({"stake", "restake"}), in_flight({"unstake"}),
                   sent_not_deducted, paid_not_recorded)
        /\ in_flight({"stake", "restake"})' = 0 /\ in_flight({"unstake"})' = 0
        /\ sent_not_deducted' = 0 /\ paid_not_recorded' = 0
        /\ RetrievesAll'
    BY <1>2, EndOfCall
  <1>4. /\ p.op \in {"stake", "restake"}
        /\ UNCHANGED <<user_vars, epoch_unstake_orders, total_for_staking,
                       account_balance, incoming>>
    BY DEF on_staking_pool_stake_maybe_deposit
  <1>5. in_flight({"stake", "restake"}) = p.amount /\ in_flight({"unstake"}) = 0
        /\ sent_not_deducted = (IF sends(p) THEN p.amount ELSE 0)
        /\ paid_not_recorded = 0
    BY <1>3, <1>4 DEF Carries, pays
  <1>6. CASE /\ p.status = "ok" /\ p.op = "stake"
             /\ contract_account_balance' = contract_account_balance - p.amount
             /\ unlock_with(p, deposited)
             /\ UNCHANGED <<total_actually_staked, epoch_stake_orders, claim_vars>>
    <2>1. deposited \in StakingPoolInfo /\ deposited.unstaked = sp.unstaked
      BY <1>1 DEF StakingPoolInfo
    <2>2. UnstakedAddsUp'
      <3>1. total_unstaked_and_waiting'
              = total_unstaked_and_waiting - sp.unstaked + deposited.unstaked
        BY <1>1, <1>6, <2>1 DEF TypeOK, claim_vars
      <3> HIDE DEF deposited
      <3> QED
        BY <1>6, <2>1, <3>1, UnlockChangesUnstaked DEF Books
    <2>3. sent_not_deducted = p.amount
      BY <1>5, <1>6 DEF sends
    <2> QED
      BY <1>1, <1>3, <1>4, <1>5, <1>6, <2>2, <2>3, Constants
      DEF Books, TypeOK, CashBacked, ClaimsBacked, OrdersMatchDelta, BalanceMatches,
          user_vars, claim_vars
  <1>7. CASE /\ p.status = "ok" /\ p.op = "restake" /\ p.amount <= sp.unstaked
             /\ unlock_with(p, restaked)
             /\ total_unstaked_and_waiting' = total_unstaked_and_waiting - p.amount
             /\ restaked_to_reserve(p.amount)
             /\ UNCHANGED <<total_actually_staked, epoch_stake_orders,
                            total_unstake_claims, contract_account_balance>>
    <2>1. sp.unstaked - p.amount \in Nat /\ sp.staked + p.amount \in Nat
      BY <1>1, <1>7
    <2>2. restaked \in StakingPoolInfo /\ restaked.unstaked = sp.unstaked - p.amount
      BY <1>1, <2>1 DEF StakingPoolInfo
    <2>3. UnstakedAddsUp'
      <3>1. total_unstaked_and_waiting'
              = total_unstaked_and_waiting - sp.unstaked + restaked.unstaked
        BY <1>1, <1>7, <2>2 DEF TypeOK
      <3> HIDE DEF restaked
      <3> QED
        BY <1>7, <2>2, <3>1, UnlockChangesUnstaked DEF Books
    <2>4. sent_not_deducted = 0
      BY <1>5, <1>7 DEF sends
    <2> QED
      BY <1>1, <1>3, <1>4, <1>5, <1>7, <2>3, <2>4, Constants
      DEF Books, TypeOK, CashBacked, ClaimsBacked, OrdersMatchDelta, BalanceMatches,
          user_vars, restaked_to_reserve
  <1>8. CASE /\ p.status = "failed"
             /\ unlock_with(p, sp)
             /\ undo_stake(p.amount)
             /\ UNCHANGED <<claim_vars, contract_account_balance>>
    <2>1. UnstakedAddsUp'
      BY <1>1, <1>8, UnlockChangesUnstaked DEF Books, TypeOK, claim_vars
    <2>2. sent_not_deducted = 0
      BY <1>5, <1>8 DEF sends
    <2> QED
      BY <1>1, <1>3, <1>4, <1>5, <1>8, <2>1, <2>2, Constants
      DEF Books, TypeOK, CashBacked, ClaimsBacked, OrdersMatchDelta, BalanceMatches,
          user_vars, claim_vars, undo_stake
  <1> QED
    BY <1>6, <1>7, <1>8 DEF on_staking_pool_stake_maybe_deposit

LEMMA OnUnstakeKeepsBooks ==
  ASSUME TypeOK, OneCallInFlight, Books, NEW p \in promises, on_staking_pool_unstake(p)
  PROVE  Books'
  <1> DEFINE sp == staking_pools[p.sp]
             unstaked == [sp EXCEPT !.staked = @ - p.amount,
                                    !.unstaked = @ + p.amount,
                                    !.unstk_req_epoch_height = epoch_height]
  <1>1. /\ p.amount \in Nat /\ sp \in StakingPoolInfo
        /\ sp.staked \in Nat /\ sp.unstaked \in Nat
    BY Promises
  <1>2. promises' = promises \ {p}
    BY DEF on_staking_pool_unstake, unlock_with
  <1>3. /\ Carries(p, in_flight({"stake", "restake"}), in_flight({"unstake"}),
                   sent_not_deducted, paid_not_recorded)
        /\ in_flight({"stake", "restake"})' = 0 /\ in_flight({"unstake"})' = 0
        /\ sent_not_deducted' = 0 /\ paid_not_recorded' = 0
        /\ RetrievesAll'
    BY <1>2, EndOfCall
  <1>4. /\ p.op = "unstake"
        /\ UNCHANGED <<user_vars, epoch_stake_orders, total_for_staking,
                       reserve_for_unstake_claims, total_unstake_claims, money_vars>>
    BY DEF on_staking_pool_unstake
  <1>5. /\ in_flight({"stake", "restake"}) = 0 /\ in_flight({"unstake"}) = p.amount
        /\ sent_not_deducted = 0 /\ paid_not_recorded = 0
    BY <1>3, <1>4 DEF Carries, sends, pays
  <1>6. CASE /\ p.amount <= sp.staked
             /\ unlock_with(p, unstaked)
             /\ total_unstaked_and_waiting' = total_unstaked_and_waiting + p.amount
             /\ UNCHANGED <<total_actually_staked, epoch_unstake_orders>>
    <2>1. sp.staked - p.amount \in Nat /\ sp.unstaked + p.amount \in Nat
      BY <1>1, <1>6
    <2>2. unstaked \in StakingPoolInfo /\ unstaked.unstaked = sp.unstaked + p.amount
      BY <1>1, <2>1 DEF StakingPoolInfo, TypeOK
    <2>3. UnstakedAddsUp'
      <3>1. total_unstaked_and_waiting'
              = total_unstaked_and_waiting - sp.unstaked + unstaked.unstaked
        BY <1>1, <1>6, <2>2 DEF TypeOK
      <3> HIDE DEF unstaked
      <3> QED
        BY <1>6, <2>2, <3>1, UnlockChangesUnstaked DEF Books
    <2> QED
      BY <1>1, <1>3, <1>4, <1>5, <1>6, <2>3, Constants
      DEF Books, TypeOK, CashBacked, ClaimsBacked, OrdersMatchDelta, BalanceMatches,
          user_vars, money_vars
  <1>7. CASE /\ unlock_with(p, sp)
             /\ total_actually_staked' = total_actually_staked + p.amount
             /\ epoch_unstake_orders' = epoch_unstake_orders + p.amount
             /\ UNCHANGED total_unstaked_and_waiting
    <2>1. UnstakedAddsUp'
      BY <1>1, <1>7, UnlockChangesUnstaked DEF Books, TypeOK
    <2> QED
      BY <1>1, <1>3, <1>4, <1>5, <1>7, <2>1, Constants
      DEF Books, TypeOK, CashBacked, ClaimsBacked, OrdersMatchDelta, BalanceMatches,
          user_vars, money_vars
  <1> QED
    BY <1>6, <1>7 DEF on_staking_pool_unstake

LEMMA OnRetrieveKeepsBooks ==
  ASSUME TypeOK, OneCallInFlight, Books, NEW p \in promises,
         on_retrieve_from_staking_pool(p)
  PROVE  Books'
  <1> DEFINE sp == staking_pools[p.sp]
             emptied == [sp EXCEPT !.unstaked = 0]
  <1>1. /\ p.amount \in Nat /\ p.sp \in 1..Len(Weights)
        /\ sp \in StakingPoolInfo /\ sp.unstaked \in Nat
    BY Promises, PoolIndexes
  <1>2. promises' = promises \ {p}
    BY DEF on_retrieve_from_staking_pool, unlock_with
  <1>3. /\ Carries(p, in_flight({"stake", "restake"}), in_flight({"unstake"}),
                   sent_not_deducted, paid_not_recorded)
        /\ in_flight({"stake", "restake"})' = 0 /\ in_flight({"unstake"})' = 0
        /\ sent_not_deducted' = 0 /\ paid_not_recorded' = 0
        /\ RetrievesAll'
    BY <1>2, EndOfCall
  <1>4. /\ p.op = "retrieve"
        /\ UNCHANGED <<user_vars, order_vars, stake_vars, total_unstake_claims,
                       account_balance, incoming>>
    BY DEF on_retrieve_from_staking_pool
  <1>5. /\ in_flight({"stake", "restake"}) = 0 /\ in_flight({"unstake"}) = 0
        /\ sent_not_deducted = 0
        /\ paid_not_recorded = (IF pays(p) THEN p.amount ELSE 0)
    BY <1>3, <1>4 DEF Carries, sends
  <1>6. p.amount = sp.unstaked
    BY <1>4 DEF Books, RetrievesAll
  <1>7. sp.unstaked <= total_unstaked_and_waiting
    <2>1. unstaked_in_pools[p.sp] = sp.unstaked
      BY <1>1 DEF unstaked_in_pools
    <2> QED
      BY <1>1, <2>1, PoolIndexes, SumNat DEF Books, UnstakedAddsUp
  <1>8. CASE /\ p.status = "ok"
             /\ unlock_with(p, emptied)
             /\ total_unstaked_and_waiting' =
                  saturating_sub(total_unstaked_and_waiting, sp.unstaked)
             /\ contract_account_balance' = contract_account_balance + sp.unstaked
             /\ reserve_for_unstake_claims' = reserve_for_unstake_claims + sp.unstaked
    <2>1. emptied \in StakingPoolInfo /\ emptied.unstaked = 0
      BY <1>1 DEF StakingPoolInfo
    <2>2. total_unstaked_and_waiting' = total_unstaked_and_waiting - sp.unstaked
      BY <1>1, <1>7, <1>8 DEF saturating_sub, TypeOK
    <2>3. UnstakedAddsUp'
      <3> HIDE DEF emptied
      <3>1. total_unstaked_and_waiting'
              = total_unstaked_and_waiting - sp.unstaked + emptied.unstaked
        BY <1>1, <2>1, <2>2 DEF TypeOK
      <3> QED
        BY <1>8, <2>1, <3>1, UnlockChangesUnstaked DEF Books
    <2>4. paid_not_recorded = sp.unstaked
      BY <1>4, <1>5, <1>6, <1>8 DEF pays
    <2>5. /\ contract_account_balance' = contract_account_balance + sp.unstaked
          /\ reserve_for_unstake_claims' = reserve_for_unstake_claims + sp.unstaked
          /\ UNCHANGED <<total_available, epoch_stake_orders, epoch_unstake_orders,
                         total_for_staking, total_actually_staked, total_unstake_claims,
                         account_balance, incoming>>
      BY <1>4, <1>8 DEF user_vars, order_vars, stake_vars
    <2> HIDE DEF sp
    <2>6. CashBacked'
      BY <1>1, <1>3, <1>5, <2>5 DEF Books, TypeOK, CashBacked
    <2>7. ClaimsBacked'
      <3>1. total_unstake_claims = reserve_for_unstake_claims + total_unstaked_and_waiting
                                   + epoch_unstake_orders + 0
        BY <1>5 DEF Books, ClaimsBacked
      <3>2. total_unstake_claims' = reserve_for_unstake_claims' + total_unstaked_and_waiting'
                                    + epoch_unstake_orders' + 0
        <4>1. /\ sp.unstaked \in Nat /\ reserve_for_unstake_claims \in Nat
              /\ total_unstaked_and_waiting \in Nat /\ epoch_unstake_orders \in Nat
          BY <1>1 DEF TypeOK
        <4>2. /\ total_unstake_claims' = total_unstake_claims
              /\ reserve_for_unstake_claims' = reserve_for_unstake_claims + sp.unstaked
              /\ epoch_unstake_orders' = epoch_unstake_orders
          BY <2>5
        <4> QED
          BY <2>2, <3>1, <4>1, <4>2
      <3> QED
        BY <1>3, <3>2 DEF ClaimsBacked
    <2>8. BalanceMatches'
      <3>1. account_balance + incoming + 0
              = MinBalanceForStorage + contract_account_balance + sp.unstaked
        BY <1>5, <2>4 DEF Books, BalanceMatches
      <3>2. account_balance' + incoming' + 0
              = MinBalanceForStorage + contract_account_balance' + 0
        BY <1>1, <2>5, <3>1, Constants DEF TypeOK
      <3> QED
        BY <1>3, <3>2 DEF BalanceMatches
    <2>9. OrdersMatchDelta'
      BY <2>5 DEF Books, OrdersMatchDelta
    <2> QED
      BY <1>3, <2>3, <2>6, <2>7, <2>8, <2>9 DEF Books
  <1>9. CASE /\ p.status = "failed"
             /\ unlock_with(p, sp)
             /\ UNCHANGED <<total_unstaked_and_waiting, contract_account_balance,
                            reserve_for_unstake_claims>>
    <2>1. UnstakedAddsUp'
      BY <1>1, <1>9, UnlockChangesUnstaked DEF Books, TypeOK
    <2>2. paid_not_recorded = 0
      BY <1>5, <1>9 DEF pays
    <2> QED
      BY <1>1, <1>3, <1>4, <1>5, <1>9, <2>1, <2>2, Constants
      DEF Books, TypeOK, CashBacked, ClaimsBacked, OrdersMatchDelta, BalanceMatches,
          user_vars, order_vars, stake_vars
  <1> QED
    BY <1>8, <1>9 DEF on_retrieve_from_staking_pool

LEMMA OnRewardsKeepsBooks ==
  ASSUME TypeOK, OneCallInFlight, Books, NEW p \in promises, on_get_sp_total_balance(p)
  PROVE  Books'
  <1> DEFINE sp == staking_pools[p.sp]
             rewards == saturating_sub(p.reply, sp.staked + sp.unstaked)
             rewarded == [sp EXCEPT !.staked = p.reply - sp.unstaked,
                                    !.last_asked_rewards_epoch_height = epoch_height]
  <1>1. /\ p.reply \in Nat /\ sp \in StakingPoolInfo
        /\ sp.staked \in Nat /\ sp.unstaked \in Nat
    BY Promises
  <1>2. promises' = promises \ {p}
    BY DEF on_get_sp_total_balance, unlock_with
  <1>3. /\ Carries(p, in_flight({"stake", "restake"}), in_flight({"unstake"}),
                   sent_not_deducted, paid_not_recorded)
        /\ in_flight({"stake", "restake"})' = 0 /\ in_flight({"unstake"})' = 0
        /\ sent_not_deducted' = 0 /\ paid_not_recorded' = 0
        /\ RetrievesAll'
    BY <1>2, EndOfCall
  <1>4. /\ p.op = "rewards" /\ sp.unstaked <= p.reply
        /\ unlock_with(p, rewarded)
        /\ total_for_staking' = total_for_staking + rewards
        /\ total_actually_staked' = total_actually_staked + rewards
        /\ UNCHANGED <<total_available, order_vars, claim_vars, money_vars>>
    BY DEF on_get_sp_total_balance
  <1>5. /\ in_flight({"stake", "restake"}) = 0 /\ in_flight({"unstake"}) = 0
        /\ sent_not_deducted = 0 /\ paid_not_recorded = 0
    BY <1>3, <1>4 DEF Carries, sends, pays
  <1>6. rewards \in Nat
    <2>1. sp.staked + sp.unstaked \in Nat
      BY <1>1
    <2> QED
      BY <1>1, <2>1, SaturatingSubNat
  <1> HIDE DEF rewards
  <1>7. rewarded \in StakingPoolInfo /\ rewarded.unstaked = sp.unstaked
    <2>1. p.reply - sp.unstaked \in Nat
      BY <1>1, <1>4
    <2> QED
      BY <1>1, <2>1 DEF StakingPoolInfo, TypeOK
  <1>8. UnstakedAddsUp'
    <2>1. total_unstaked_and_waiting'
            = total_unstaked_and_waiting - sp.unstaked + rewarded.unstaked
      BY <1>1, <1>4, <1>7 DEF TypeOK, claim_vars
    <2> HIDE DEF rewarded
    <2> QED
      BY <1>4, <1>7, <2>1, UnlockChangesUnstaked DEF Books
  <1>9. CashBacked' /\ ClaimsBacked' /\ BalanceMatches'
    BY <1>3, <1>4, <1>5
    DEF Books, CashBacked, ClaimsBacked, BalanceMatches, order_vars, claim_vars, money_vars
  <1>10. OrdersMatchDelta'
    BY <1>4, <1>6 DEF Books, TypeOK, OrdersMatchDelta, order_vars
  <1> QED
    BY <1>3, <1>8, <1>9, <1>10 DEF Books

LEMMA OnRewardsPanicKeepsBooks ==
  ASSUME TypeOK, OneCallInFlight, Books, NEW p \in promises,
         on_get_sp_total_balance_panics(p)
  PROVE  Books'
  <1>1. /\ p.op = "rewards" /\ promises' = promises \ {p}
        /\ UNCHANGED <<user_vars, order_vars, stake_vars, claim_vars, staking_pools,
                       money_vars>>
    BY DEF on_get_sp_total_balance_panics
  <1>2. /\ Carries(p, in_flight({"stake", "restake"}), in_flight({"unstake"}),
                   sent_not_deducted, paid_not_recorded)
        /\ in_flight({"stake", "restake"})' = 0 /\ in_flight({"unstake"})' = 0
        /\ sent_not_deducted' = 0 /\ paid_not_recorded' = 0
        /\ RetrievesAll'
    BY <1>1, EndOfCall
  <1>3. /\ in_flight({"stake", "restake"}) = 0 /\ in_flight({"unstake"}) = 0
        /\ sent_not_deducted = 0 /\ paid_not_recorded = 0
    BY <1>1, <1>2 DEF Carries, sends, pays
  <1>4. UnstakedAddsUp'
    BY <1>1, SameUnstaked DEF Books, unstaked_in_pools, claim_vars
  <1> QED
    BY <1>1, <1>2, <1>3, <1>4
    DEF Books, CashBacked, ClaimsBacked, OrdersMatchDelta, BalanceMatches, user_vars,
        order_vars, stake_vars, claim_vars, money_vars

LEMMA CallbackKeepsBooks ==
  ASSUME TypeOK, OneCallInFlight, Books, Callback
  PROVE  Books'
  BY OnStakeKeepsBooks, OnUnstakeKeepsBooks, OnRetrieveKeepsBooks, OnRewardsKeepsBooks,
     OnRewardsPanicKeepsBooks
  DEF Callback

(***************************************************************************)
(* The pool's answer. The call stays in flight with its amount; what it     *)
(* still carries of the native balance turns into NEAR on its way.          *)
(***************************************************************************)
LEMMA AnswerKeepsBooks ==
  ASSUME TypeOK, OneCallInFlight, Books, NEW p \in promises, p.status = "sent",
         NEW status \in {"ok", "failed"}, NEW reply, resolved(p, status, reply),
         incoming' = incoming + (IF \/ status = "ok" /\ p.op = "retrieve"
                                    \/ status = "failed" /\ p.op = "stake"
                                 THEN p.amount ELSE 0),
         UNCHANGED <<user_vars, order_vars, stake_vars, claim_vars, contract_busy,
                     staking_pools, contract_account_balance, account_balance>>
  PROVE  Books'
  <1> DEFINE q == [p EXCEPT !.status = status, !.reply = reply]
  <1>1. promises = {p} /\ promises' = {q}
    BY OnlyOne, ResolveKeepsOne
  <1>2. q.op = p.op /\ q.sp = p.sp /\ q.amount = p.amount /\ q.status = status
    BY Promises DEF Promise
  <1> HIDE DEF q
  <1>3. /\ Carries(p, in_flight({"stake", "restake"}), in_flight({"unstake"}),
                   sent_not_deducted, paid_not_recorded)
        /\ Carries(q, in_flight({"stake", "restake"})', in_flight({"unstake"})',
                   sent_not_deducted', paid_not_recorded')
    BY <1>1, OneCarried
  <1>4. /\ in_flight({"stake", "restake"})' = in_flight({"stake", "restake"})
        /\ in_flight({"unstake"})' = in_flight({"unstake"})
    BY <1>2, <1>3 DEF Carries
  <1>5. incoming' + sent_not_deducted' + paid_not_recorded
          = incoming + sent_not_deducted + paid_not_recorded'
    <2>1. p.amount \in Nat /\ incoming \in Nat
      BY Promises DEF TypeOK
    <2>2. CASE p.op = "stake"
      BY <1>2, <1>3, <2>1, <2>2 DEF Carries, sends, pays
    <2>3. CASE p.op = "retrieve"
      BY <1>2, <1>3, <2>1, <2>3 DEF Carries, sends, pays
    <2>4. CASE p.op \notin {"stake", "retrieve"}
      BY <1>2, <1>3, <2>1, <2>4 DEF Carries, sends, pays
    <2> QED
      BY <2>2, <2>3, <2>4
  <1>6. UnstakedAddsUp' /\ RetrievesAll'
    BY <1>1, <1>2, SameUnstaked DEF Books, RetrievesAll, unstaked_in_pools, claim_vars
  <1>7. CashBacked' /\ ClaimsBacked' /\ OrdersMatchDelta'
    BY <1>4 DEF Books, CashBacked, ClaimsBacked, OrdersMatchDelta, user_vars, order_vars,
                stake_vars, claim_vars
  <1>8. BalanceMatches'
    <2>1. /\ sent_not_deducted \in Nat /\ paid_not_recorded \in Nat
          /\ sent_not_deducted' \in Nat /\ paid_not_recorded' \in Nat
          /\ incoming' \in Nat
      BY <1>2, <1>3, Promises DEF Carries, TypeOK
    <2>2. /\ account_balance' = account_balance /\ account_balance \in Nat
          /\ contract_account_balance' = contract_account_balance
          /\ contract_account_balance \in Nat /\ incoming \in Nat
          /\ MinBalanceForStorage \in Nat
      BY Constants DEF TypeOK
    <2>3. account_balance + incoming + sent_not_deducted
            = MinBalanceForStorage + contract_account_balance + paid_not_recorded
      BY DEF Books, BalanceMatches
    <2>4. account_balance' + incoming' + sent_not_deducted'
            = MinBalanceForStorage + contract_account_balance' + paid_not_recorded'
      BY <1>5, <2>1, <2>2, <2>3
    <2> QED
      BY <2>4 DEF BalanceMatches
  <1> QED
    BY <1>6, <1>7, <1>8 DEF Books

LEMMA EnvironmentKeepsBooks ==
  ASSUME TypeOK, OneCallInFlight, Books, Environment
  PROVE  Books'
  <1>1. CASE \E p \in promises : pool_performs(p)
    <2>1. PICK p \in promises : pool_performs(p)
      BY <1>1
    <2>2. PICK reply : resolved(p, "ok", reply)
      BY <2>1 DEF pool_performs
    <2>3. /\ p.status = "sent"
          /\ UNCHANGED <<user_vars, order_vars, stake_vars, claim_vars, contract_busy,
                         staking_pools, contract_account_balance, account_balance>>
      BY <2>1 DEF pool_performs
    <2>4. incoming' = incoming + (IF p.op = "retrieve" THEN p.amount ELSE 0)
      BY <2>1 DEF pool_performs, TypeOK
    <2> QED
      BY <2>2, <2>3, <2>4, AnswerKeepsBooks
  <1>2. CASE \E p \in promises : pool_fails(p)
    BY <1>2, AnswerKeepsBooks DEF pool_fails
  <1>3. CASE transfer_arrives
    <2>1. unstaked_in_pools' = unstaked_in_pools
      BY <1>3 DEF transfer_arrives, pool_vars, unstaked_in_pools
    <2>2. UnstakedAddsUp' /\ RetrievesAll'
      BY <1>3, <2>1, SameUnstaked
      DEF Books, RetrievesAll, transfer_arrives, pool_vars, claim_vars
    <2>3. CashBacked' /\ ClaimsBacked' /\ OrdersMatchDelta'
      BY <1>3 DEF transfer_arrives, Books, CashBacked, ClaimsBacked, OrdersMatchDelta,
                  in_flight, user_vars, order_vars, stake_vars, claim_vars, pool_vars
    <2>4. BalanceMatches'
      <3>1. sent_not_deducted' = sent_not_deducted /\ paid_not_recorded' = paid_not_recorded
        BY <1>3 DEF transfer_arrives, pool_vars, sent_not_deducted, paid_not_recorded
      <3> QED
        BY <1>3, <3>1, CarriedNat, Constants
        DEF transfer_arrives, Books, BalanceMatches, TypeOK
    <2> QED
      BY <2>2, <2>3, <2>4 DEF Books
  <1>4. CASE next_epoch
    <2>1. Balanced(0, 0, 0, 0)
      BY <1>4 DEF next_epoch, Balanced, TypeOK, user_vars, order_vars, stake_vars,
                  claim_vars, money_vars
    <2> QED
      BY <2>1, BalancedKeepsBooks DEF BalancedStep
  <1> QED
    BY <1>1, <1>2, <1>3, <1>4 DEF Environment

-----------------------------------------------------------------------------
LEMMA InitBooks == Init => Books
  <1> SUFFICES ASSUME Init PROVE Books
    OBVIOUS
  <1>1. promises = {}
    BY DEF Init
  <1>2. /\ in_flight({"stake", "restake"}) = 0 /\ in_flight({"unstake"}) = 0
        /\ sent_not_deducted = 0 /\ paid_not_recorded = 0
    BY <1>1, NoneCarried
  <1>3. UnstakedAddsUp
    <2>1. \A i \in 1..Len(Weights) : unstaked_in_pools[i] = 0
      BY PoolIndexes DEF Init, NewStakingPool, unstaked_in_pools
    <2> QED
      BY <2>1, PoolIndexes, SumZero DEF Init, UnstakedAddsUp
  <1>4. RetrievesAll
    BY <1>1 DEF RetrievesAll
  <1> QED
    BY <1>2, <1>3, <1>4, Constants
    DEF Init, Books, CashBacked, ClaimsBacked, OrdersMatchDelta, BalanceMatches

LEMMA NextKeepsBooks ==
  ASSUME TypeOK, OneCallInFlight, Books, [Next]_vars
  PROVE  Books'
  <1>1. CASE UNCHANGED vars
    <2>1. Balanced(0, 0, 0, 0)
      BY <1>1 DEF Balanced, TypeOK, vars, user_vars, order_vars, stake_vars, claim_vars,
                  money_vars
    <2> QED
      BY <2>1, BalancedKeepsBooks DEF BalancedStep
  <1>2. CASE UserStep
    BY <1>2, UserMoves, BalancedKeepsBooks
  <1> QED
    BY <1>1, <1>2, HeartbeatKeepsBooks, CallbackKeepsBooks, EnvironmentKeepsBooks DEF Next

(* The invariant the theorems below are read from. *)
THEOREM BooksKept == Spec => []Books
  <1>1. TypeOK /\ OneCallInFlight /\ Books /\ [Next]_vars => Books'
    BY NextKeepsBooks
  <1> QED
    BY <1>1, InitBooks, TypeCorrect, CallsExcludeEachOther, PTL DEF Spec

(***************************************************************************)
(* CashBacked, for every number of users and pools and all amounts: the NEAR *)
(* the contract counts as its own is available, reserved, ordered to stake  *)
(* or in the stake under way, whatever fails in between.                    *)
(***************************************************************************)
THEOREM CashIsBacked == Spec => []CashBacked
  BY BooksKept, PTL DEF Books

(***************************************************************************)
(* ClaimsBacked: no sequence of unstakes, clearings, re-stakes, retrievals  *)
(* and failures of them leaves an unstake claim without the NEAR, or the    *)
(* order, that will pay it.                                                 *)
(***************************************************************************)
THEOREM ClaimsAreBacked == Spec => []ClaimsBacked
  BY BooksKept, PTL DEF Books

(* OrdersMatchDelta: what is ordered is what remains to be staked or unstaked. *)
THEOREM OrdersAreTheDelta == Spec => []OrdersMatchDelta
  BY BooksKept, PTL DEF Books

(***************************************************************************)
(* BalanceMatches: the contract's own balance is the native one, counting   *)
(* what travels, in whatever order receipts and callbacks run.              *)
(***************************************************************************)
THEOREM BalancesMatch == Spec => []BalanceMatches
  BY BooksKept, PTL DEF Books

LEMMA BooksAreSolvent ==
  ASSUME TypeOK, OneCallInFlight, Books
  PROVE  Solvent
  <1>1. /\ in_flight({"stake", "restake"}) \in Nat /\ in_flight({"unstake"}) \in Nat
        /\ TypeOK
    BY CarriedNat
  <1>2. recorded_holdings = total_available + total_for_staking + total_unstake_claims
    BY <1>1
    DEF Books, TypeOK, CashBacked, ClaimsBacked, OrdersMatchDelta, recorded_holdings
  <1> QED
    BY <1>2 DEF Solvent, Promised!Backed

(***************************************************************************)
(* Solvent: the sum of the books. What is owed for NEAR available, stNEAR   *)
(* and claims is what the contract and the pools hold, no more and no less. *)
(***************************************************************************)
THEOREM PoolIsSolvent == Spec => []Solvent
  <1>1. TypeOK /\ OneCallInFlight /\ Books => Solvent
    BY BooksAreSolvent
  <1> QED
    BY <1>1, BooksKept, TypeCorrect, CallsExcludeEachOther, PTL

(***************************************************************************)
(* ReservePayable: the reserve is a part of the claims and of the balance   *)
(* the contract keeps, and the native balance, less what storage needs, of  *)
(* all of that but the stake that has left it.                              *)
(***************************************************************************)
THEOREM ReserveIsPayable == Spec => []ReservePayable
  <1>1. ASSUME TypeOK, OneCallInFlight, Books
        PROVE  ReservePayable
    <2>1. /\ in_flight({"stake", "restake"}) \in Nat /\ in_flight({"unstake"}) \in Nat
          /\ sent_not_deducted \in Nat /\ paid_not_recorded \in Nat
      BY <1>1, CarriedNat
    <2>2. sent_not_deducted <= in_flight({"stake", "restake"})
      <3>1. CASE promises = {}
        BY <3>1, NoneCarried
      <3>2. CASE promises # {}
        <4>1. PICK p \in promises : promises = {p}
          BY <1>1, <3>2, OnlyOne
        <4>2. Carries(p, in_flight({"stake", "restake"}), in_flight({"unstake"}),
                      sent_not_deducted, paid_not_recorded)
          BY <4>1, OneCarried
        <4> QED
          BY <1>1, <4>2, Promises DEF Carries, sends
      <3> QED
        BY <3>1, <3>2
    <2>3. reserve_for_unstake_claims <= total_unstake_claims
      BY <1>1, <2>1 DEF Books, TypeOK, ClaimsBacked
    <2>4. reserve_for_unstake_claims + in_flight({"stake", "restake"})
            <= contract_account_balance
      BY <1>1, <2>1 DEF Books, TypeOK, CashBacked
    <2>5. account_balance + incoming >= MinBalanceForStorage + reserve_for_unstake_claims
      BY <1>1, <2>1, <2>2, <2>4, Constants DEF Books, TypeOK, BalanceMatches
    <2>6. ASSUME NEW u \in Users, accounts[u].unstaked <= reserve_for_unstake_claims
          PROVE  /\ accounts[u].unstaked <= total_unstake_claims
                 /\ accounts[u].unstaked <= contract_account_balance
                 /\ account_balance + incoming - accounts[u].unstaked
                      >= MinBalanceForStorage
      <3>1. accounts[u].unstaked \in Nat
        BY <1>1, AccountNames DEF TypeOK, Account
      <3> QED
        BY <1>1, <2>1, <2>3, <2>4, <2>5, <2>6, <3>1, Constants DEF TypeOK
    <2> QED
      BY <2>6 DEF ReservePayable
  <1> QED
    BY <1>1, BooksKept, TypeCorrect, CallsExcludeEachOther, PTL

-----------------------------------------------------------------------------
(***************************************************************************)
(* What the pool and the contract's totals hold for the call in flight: the *)
(* locks keep anyone from taking it before the callback does. With it, the  *)
(* weights of the pools never change.                                       *)
(***************************************************************************)
Covered(p, sp) ==
  /\ p.op = "restake" => p.amount <= sp.unstaked
  /\ p.op = "unstake" => p.amount <= sp.staked
  /\ p.op \in {"stake", "restake"} => p.amount <= total_actually_staked
  /\ p.op = "rewards" /\ p.status = "ok" => sp.unstaked <= p.reply
  /\ p.status = "failed" => p.op \in FailingCalls

CallsCovered == \A p \in promises : Covered(p, staking_pools[p.sp])

LEMMA SameCalls ==
  ASSUME CallsCovered, UNCHANGED <<promises, staking_pools, total_actually_staked>>
  PROVE  CallsCovered'
  BY DEF CallsCovered, Covered

LEMMA CallCovered ==
  ASSUME TypeOK, OneCallInFlight, ~contract_busy, NEW i \in DOMAIN staking_pools,
         NEW op, NEW n \in Nat, lock_and_call(i, Call(op, i, n)),
         op = "restake" => n <= staking_pools[i].unstaked,
         op = "unstake" => n <= staking_pools[i].staked,
         op \in {"stake", "restake"} => n <= total_actually_staked'
  PROVE  CallsCovered'
  <1> DEFINE p == Call(op, i, n)
  <1>1. promises' = {p}
    BY LockKeepsOne
  <1>2. p.op = op /\ p.sp = i /\ p.amount = n /\ p.status = "sent"
    BY DEF Call
  <1>3. /\ staking_pools'[i].staked = staking_pools[i].staked
        /\ staking_pools'[i].unstaked = staking_pools[i].unstaked
    BY PoolRecords DEF lock_and_call, StakingPoolInfo
  <1> HIDE DEF p
  <1> QED
    BY <1>1, <1>2, <1>3 DEF CallsCovered, Covered

LEMMA StakingCallCovered ==
  ASSUME TypeOK, OneCallInFlight, distribute_staking_call
  PROVE  CallsCovered'
  <1>1. PICK i \in DOMAIN staking_pools :
          direct_stake(i, amount_to_move(required_stake(staking_pools[i]),
                                         total_amount_to_stake, TRUE))
    BY DEF distribute_staking_call
  <1> DEFINE sp == staking_pools[i]
             requested == amount_to_move(required_stake(sp), total_amount_to_stake, TRUE)
             restake == sp.unstaked >= MinRestakeAmount
             op == IF restake THEN "restake" ELSE "stake"
             amount == IF restake THEN amount_to_restake(sp, requested) ELSE requested
  <1>2. total_amount_to_stake \in Nat
    <2>1. total_for_staking - total_actually_staked \in Nat
      BY DEF TypeOK, distribute_staking_call
    <2> QED
      BY <2>1, MinimumBounds DEF total_amount_to_stake, TypeOK
  <1>3. requested \in Nat
    BY <1>2, RequiredNat, MoveBounds
  <1>4. /\ lock_and_call(i, Call(op, i, amount))
        /\ total_actually_staked' = total_actually_staked + amount
    BY <1>1 DEF direct_stake
  <1> HIDE DEF requested
  <1>5. amount \in Nat /\ (restake => amount <= sp.unstaked)
    BY <1>3, PoolRecords, MinimumBounds DEF amount_to_restake
  <1> HIDE DEF amount
  <1>6. op = "restake" => restake
    OBVIOUS
  <1> HIDE DEF restake, op
  <1>7. amount <= total_actually_staked'
    BY <1>4, <1>5 DEF TypeOK
  <1>8. op # "unstake"
    BY DEF op
  <1> QED
    BY <1>4, <1>5, <1>6, <1>7, <1>8, CallCovered DEF distribute_staking_call

LEMMA HeartbeatCovered ==
  ASSUME TypeOK, OneCallInFlight, CallsCovered, HeartbeatCall
  PROVE  CallsCovered'
  <1>1. CASE distribute_staking_clearing
    BY <1>1, SameCalls DEF distribute_staking_clearing, pool_vars
  <1>2. CASE distribute_staking_call
    BY <1>2, StakingCallCovered
  <1>3. CASE distribute_unstaking
    <2>1. PICK i \in DOMAIN staking_pools :
            direct_unstake(i, amount_to_unstake(staking_pools[i]))
      BY <1>3 DEF distribute_unstaking
    <2> DEFINE n == amount_to_unstake(staking_pools[i])
    <2>2. /\ lock_and_call(i, Call("unstake", i, n)) /\ n <= staking_pools[i].staked
          /\ ~contract_busy
      BY <2>1 DEF direct_unstake
    <2>3. n \in Nat
      <3>1. total_to_unstake \in Nat
        <4>1. total_actually_staked - total_for_staking \in Nat
          BY <1>3 DEF TypeOK, distribute_unstaking
        <4> QED
          BY <4>1, MinimumBounds DEF total_to_unstake, TypeOK
      <3> QED
        BY <3>1, RequiredNat, MoveBounds DEF amount_to_unstake
    <2> HIDE DEF n
    <2> QED
      BY <2>2, <2>3, CallCovered
  <1>4. CASE end_of_epoch_clearing
    BY <1>4, SameCalls DEF end_of_epoch_clearing, pool_vars, stake_vars
  <1>5. CASE \E i \in DOMAIN staking_pools : retrieve_funds_from_a_pool(i)
    BY <1>5, CallCovered, PoolRecords DEF retrieve_funds_from_a_pool, free_to_call
  <1>6. CASE \E i \in AskedPools \cap DOMAIN staking_pools : distribute_rewards(i)
    BY <1>6, CallCovered DEF distribute_rewards, free_to_call
  <1> QED
    BY <1>1, <1>2, <1>3, <1>4, <1>5, <1>6 DEF HeartbeatCall, distribute_staking

LEMMA AnswerCovered ==
  ASSUME TypeOK, OneCallInFlight, CallsCovered, NEW p \in promises,
         NEW status \in {"ok", "failed"}, NEW reply, resolved(p, status, reply),
         status = "failed" => p.op \in FailingCalls,
         status = "ok" /\ p.op = "rewards" => staking_pools[p.sp].unstaked <= reply,
         UNCHANGED <<contract_busy, staking_pools, total_actually_staked>>
  PROVE  CallsCovered'
  <1> DEFINE q == [p EXCEPT !.status = status, !.reply = reply]
  <1>1. promises' = {q}
    BY ResolveKeepsOne
  <1>2. q.op = p.op /\ q.sp = p.sp /\ q.amount = p.amount /\ q.status = status
        /\ q.reply = reply
    BY Promises DEF Promise
  <1> HIDE DEF q
  <1> QED
    BY <1>1, <1>2 DEF CallsCovered, Covered

LEMMA EnvironmentCovered ==
  ASSUME TypeOK, OneCallInFlight, CallsCovered, Environment
  PROVE  CallsCovered'
  <1>1. CASE \E p \in promises : pool_performs(p)
    <2>1. PICK p \in promises : pool_performs(p)
      BY <1>1
    <2>2. UNCHANGED <<contract_busy, staking_pools, total_actually_staked>>
      BY <2>1 DEF pool_performs, stake_vars
    <2>3. CASE p.op = "rewards"
      <3>1. PICK r \in RewardReplies :
              /\ staking_pools[p.sp].staked + r >= 0
              /\ resolved(p, "ok", staking_pools[p.sp].staked + staking_pools[p.sp].unstaked + r)
        BY <2>1, <2>3 DEF pool_performs
      <3>2. /\ staking_pools[p.sp].staked \in Nat /\ staking_pools[p.sp].unstaked \in Nat
            /\ r \in Int
        BY Promises, EnvironmentAssumption
      <3>3. staking_pools[p.sp].unstaked
              <= staking_pools[p.sp].staked + staking_pools[p.sp].unstaked + r
        BY <3>1, <3>2
      <3> QED
        BY <2>2, <3>1, <3>3, AnswerCovered
    <2>4. CASE p.op # "rewards"
      <3>1. resolved(p, "ok", 0)
        BY <2>1, <2>4 DEF pool_performs
      <3> QED
        BY <2>2, <2>4, <3>1, AnswerCovered
    <2> QED
      BY <2>3, <2>4
  <1>2. CASE \E p \in promises : pool_fails(p)
    BY <1>2, AnswerCovered DEF pool_fails, stake_vars
  <1>3. CASE transfer_arrives \/ next_epoch
    BY <1>3, SameCalls DEF transfer_arrives, next_epoch, pool_vars, stake_vars
  <1> QED
    BY <1>1, <1>2, <1>3 DEF Environment

LEMMA NextCovered ==
  ASSUME TypeOK, OneCallInFlight, CallsCovered, [Next]_vars
  PROVE  CallsCovered'
  <1>1. CASE UNCHANGED vars
    BY <1>1, SameCalls DEF vars, pool_vars, stake_vars
  <1>2. CASE UserStep
    BY <1>2, UserMoves, SameCalls DEF BalancedStep, Balanced, pool_vars
  <1>3. CASE Callback
    <2>1. PICK p \in promises : promises' = promises \ {p}
      BY <1>3 DEF Callback, on_staking_pool_stake_maybe_deposit, on_staking_pool_unstake,
                  on_retrieve_from_staking_pool, on_get_sp_total_balance,
                  on_get_sp_total_balance_panics, unlock_with
    <2> QED
      BY <2>1, UnlockKeepsOne DEF CallsCovered
  <1> QED
    BY <1>1, <1>2, <1>3, HeartbeatCovered, EnvironmentCovered DEF Next

THEOREM CallsStayCovered == Spec => []CallsCovered
  <1>1. Init => CallsCovered
    BY DEF Init, CallsCovered
  <1>2. TypeOK /\ OneCallInFlight /\ CallsCovered /\ [Next]_vars => CallsCovered'
    BY NextCovered
  <1> QED
    BY <1>1, <1>2, TypeCorrect, CallsExcludeEachOther, PTL DEF Spec

(***************************************************************************)
(* CallbacksNeverPanic, when no view of a pool's balance fails (when one    *)
(* does, the callback does panic, and a run shows it): whatever users do    *)
(* between a call and its callback, and whether it succeeds or fails, none  *)
(* of the callback's subtractions underflows.                               *)
(***************************************************************************)
THEOREM CallbacksComplete ==
  ASSUME "rewards" \notin FailingCalls
  PROVE  Spec => []CallbacksNeverPanic
  <1>1. ASSUME TypeOK, OneCallInFlight, Books, CallsCovered
        PROVE  CallbacksNeverPanic
    <2> SUFFICES ASSUME NEW p \in promises PROVE callback_completes(p)
      BY DEF CallbacksNeverPanic
    <2>1. Covered(p, staking_pools[p.sp])
      BY <1>1 DEF CallsCovered
    <2>2. p.amount \in Nat
      BY <1>1, Promises
    <2>3. p.op = "stake" => p.amount <= contract_account_balance
      <3>1. promises = {p}
        BY <1>1, OnlyOne
      <3>2. p.op = "stake" => in_flight({"stake", "restake"}) = p.amount
        BY <3>1, OneCarried DEF Carries
      <3> QED
        BY <1>1, <2>2, <3>2 DEF Books, TypeOK, CashBacked
    <2>4. p.op = "restake" => p.amount <= total_unstaked_and_waiting
      <3> DEFINE S == 1..Len(Weights)
      <3>1. /\ p.sp \in S /\ IsFiniteSet(S)
            /\ \A i \in S : unstaked_in_pools[i] \in Nat
            /\ unstaked_in_pools[p.sp] = staking_pools[p.sp].unstaked
        BY <1>1, Promises, PoolIndexes DEF unstaked_in_pools
      <3>2. total_unstaked_and_waiting = SumFunctionOnSet(unstaked_in_pools, S)
        BY <1>1 DEF Books, UnstakedAddsUp
      <3>3. staking_pools[p.sp].unstaked <= total_unstaked_and_waiting
        <4> HIDE DEF S
        <4> QED
          BY <3>1, <3>2, SumNat
      <3> QED
        BY <1>1, <2>1, <2>2, <3>3, Promises DEF Covered, TypeOK
    <2> QED
      BY <2>1, <2>3, <2>4 DEF callback_completes, Covered
  <1> QED
    BY <1>1, BooksKept, CallsStayCovered, TypeCorrect, CallsExcludeEachOther, PTL

-----------------------------------------------------------------------------
(***************************************************************************)
(* The stake of the pools against the totals. What the totals count as      *)
(* staked and the records of the pools do not is only ever increased, by a  *)
(* pool that reports less than its record; every call that sends, undoes or *)
(* records a stake moves both sides.                                        *)
(***************************************************************************)
staked_in_pools == [i \in 1..Len(Weights) |-> staking_pools[i].staked]

not_in_pools ==
  (total_actually_staked + in_flight({"unstake"}))
  - (SumFunctionOnSet(staked_in_pools, 1..Len(Weights)) + in_flight({"stake", "restake"}))

ReportsNoLess(p) ==
  p.op = "rewards" /\ p.status = "ok" =>
    p.reply >= staking_pools[p.sp].staked + staking_pools[p.sp].unstaked

NoneReportsLess == \A p \in promises : ReportsNoLess(p)

WeightsKept ==
  \A i \in 1..Len(Weights) : staking_pools[i].weight_basis_points = Weights[i]

StakedStep ==
  /\ \E lost \in Nat : not_in_pools' = not_in_pools + lost
  /\ NoneReportsLess => not_in_pools' = not_in_pools
  /\ WeightsKept => WeightsKept'

LEMMA StakedInPools ==
  ASSUME TypeOK
  PROVE  /\ staked_in_pools \in [1..Len(Weights) -> Nat]
         /\ SumFunctionOnSet(staked_in_pools, 1..Len(Weights)) \in Nat
         /\ OneCallInFlight => not_in_pools \in Int
  <1>1. staked_in_pools \in [1..Len(Weights) -> Nat]
    BY PoolIndexes, PoolRecords DEF staked_in_pools
  <1>2. SumFunctionOnSet(staked_in_pools, 1..Len(Weights)) \in Nat
    BY <1>1, PoolIndexes, SumNat
  <1> QED
    BY <1>1, <1>2, CarriedNat DEF not_in_pools, TypeOK

LEMMA SameStaked ==
  ASSUME TypeOK, OneCallInFlight,
         UNCHANGED <<staking_pools, promises, total_actually_staked>>
  PROVE  StakedStep
  <1>1. /\ in_flight({"stake", "restake"})' = in_flight({"stake", "restake"})
        /\ in_flight({"unstake"})' = in_flight({"unstake"})
        /\ staked_in_pools' = staked_in_pools
    BY DEF in_flight, staked_in_pools
  <1>2. not_in_pools' = not_in_pools
    BY <1>1 DEF not_in_pools
  <1> QED
    BY <1>2, StakedInPools DEF StakedStep, WeightsKept

(* A call that counts as staked, or no longer, what it carries. *)
LEMMA CallKeepsStaked ==
  ASSUME TypeOK, OneCallInFlight, ~contract_busy, NEW i \in DOMAIN staking_pools,
         NEW op, NEW n \in Nat, lock_and_call(i, Call(op, i, n)),
         total_actually_staked' = total_actually_staked
           + (IF op \in {"stake", "restake"} THEN n ELSE 0)
           - (IF op = "unstake" THEN n ELSE 0)
  PROVE  StakedStep
  <1> DEFINE p == Call(op, i, n)
  <1>1. promises = {} /\ promises' = {p}
    BY NoneInFlight, LockKeepsOne
  <1>2. p.op = op /\ p.amount = n /\ p.status = "sent"
    BY DEF Call
  <1> HIDE DEF p
  <1>3. in_flight({"stake", "restake"}) = 0 /\ in_flight({"unstake"}) = 0
    BY <1>1, NoneCarried
  <1>4. /\ in_flight({"stake", "restake"})' = (IF op \in {"stake", "restake"} THEN n ELSE 0)
        /\ in_flight({"unstake"})' = (IF op = "unstake" THEN n ELSE 0)
    BY <1>1, <1>2, OneCarried DEF Carries
  <1>5. staking_pools' = [staking_pools EXCEPT ![i].busy_lock = TRUE]
    BY DEF lock_and_call
  <1>6. \A j \in 1..Len(Weights) :
          /\ staking_pools'[j].staked = staking_pools[j].staked
          /\ staking_pools'[j].weight_basis_points = staking_pools[j].weight_basis_points
    BY <1>5, PoolIndexes, PoolRecords DEF StakingPoolInfo
  <1>7. staked_in_pools' = staked_in_pools
    BY <1>6 DEF staked_in_pools
  <1>8. not_in_pools' = not_in_pools
    <2> DEFINE S == SumFunctionOnSet(staked_in_pools, 1..Len(Weights))
    <2>1. S \in Nat /\ total_actually_staked \in Nat
      BY StakedInPools DEF TypeOK
    <2>2. /\ not_in_pools = (total_actually_staked + 0) - (S + 0)
          /\ not_in_pools' = (total_actually_staked' + in_flight({"unstake"})')
                             - (S + in_flight({"stake", "restake"})')
      BY <1>3, <1>7 DEF not_in_pools
    <2> HIDE DEF S
    <2> QED
      BY <1>4, <2>1, <2>2
  <1> QED
    BY <1>6, <1>8, StakedInPools DEF StakedStep, WeightsKept

(* What the end of a call makes of the stake of its pool. *)
LEMMA EndKeepsStaked ==
  ASSUME TypeOK, OneCallInFlight, NEW p \in promises, NEW sp \in StakingPoolInfo,
         unlock_with(p, sp),
         sp.weight_basis_points = staking_pools[p.sp].weight_basis_points,
         NEW more \in Int, NEW gone \in Nat,
         total_actually_staked' = total_actually_staked + more,
         sp.staked - staking_pools[p.sp].staked + gone
           = more + (IF p.op \in {"stake", "restake"} THEN p.amount ELSE 0)
                  - (IF p.op = "unstake" THEN p.amount ELSE 0),
         NoneReportsLess => gone = 0
  PROVE  StakedStep
  <1> DEFINE freed == [sp EXCEPT !.busy_lock = FALSE]
             S == 1..Len(Weights)
             before == staked_in_pools
             after == staked_in_pools'
  <1>1. /\ p.sp \in S /\ IsFiniteSet(S) /\ p.amount \in Nat
        /\ sp.staked \in Nat /\ staking_pools[p.sp].staked \in Nat
        /\ freed.staked = sp.staked
        /\ freed.weight_basis_points = sp.weight_basis_points
    BY Promises, PoolIndexes DEF StakingPoolInfo
  <1>2. staking_pools' = [staking_pools EXCEPT ![p.sp] = freed] /\ promises' = promises \ {p}
    BY DEF unlock_with
  <1> HIDE DEF freed
  <1>3. \A j \in S :
          /\ staking_pools'[j].staked
               = (IF j = p.sp THEN sp.staked ELSE staking_pools[j].staked)
          /\ staking_pools'[j].weight_basis_points = staking_pools[j].weight_basis_points
    BY <1>1, <1>2, PoolIndexes
  <1>4. WeightsKept => WeightsKept'
    BY <1>3 DEF WeightsKept
  <1>5. /\ before[p.sp] = staking_pools[p.sp].staked /\ after[p.sp] = sp.staked
        /\ \A j \in S : before[j] \in Int /\ after[j] \in Int
        /\ \A j \in S \ {p.sp} : after[j] = before[j]
    <2>1. \A j \in S : staking_pools[j].staked \in Int
      BY PoolIndexes, PoolRecords
    <2> QED
      BY <1>1, <1>3, <2>1 DEF staked_in_pools
  <1> DEFINE sum == SumFunctionOnSet(before, S)
             sum2 == SumFunctionOnSet(after, S)
  <1>6. sum2 = sum + (sp.staked - staking_pools[p.sp].staked)
    <2>1. sum2 = sum + (after[p.sp] - before[p.sp])
      <3> HIDE DEF S, before, after
      <3> QED
        BY <1>1, <1>5, SumOfOneChange
    <2> QED
      BY <1>5, <2>1
  <1>7. sum \in Nat /\ total_actually_staked \in Nat
    BY StakedInPools DEF TypeOK
  <1>8. /\ Carries(p, in_flight({"stake", "restake"}), in_flight({"unstake"}),
                   sent_not_deducted, paid_not_recorded)
        /\ in_flight({"stake", "restake"})' = 0 /\ in_flight({"unstake"})' = 0
    BY <1>2, EndOfCall
  <1>9. /\ not_in_pools = (total_actually_staked + in_flight({"unstake"}))
                          - (sum + in_flight({"stake", "restake"}))
        /\ not_in_pools' = (total_actually_staked' + 0) - (sum2 + 0)
    BY <1>8 DEF not_in_pools
  <1>10. not_in_pools' = not_in_pools + gone /\ not_in_pools \in Int
    <2> DEFINE staking == IF p.op \in {"stake", "restake"} THEN p.amount ELSE 0
               unstaking == IF p.op = "unstake" THEN p.amount ELSE 0
               old == staking_pools[p.sp].staked
    <2>1. /\ in_flight({"stake", "restake"}) = staking /\ in_flight({"unstake"}) = unstaking
          /\ staking \in Nat /\ unstaking \in Nat /\ old \in Nat /\ sp.staked \in Nat
          /\ sp.staked - old + gone = more + staking - unstaking
      BY <1>1, <1>8 DEF Carries
    <2> HIDE DEF sum, sum2, staking, unstaking
    <2>2. /\ not_in_pools = (total_actually_staked + unstaking) - (sum + staking)
          /\ not_in_pools' = total_actually_staked + more - (sum + (sp.staked - old))
      BY <1>1, <1>6, <1>7, <1>9, <2>1
    <2> HIDE DEF old
    <2> DEFINE stake == sp.staked
    <2>3. /\ stake \in Nat /\ stake - old + gone = more + staking - unstaking
          /\ not_in_pools' = total_actually_staked + more - (sum + (stake - old))
      BY <2>1, <2>2
    <2> HIDE DEF stake
    <2>4. sum + (stake - old) = sum + (more + staking - unstaking - gone)
      BY <1>7, <2>1, <2>3
    <2>5. not_in_pools' = total_actually_staked + more - (sum + (more + staking - unstaking - gone))
      BY <2>3, <2>4
    <2> QED
      BY <1>7, <2>1, <2>2, <2>5
  <1> QED
    BY <1>4, <1>10 DEF StakedStep

LEMMA HeartbeatKeepsStaked ==
  ASSUME TypeOK, OneCallInFlight, HeartbeatCall
  PROVE  StakedStep
  <1>1. CASE distribute_staking_clearing
    BY <1>1, StakingClearingMoves, SameStaked DEF BalancedStep, Balanced, pool_vars
  <1>2. CASE distribute_staking_call
    <2>1. PICK i \in DOMAIN staking_pools, n \in Nat, op \in {"stake", "restake"} :
            StakeCalled(i, op, n)
      BY <1>2, StakingCallTyped
    <2>2. /\ lock_and_call(i, Call(op, i, n)) /\ ~contract_busy
          /\ total_actually_staked' = total_actually_staked + n
      BY <1>2, <2>1 DEF StakeCalled, distribute_staking_call
    <2>3. total_actually_staked' = total_actually_staked
            + (IF op \in {"stake", "restake"} THEN n ELSE 0)
            - (IF op = "unstake" THEN n ELSE 0)
      BY <2>2 DEF TypeOK
    <2> QED
      BY <2>2, <2>3, CallKeepsStaked
  <1>3. CASE distribute_unstaking
    <2>1. PICK i \in DOMAIN staking_pools, n \in Nat : UnstakeCalled(i, n)
      BY <1>3, UnstakingTyped
    <2>2. /\ lock_and_call(i, Call("unstake", i, n)) /\ ~contract_busy
          /\ total_actually_staked' = total_actually_staked - n
      BY <1>3, <2>1 DEF UnstakeCalled, distribute_unstaking
    <2>3. total_actually_staked' = total_actually_staked
            + (IF "unstake" \in {"stake", "restake"} THEN n ELSE 0)
            - (IF "unstake" = "unstake" THEN n ELSE 0)
      BY <2>2 DEF TypeOK
    <2> QED
      BY <2>2, <2>3, CallKeepsStaked
  <1>4. CASE end_of_epoch_clearing
    BY <1>4, SameStaked DEF end_of_epoch_clearing, pool_vars, stake_vars
  <1>5. ASSUME NEW i \in DOMAIN staking_pools, NEW n \in Nat, NEW op \in {"retrieve", "rewards"},
               ~contract_busy, lock_and_call(i, Call(op, i, n)), UNCHANGED stake_vars
        PROVE  StakedStep
    <2>1. total_actually_staked' = total_actually_staked
            + (IF op \in {"stake", "restake"} THEN n ELSE 0)
            - (IF op = "unstake" THEN n ELSE 0)
      BY <1>5 DEF TypeOK, stake_vars
    <2> QED
      BY <1>5, <2>1, CallKeepsStaked
  <1>6. CASE \E i \in DOMAIN staking_pools : retrieve_funds_from_a_pool(i)
    BY <1>5, <1>6, PoolRecords DEF retrieve_funds_from_a_pool, free_to_call
  <1>7. CASE \E i \in AskedPools \cap DOMAIN staking_pools : distribute_rewards(i)
    BY <1>5, <1>7 DEF distribute_rewards, free_to_call
  <1> QED
    BY <1>1, <1>2, <1>3, <1>4, <1>6, <1>7 DEF HeartbeatCall, distribute_staking

LEMMA OnStakeKeepsStaked ==
  ASSUME TypeOK, OneCallInFlight, NEW p \in promises,
         on_staking_pool_stake_maybe_deposit(p)
  PROVE  StakedStep
  <1> DEFINE sp == staking_pools[p.sp]
             deposited == [sp EXCEPT !.staked = @ + p.amount]
             restaked == [sp EXCEPT !.staked = @ + p.amount, !.unstaked = @ - p.amount]
  <1>1. /\ p.amount \in Nat /\ sp \in StakingPoolInfo
        /\ sp.staked \in Nat /\ sp.unstaked \in Nat /\ p.op \in {"stake", "restake"}
    BY Promises DEF on_staking_pool_stake_maybe_deposit
  <1>2. ASSUME NEW new \in StakingPoolInfo, unlock_with(p, new),
               new.staked = sp.staked + p.amount,
               new.weight_basis_points = sp.weight_basis_points,
               UNCHANGED total_actually_staked
        PROVE  StakedStep
    <2>1. /\ total_actually_staked' = total_actually_staked + 0
          /\ new.staked - sp.staked + 0
               = 0 + (IF p.op \in {"stake", "restake"} THEN p.amount ELSE 0)
                   - (IF p.op = "unstake" THEN p.amount ELSE 0)
      BY <1>1, <1>2 DEF TypeOK
    <2> QED
      BY <1>2, <2>1, EndKeepsStaked
  <1>3. CASE unlock_with(p, deposited) /\ UNCHANGED total_actually_staked
    <2>1. /\ deposited \in StakingPoolInfo /\ deposited.staked = sp.staked + p.amount
          /\ deposited.weight_basis_points = sp.weight_basis_points
      BY <1>1 DEF StakingPoolInfo
    <2> HIDE DEF deposited
    <2> QED
      BY <1>2, <1>3, <2>1
  <1>4. CASE /\ p.amount <= sp.unstaked /\ unlock_with(p, restaked)
             /\ UNCHANGED total_actually_staked
    <2>1. sp.unstaked - p.amount \in Nat /\ sp.staked + p.amount \in Nat
      BY <1>1, <1>4
    <2>2. /\ restaked \in StakingPoolInfo /\ restaked.staked = sp.staked + p.amount
          /\ restaked.weight_basis_points = sp.weight_basis_points
      BY <1>1, <2>1 DEF StakingPoolInfo
    <2> HIDE DEF restaked
    <2> QED
      BY <1>2, <1>4, <2>2
  <1>5. CASE unlock_with(p, sp) /\ undo_stake(p.amount)
    <2>1. /\ total_actually_staked' = total_actually_staked + (-p.amount)
          /\ -p.amount \in Int
          /\ sp.staked - sp.staked + 0
               = (-p.amount) + (IF p.op \in {"stake", "restake"} THEN p.amount ELSE 0)
                             - (IF p.op = "unstake" THEN p.amount ELSE 0)
      BY <1>1, <1>5 DEF undo_stake, TypeOK
    <2> QED
      BY <1>1, <1>5, <2>1, EndKeepsStaked
  <1> QED
    BY <1>3, <1>4, <1>5 DEF on_staking_pool_stake_maybe_deposit

LEMMA OnUnstakeKeepsStaked ==
  ASSUME TypeOK, OneCallInFlight, NEW p \in promises, on_staking_pool_unstake(p)
  PROVE  StakedStep
  <1> DEFINE sp == staking_pools[p.sp]
             unstaked == [sp EXCEPT !.staked = @ - p.amount,
                                    !.unstaked = @ + p.amount,
                                    !.unstk_req_epoch_height = epoch_height]
  <1>1. /\ p.amount \in Nat /\ sp \in StakingPoolInfo /\ p.op = "unstake"
        /\ sp.staked \in Nat /\ sp.unstaked \in Nat
    BY Promises DEF on_staking_pool_unstake
  <1>2. CASE /\ p.amount <= sp.staked /\ unlock_with(p, unstaked)
             /\ UNCHANGED total_actually_staked
    <2>1. sp.staked - p.amount \in Nat /\ sp.unstaked + p.amount \in Nat
      BY <1>1, <1>2
    <2>2. /\ unstaked \in StakingPoolInfo /\ unstaked.staked = sp.staked - p.amount
          /\ unstaked.weight_basis_points = sp.weight_basis_points
      BY <1>1, <2>1 DEF StakingPoolInfo, TypeOK
    <2> HIDE DEF unstaked
    <2>3. /\ total_actually_staked' = total_actually_staked + 0
          /\ unstaked.staked - sp.staked + 0
               = 0 + (IF p.op \in {"stake", "restake"} THEN p.amount ELSE 0)
                   - (IF p.op = "unstake" THEN p.amount ELSE 0)
      BY <1>1, <1>2, <2>2 DEF TypeOK
    <2> QED
      BY <1>2, <2>2, <2>3, EndKeepsStaked
  <1>3. CASE /\ unlock_with(p, sp)
             /\ total_actually_staked' = total_actually_staked + p.amount
    <2>1. sp.staked - sp.staked + 0
            = p.amount + (IF p.op \in {"stake", "restake"} THEN p.amount ELSE 0)
                       - (IF p.op = "unstake" THEN p.amount ELSE 0)
      BY <1>1
    <2> QED
      BY <1>1, <1>3, <2>1, EndKeepsStaked
  <1> QED
    BY <1>2, <1>3 DEF on_staking_pool_unstake

LEMMA OnRetrieveKeepsStaked ==
  ASSUME TypeOK, OneCallInFlight, NEW p \in promises, on_retrieve_from_staking_pool(p)
  PROVE  StakedStep
  <1> DEFINE sp == staking_pools[p.sp]
             emptied == [sp EXCEPT !.unstaked = 0]
  <1>1. /\ p.amount \in Nat /\ sp \in StakingPoolInfo /\ p.op = "retrieve"
        /\ sp.staked \in Nat /\ UNCHANGED total_actually_staked
    BY Promises DEF on_retrieve_from_staking_pool, stake_vars
  <1>2. /\ emptied \in StakingPoolInfo /\ emptied.staked = sp.staked
        /\ emptied.weight_basis_points = sp.weight_basis_points
    BY <1>1 DEF StakingPoolInfo
  <1>3. PICK new \in {sp, emptied} : unlock_with(p, new)
    BY DEF on_retrieve_from_staking_pool
  <1> HIDE DEF emptied
  <1>4. /\ total_actually_staked' = total_actually_staked + 0
        /\ new.staked - sp.staked + 0
             = 0 + (IF p.op \in {"stake", "restake"} THEN p.amount ELSE 0)
                 - (IF p.op = "unstake" THEN p.amount ELSE 0)
    BY <1>1, <1>2, <1>3 DEF TypeOK
  <1> QED
    BY <1>1, <1>2, <1>3, <1>4, EndKeepsStaked

(* The only callback that may leave the totals above the records. *)
LEMMA OnRewardsKeepsStaked ==
  ASSUME TypeOK, OneCallInFlight, NEW p \in promises, on_get_sp_total_balance(p)
  PROVE  StakedStep
  <1> DEFINE sp == staking_pools[p.sp]
             rewards == saturating_sub(p.reply, sp.staked + sp.unstaked)
             gone == saturating_sub(sp.staked + sp.unstaked, p.reply)
             rewarded == [sp EXCEPT !.staked = p.reply - sp.unstaked,
                                    !.last_asked_rewards_epoch_height = epoch_height]
  <1>1. /\ p.reply \in Nat /\ p.op = "rewards" /\ p.status = "ok"
        /\ sp \in StakingPoolInfo /\ sp.staked \in Nat /\ sp.unstaked \in Nat
        /\ sp.unstaked <= p.reply /\ unlock_with(p, rewarded)
        /\ total_actually_staked' = total_actually_staked + rewards
    BY Promises DEF on_get_sp_total_balance
  <1>2. /\ rewarded \in StakingPoolInfo /\ rewarded.staked = p.reply - sp.unstaked
        /\ rewarded.weight_basis_points = sp.weight_basis_points
    <2>1. p.reply - sp.unstaked \in Nat
      BY <1>1
    <2> QED
      BY <1>1, <2>1 DEF StakingPoolInfo, TypeOK
  <1> HIDE DEF rewarded
  <1>3. /\ rewards \in Nat /\ gone \in Nat
        /\ rewarded.staked - sp.staked + gone = rewards
    BY <1>1, <1>2 DEF saturating_sub
  <1>4. NoneReportsLess => gone = 0
    BY <1>1 DEF NoneReportsLess, ReportsNoLess, saturating_sub
  <1> HIDE DEF rewards, gone
  <1>5. rewarded.staked - sp.staked + gone
          = rewards + (IF p.op \in {"stake", "restake"} THEN p.amount ELSE 0)
                    - (IF p.op = "unstake" THEN p.amount ELSE 0)
    BY <1>1, <1>3
  <1> QED
    BY <1>1, <1>2, <1>3, <1>4, <1>5, EndKeepsStaked

(* The callback that panics ends its call as well, and changes nothing else. *)
LEMMA OnPanicKeepsStaked ==
  ASSUME TypeOK, OneCallInFlight, NEW p \in promises, on_get_sp_total_balance_panics(p)
  PROVE  StakedStep
  <1>1. /\ promises' = promises \ {p} /\ p.op = "rewards"
        /\ UNCHANGED <<staking_pools, total_actually_staked>>
    BY DEF on_get_sp_total_balance_panics, stake_vars
  <1>2. /\ in_flight({"stake", "restake"})' = 0 /\ in_flight({"unstake"})' = 0
        /\ in_flight({"stake", "restake"}) = 0 /\ in_flight({"unstake"}) = 0
    BY <1>1, EndOfCall DEF Carries
  <1>3. staked_in_pools' = staked_in_pools
    BY <1>1 DEF staked_in_pools
  <1>4. not_in_pools' = not_in_pools
    BY <1>1, <1>2, <1>3 DEF not_in_pools
  <1> QED
    BY <1>1, <1>4, StakedInPools DEF StakedStep, WeightsKept

LEMMA CallbackKeepsStaked ==
  ASSUME TypeOK, OneCallInFlight, Callback
  PROVE  StakedStep
  BY OnStakeKeepsStaked, OnUnstakeKeepsStaked, OnRetrieveKeepsStaked, OnRewardsKeepsStaked,
     OnPanicKeepsStaked
  DEF Callback

LEMMA AnswerKeepsStaked ==
  ASSUME TypeOK, OneCallInFlight, NEW p \in promises, NEW status, NEW reply,
         resolved(p, status, reply),
         UNCHANGED <<contract_busy, staking_pools, total_actually_staked>>
  PROVE  StakedStep
  <1> DEFINE q == [p EXCEPT !.status = status, !.reply = reply]
  <1>1. promises = {p} /\ promises' = {q}
    BY OnlyOne, ResolveKeepsOne
  <1>2. q.op = p.op /\ q.amount = p.amount
    BY Promises DEF Promise
  <1> HIDE DEF q
  <1>3. /\ in_flight({"stake", "restake"})' = in_flight({"stake", "restake"})
        /\ in_flight({"unstake"})' = in_flight({"unstake"})
    BY <1>1, <1>2, OneCarried DEF Carries
  <1>4. staked_in_pools' = staked_in_pools
    BY DEF staked_in_pools
  <1>5. not_in_pools' = not_in_pools
    BY <1>3, <1>4 DEF not_in_pools
  <1> QED
    BY <1>5, StakedInPools DEF StakedStep, WeightsKept

LEMMA NextKeepsStaked ==
  ASSUME TypeOK, OneCallInFlight, [Next]_vars
  PROVE  StakedStep
  <1>1. CASE UNCHANGED vars
    BY <1>1, SameStaked DEF vars, pool_vars, stake_vars
  <1>2. CASE UserStep
    BY <1>2, UserMoves, SameStaked DEF BalancedStep, Balanced, pool_vars
  <1>3. CASE Environment
    <2>1. CASE \E p \in promises : pool_performs(p) \/ pool_fails(p)
      <3>1. PICK p \in promises :
              /\ \E status, reply : resolved(p, status, reply)
              /\ UNCHANGED <<contract_busy, staking_pools, stake_vars>>
        BY <2>1 DEF pool_performs, pool_fails
      <3> QED
        BY <3>1, AnswerKeepsStaked DEF stake_vars
    <2>2. CASE transfer_arrives \/ next_epoch
      BY <2>2, SameStaked DEF transfer_arrives, next_epoch, pool_vars, stake_vars
    <2> QED
      BY <1>3, <2>1, <2>2 DEF Environment
  <1> QED
    BY <1>1, <1>2, <1>3, HeartbeatKeepsStaked, CallbackKeepsStaked DEF Next

LEMMA InitStaked == Init => not_in_pools = 0 /\ NoneReportsLess /\ WeightsKept
  <1> SUFFICES ASSUME Init PROVE not_in_pools = 0 /\ NoneReportsLess /\ WeightsKept
    OBVIOUS
  <1>1. promises = {} /\ total_actually_staked = 0
    BY DEF Init
  <1>2. in_flight({"stake", "restake"}) = 0 /\ in_flight({"unstake"}) = 0
    BY <1>1, NoneCarried
  <1>3. \A i \in 1..Len(Weights) :
          /\ staked_in_pools[i] = 0
          /\ staking_pools[i].weight_basis_points = Weights[i]
    BY PoolIndexes DEF Init, NewStakingPool, staked_in_pools
  <1>4. SumFunctionOnSet(staked_in_pools, 1..Len(Weights)) = 0
    BY <1>3, PoolIndexes, SumZero
  <1> QED
    BY <1>1, <1>2, <1>3, <1>4 DEF not_in_pools, NoneReportsLess, WeightsKept

(* The pools hold no more than the totals count, whatever they report. *)
PoolsHoldNoMore == not_in_pools >= 0 /\ WeightsKept

(* Adjusted for the call in flight, the totals never count as staked less  *)
(* than the pools' records say, even where a pool reports less than before: *)
(* a stake can always be undone and the most unbalanced pool is found.      *)
THEOREM StakeIsCounted == Spec => []PoolsHoldNoMore
  <1>1. TypeOK /\ OneCallInFlight /\ PoolsHoldNoMore /\ [Next]_vars => PoolsHoldNoMore'
    BY NextKeepsStaked, StakedInPools DEF PoolsHoldNoMore, StakedStep
  <1>2. Init => PoolsHoldNoMore
    BY InitStaked DEF PoolsHoldNoMore
  <1> QED
    BY <1>1, <1>2, TypeCorrect, CallsExcludeEachOther, PTL DEF Spec

LEMMA AnswersReportNoLess ==
  ASSUME TypeOK, OneCallInFlight, NoneReportsLess, [Next]_vars,
         RewardReplies \subseteq Nat
  PROVE  NoneReportsLess'
  <1>1. CASE UNCHANGED <<promises, staking_pools>>
    BY <1>1 DEF NoneReportsLess, ReportsNoLess
  <1>2. CASE UserStep
    BY <1>1, <1>2, UserMoves DEF BalancedStep, Balanced, pool_vars
  <1>3. CASE HeartbeatCall
    <2>1. CASE distribute_staking_clearing \/ end_of_epoch_clearing
      BY <1>1, <2>1 DEF distribute_staking_clearing, end_of_epoch_clearing, pool_vars
    <2>2. CASE \E i \in DOMAIN staking_pools : \E op, n :
                 ~contract_busy /\ lock_and_call(i, Call(op, i, n))
      <3>1. PICK i \in DOMAIN staking_pools : \E op, n : promises' = {Call(op, i, n)}
        BY <2>2, LockKeepsOne
      <3>2. PICK op, n : promises' = {Call(op, i, n)}
        BY <3>1
      <3>3. Call(op, i, n).status = "sent"
        BY DEF Call
      <3> QED
        BY <3>2, <3>3 DEF NoneReportsLess, ReportsNoLess
    <2>3. CASE distribute_staking_call
      BY <2>2, <2>3 DEF distribute_staking_call, direct_stake
    <2>4. CASE distribute_unstaking
      BY <2>2, <2>4 DEF distribute_unstaking, direct_unstake
    <2>5. CASE \E i \in DOMAIN staking_pools : retrieve_funds_from_a_pool(i)
      BY <2>2, <2>5 DEF retrieve_funds_from_a_pool, free_to_call
    <2>6. CASE \E i \in AskedPools \cap DOMAIN staking_pools : distribute_rewards(i)
      BY <2>2, <2>6 DEF distribute_rewards, free_to_call
    <2> QED
      BY <1>3, <2>1, <2>3, <2>4, <2>5, <2>6 DEF HeartbeatCall, distribute_staking
  <1>4. CASE Callback
    <2>1. PICK p \in promises : promises' = promises \ {p}
      BY <1>4 DEF Callback, on_staking_pool_stake_maybe_deposit, on_staking_pool_unstake,
                  on_retrieve_from_staking_pool, on_get_sp_total_balance,
                  on_get_sp_total_balance_panics, unlock_with
    <2> QED
      BY <2>1, UnlockKeepsOne DEF NoneReportsLess
  <1>5. CASE Environment
    <2>1. ASSUME NEW p \in promises, NEW status, NEW reply, resolved(p, status, reply),
                 UNCHANGED staking_pools, UNCHANGED contract_busy,
                 p.op = "rewards" /\ status = "ok" =>
                   reply >= staking_pools[p.sp].staked + staking_pools[p.sp].unstaked
          PROVE  NoneReportsLess'
      <3> DEFINE q == [p EXCEPT !.status = status, !.reply = reply]
      <3>1. promises' = {q}
        BY <2>1, ResolveKeepsOne
      <3>2. q.op = p.op /\ q.sp = p.sp /\ q.status = status /\ q.reply = reply
        BY Promises DEF Promise
      <3> HIDE DEF q
      <3> QED
        BY <2>1, <3>1, <3>2 DEF NoneReportsLess, ReportsNoLess
    <2>2. CASE \E p \in promises : pool_performs(p)
      <3>1. PICK p \in promises : pool_performs(p)
        BY <2>2
      <3>2. UNCHANGED <<staking_pools, contract_busy>>
        BY <3>1 DEF pool_performs
      <3>3. CASE p.op = "rewards"
        <4>1. PICK r \in RewardReplies :
                resolved(p, "ok", staking_pools[p.sp].staked + staking_pools[p.sp].unstaked + r)
          BY <3>1, <3>3 DEF pool_performs
        <4>2. r \in Nat /\ staking_pools[p.sp].staked \in Nat
              /\ staking_pools[p.sp].unstaked \in Nat
          BY Promises
        <4>3. staking_pools[p.sp].staked + staking_pools[p.sp].unstaked + r
                >= staking_pools[p.sp].staked + staking_pools[p.sp].unstaked
          BY <4>2
        <4> QED
          BY <2>1, <3>2, <4>1, <4>3
      <3>4. CASE p.op # "rewards"
        <4>1. resolved(p, "ok", 0)
          BY <3>1, <3>4 DEF pool_performs
        <4> QED
          BY <2>1, <3>2, <3>4, <4>1
      <3> QED
        BY <3>3, <3>4
    <2>3. CASE \E p \in promises : pool_fails(p)
      BY <2>1, <2>3 DEF pool_fails
    <2>4. CASE transfer_arrives \/ next_epoch
      BY <1>1, <2>4 DEF transfer_arrives, next_epoch, pool_vars
    <2> QED
      BY <1>5, <2>2, <2>3, <2>4 DEF Environment
  <1> QED
    BY <1>1, <1>2, <1>3, <1>4, <1>5 DEF Next, vars, pool_vars

(***************************************************************************)
(* PoolsAddUp, when no pool reports less than its record (one that does     *)
(* leaves the totals above the records, and never below: StakeIsCounted):   *)
(* the totals are the sums over the pools, through every call, its failure  *)
(* and its undoing.                                                         *)
(***************************************************************************)
THEOREM TotalsAreInPools ==
  ASSUME RewardReplies \subseteq Nat
  PROVE  Spec => []PoolsAddUp
  <1> DEFINE Inv == not_in_pools = 0 /\ NoneReportsLess
  <1>1. TypeOK /\ OneCallInFlight /\ Inv /\ [Next]_vars => Inv'
    BY NextKeepsStaked, AnswersReportNoLess DEF StakedStep
  <1>2. Init => Inv
    BY InitStaked
  <1>3. TypeOK /\ OneCallInFlight /\ Books /\ Inv => PoolsAddUp
    <2> SUFFICES ASSUME TypeOK, OneCallInFlight, Books, Inv PROVE PoolsAddUp
      OBVIOUS
    <2>1. DOMAIN staking_pools = 1..Len(Weights)
      BY PoolIndexes
    <2>2. /\ staked_in_pools = [i \in DOMAIN staking_pools |-> staking_pools[i].staked]
          /\ unstaked_in_pools = [i \in DOMAIN staking_pools |-> staking_pools[i].unstaked]
      BY <2>1 DEF staked_in_pools, unstaked_in_pools
    <2>3. /\ SumFunction(staked_in_pools) = SumFunctionOnSet(staked_in_pools, 1..Len(Weights))
          /\ SumFunction(unstaked_in_pools)
               = SumFunctionOnSet(unstaked_in_pools, 1..Len(Weights))
      BY PoolIndexes, StakedInPools DEF SumFunction
    <2>4. total_actually_staked + in_flight({"unstake"})
            = SumFunction(staked_in_pools) + in_flight({"stake", "restake"})
      <3>1. /\ total_actually_staked \in Nat /\ in_flight({"unstake"}) \in Nat
            /\ in_flight({"stake", "restake"}) \in Nat
            /\ SumFunctionOnSet(staked_in_pools, 1..Len(Weights)) \in Nat
        BY CarriedNat, StakedInPools DEF TypeOK
      <3> QED
        BY <2>3, <3>1 DEF not_in_pools
    <2> QED
      BY <2>2, <2>3, <2>4 DEF PoolsAddUp, Books, UnstakedAddsUp
  <1> HIDE DEF Inv
  <1> QED
    BY <1>1, <1>2, <1>3, BooksKept, TypeCorrect, CallsExcludeEachOther, PTL DEF Spec

-----------------------------------------------------------------------------
(* The first of the largest, by induction on how many are compared. *)
LEMMA FirstLargest ==
  ASSUME NEW n \in Nat, NEW f, \A i \in 1..n : f[i] \in Int, DOMAIN f = 1..n,
         \E i \in 1..n : f[i] > 0
  PROVE  \E i \in 1..n : is_most_unbalanced(i, f)
  <1> DEFINE First(i, m) == \A j \in 1..m : f[j] <= f[i] /\ (j < i => f[j] < f[i])
             Good == {m \in Nat : 0 < m /\ m <= n => \E i \in 1..m : First(i, m)}
  <1>1. ASSUME NEW m \in Good PROVE m + 1 \in Good
    <2> SUFFICES ASSUME m + 1 <= n PROVE \E i \in 1..(m + 1) : First(i, m + 1)
      OBVIOUS
    <2>1. m \in Nat /\ \A j \in 1..(m + 1) : j \in 1..n /\ f[j] \in Int
      OBVIOUS
    <2>2. CASE m = 0
      <3>1. 1 \in 1..(m + 1) /\ First(1, m + 1)
        BY <2>1, <2>2
      <3> QED
        BY <3>1
    <2>3. CASE m > 0
      <3>1. PICK i \in 1..m : First(i, m)
        BY <2>1, <2>3
      <3>2. CASE f[m + 1] > f[i]
        <4>1. First(m + 1, m + 1)
          <5> SUFFICES ASSUME NEW j \in 1..(m + 1)
                       PROVE  f[j] <= f[m + 1] /\ (j < m + 1 => f[j] < f[m + 1])
            OBVIOUS
          <5>1. CASE j = m + 1
            BY <2>1, <5>1
          <5>2. CASE j \in 1..m
            <6>1. f[j] <= f[i] /\ f[j] \in Int /\ f[i] \in Int /\ f[m + 1] \in Int
              BY <2>1, <3>1, <5>2
            <6> QED
              BY <3>2, <6>1
          <5> QED
            BY <2>1, <5>1, <5>2
        <4>2. m + 1 \in 1..(m + 1)
          BY <2>1
        <4> HIDE DEF First
        <4> QED
          BY <4>1, <4>2
      <3>3. CASE f[m + 1] <= f[i]
        <4>1. First(i, m + 1)
          <5> SUFFICES ASSUME NEW j \in 1..(m + 1)
                       PROVE  f[j] <= f[i] /\ (j < i => f[j] < f[i])
            OBVIOUS
          <5>1. CASE j = m + 1
            BY <2>1, <3>1, <3>3, <5>1
          <5>2. CASE j \in 1..m
            BY <3>1, <5>2
          <5> QED
            BY <2>1, <5>1, <5>2
        <4>2. i \in 1..(m + 1)
          BY <2>1, <3>1
        <4> HIDE DEF First
        <4> QED
          BY <4>1, <4>2
      <3> QED
        BY <2>1, <3>1, <3>2, <3>3
    <2> QED
      BY <2>1, <2>2, <2>3
  <1>2. n \in Good
    <2>1. 0 \in Good /\ Good \subseteq Nat
      OBVIOUS
    <2> HIDE DEF Good
    <2> QED
      BY <1>1, <2>1, NumberInduction
  <1>3. PICK k \in 1..n : f[k] > 0
    OBVIOUS
  <1>4. PICK i \in 1..n : First(i, n)
    BY <1>2, <1>3
  <1>5. f[i] > 0
    <2>1. f[k] <= f[i] /\ f[i] \in Int /\ f[k] \in Int
      BY <1>4
    <2> QED
      BY <1>3, <2>1
  <1> QED
    BY <1>4, <1>5 DEF is_most_unbalanced

(* A pool whose share, truncated, it already holds: less than one unit short. *)
LEMMA ShareHeld ==
  ASSUME NEW weight \in Nat, NEW total \in Nat, NEW held \in Nat,
         apply_pct(weight, total) <= held
  PROVE  total * weight <= BasisPoints * held + (BasisPoints - 1)
  <1> DEFINE n == weight * total
             q == n \div BasisPoints
  <1>1. n \in Nat /\ total * weight = n
    BY ProductNat
  <1>2. BasisPoints \in Nat \ {0}
    BY PoolMathAssumption
  <1>3. q \in Nat /\ q <= held
    BY <1>1, <1>2, DivisionBounds DEF apply_pct
  <1> HIDE DEF n
  <1>4. n < BasisPoints * q + BasisPoints
    BY <1>1, <1>2, DivisionBounds
  <1> HIDE DEF q
  <1>5. q * BasisPoints <= held * BasisPoints
    BY <1>2, <1>3, ProductMonotone
  <1>6. BasisPoints * q = q * BasisPoints /\ BasisPoints * held = held * BasisPoints
        /\ q * BasisPoints \in Int /\ held * BasisPoints \in Int
    BY <1>2, <1>3
  <1> QED
    BY <1>1, <1>2, <1>4, <1>5, <1>6

(***************************************************************************)
(* StakingFindsAPool, for the weights set_staking_pools accepts (together   *)
(* 100%) and a minimum of at least one unit of NEAR per pool: were no pool  *)
(* short of its share, each would be less than one unit below it, and all   *)
(* of them together less than the least there is to stake.                  *)
(***************************************************************************)
THEOREM SomePoolRequiresStake ==
  ASSUME SumFunction(Weights) = BasisPoints, Len(Weights) <= MinStakeAmount
  PROVE  Spec => []StakingFindsAPool
  <1>1. ASSUME TypeOK, OneCallInFlight, PoolsHoldNoMore
        PROVE  StakingFindsAPool
    <2> SUFFICES ASSUME ~contract_busy,
                        \A i \in DOMAIN staking_pools : ~staking_pools[i].busy_lock,
                        total_for_staking > total_actually_staked,
                        total_amount_to_stake >= MinStakeAmount
                 PROVE  \E i \in DOMAIN staking_pools : is_most_unbalanced(i, stake_imbalance)
      BY DEF StakingFindsAPool
    <2> DEFINE n == Len(Weights)
               S == 1..n
               held == SumFunctionOnSet(staked_in_pools, S)
    <2>1. /\ n \in Nat /\ IsFiniteSet(S) /\ DOMAIN staking_pools = S
          /\ total_for_staking \in Nat /\ total_actually_staked \in Nat
          /\ \A i \in S : Weights[i] \in Nat /\ staked_in_pools[i] \in Nat
          /\ BasisPoints \in Nat \ {0}
      <3>1. \A i \in S : Weights[i] \in Nat
        <4>1. Weights \in Seq(Nat)
          BY ParametersAssumption
        <4>2. \A i \in 1..Len(Weights) : Weights[i] \in Nat
          BY <4>1
        <4> QED BY <4>2
      <3> QED
        BY <1>1, <3>1, PoolIndexes, StakedInPools, PoolMathAssumption DEF TypeOK
    <2>2. held \in Nat /\ held <= total_actually_staked
      <3>1. promises = {}
        BY <1>1, NoneInFlight
      <3>2. in_flight({"stake", "restake"}) = 0 /\ in_flight({"unstake"}) = 0
        BY <3>1, NoneCarried
      <3>3. held \in Nat
        BY <1>1, StakedInPools
      <3> QED
        BY <1>1, <2>1, <3>2, <3>3 DEF PoolsHoldNoMore, not_in_pools
    <2>3. total_for_staking - total_actually_staked >= n
      <3>1. /\ total_for_staking - total_actually_staked \in Nat
            /\ epoch_stake_orders \in Nat /\ MinStakeAmount \in Nat
        BY <1>1, <2>1, Constants DEF TypeOK
      <3>2. total_amount_to_stake <= total_for_staking - total_actually_staked
            /\ total_amount_to_stake \in Nat
        BY <3>1, MinimumBounds DEF total_amount_to_stake
      <3> QED
        BY <2>1, <3>1, <3>2
    <2>4. DOMAIN stake_imbalance = S /\ \A i \in S : stake_imbalance[i] \in Nat
      BY <1>1, <2>1, RequiredNat DEF stake_imbalance
    <2>5. \E i \in S : stake_imbalance[i] > 0
      <3> SUFFICES ASSUME \A i \in S : stake_imbalance[i] = 0 PROVE FALSE
        BY <2>4
      <3>1. ASSUME NEW i \in S
            PROVE  total_for_staking * Weights[i]
                     <= BasisPoints * staked_in_pools[i] + (BasisPoints - 1)
        <4> DEFINE sp == staking_pools[i]
        <4>1. /\ sp.weight_basis_points = Weights[i] /\ staked_in_pools[i] = sp.staked
              /\ sp.staked \in Nat /\ ~sp.busy_lock /\ required_stake(sp) = 0
          BY <1>1, <2>1, PoolRecords
          DEF PoolsHoldNoMore, WeightsKept, staked_in_pools, stake_imbalance
        <4>2. apply_pct(Weights[i], total_for_staking) <= sp.staked
          <5> DEFINE share == apply_pct(Weights[i], total_for_staking)
          <5>1. share \in Nat
            BY <2>1, ApplyPctNat
          <5>2. CASE Weights[i] > 0
            <6>1. saturating_sub(share, sp.staked) = 0
              BY <4>1, <5>2 DEF required_stake, should_have
            <6>2. share <= sp.staked
              <7> HIDE DEF share
              <7> QED
                BY <4>1, <5>1, <6>1 DEF saturating_sub
            <6> QED
              BY <6>2
          <5>3. CASE Weights[i] = 0
            <6>1. 0 * total_for_staking = 0 /\ 0 \div BasisPoints = 0
              BY <2>1
            <6>2. share = 0
              BY <5>3, <6>1 DEF apply_pct
            <6> QED
              BY <4>1, <6>2
          <5>4. Weights[i] \in Nat
            BY <2>1
          <5>5. Weights[i] > 0 \/ Weights[i] = 0
            BY <5>4
          <5> QED
            BY <5>2, <5>3, <5>5
        <4> QED
          BY <2>1, <4>1, <4>2, ShareHeld
      <3>2. total_for_staking * SumFunctionOnSet(Weights, S)
              <= BasisPoints * held + (BasisPoints - 1) * Cardinality(S)
        <4> DEFINE F == total_for_staking
                   d == BasisPoints - 1
                   f == staked_in_pools
        <4>1. /\ F \in Int /\ BasisPoints \in Int /\ d \in Int /\ IsFiniteSet(S)
              /\ \A i \in S : /\ f[i] \in Int /\ Weights[i] \in Int
                              /\ F * Weights[i] <= BasisPoints * f[i] + d
          BY <2>1, <3>1
        <4>2. F * SumFunctionOnSet(Weights, S)
                <= BasisPoints * SumFunctionOnSet(f, S) + d * Cardinality(S)
          <5> HIDE DEF S, F, d, f
          <5> QED
            BY <4>1, SumBound
        <4> QED
          BY <4>2
      <3>3. Cardinality(S) = n
        <4>1. n \in Nat /\ 1 \in Int /\ n \in Int
          BY <2>1
        <4> HIDE DEF n
        <4>2. Cardinality(1..n) = IF 1 > n THEN 0 ELSE n - 1 + 1
          BY <4>1, FS_Interval
        <4> QED
          BY <4>1, <4>2
      <3>4. SumFunctionOnSet(Weights, S) = BasisPoints
        BY PoolIndexes DEF SumFunction
      <3> HIDE DEF held, S, n
      <3>5. total_for_staking * BasisPoints <= BasisPoints * held + (BasisPoints - 1) * n
        BY <3>2, <3>3, <3>4
      <3>6. total_for_staking >= held + n
        BY <2>1, <2>2, <2>3
      <3>7. (held + n) * BasisPoints <= total_for_staking * BasisPoints
        BY <2>1, <2>2, <3>6, ProductMonotone
      <3>8. /\ (held + n) * BasisPoints = BasisPoints * held + BasisPoints * n
            /\ (BasisPoints - 1) * n = BasisPoints * n - n
            /\ BasisPoints * held \in Nat /\ BasisPoints * n \in Nat
            /\ total_for_staking * BasisPoints \in Nat
        BY <2>1, <2>2, ProductNat
      <3>9. n = 0
        BY <2>1, <3>5, <3>7, <3>8
      <3>10. total_for_staking <= held
        <4>1. total_for_staking * BasisPoints <= held * BasisPoints
          BY <2>1, <2>2, <3>5, <3>9
        <4> QED
          BY <2>1, <2>2, <4>1
      <3> QED
        BY <2>1, <2>2, <3>10
    <2> HIDE DEF n, S
    <2>6. \E i \in S : is_most_unbalanced(i, stake_imbalance)
      <3>1. \A i \in 1..n : stake_imbalance[i] \in Int
        BY <2>4 DEF S
      <3> QED
        BY <2>1, <2>4, <2>5, <3>1, FirstLargest DEF S
    <2> QED
      BY <2>1, <2>6
  <1> QED
    BY <1>1, StakeIsCounted, TypeCorrect, CallsExcludeEachOther, PTL

=============================================================================
