----------------------- MODULE MetaPoolCustodyProofs -----------------------
(***************************************************************************)
(* The price of stNEAR holds, so does what a share of the liquidity pool is *)
(* worth, and the meta-pool implements the custody it promises. All three   *)
(* rest on the price never being below one NEAR: what is paid for shares is *)
(* then never less than their number, shares redeemed are never worth       *)
(* nothing, and a truncation is of less than one share.                     *)
(***************************************************************************)
EXTENDS MetaPoolBookProofs

(* Nobody's stNEAR is worth less than one NEAR (lib.rs:143). *)
PriceAtLeastOne == total_stake_shares <= total_for_staking

(* How a step that sells n NEAR of stNEAR, or unstakes, may move the price. *)
PriceMoves(truncated) ==
  total_stake_shares > 0 =>
    total_for_staking * total_stake_shares'
      <= total_for_staking' * total_stake_shares
           + (IF truncated THEN total_for_staking ELSE 0)

(* What users claim, and from when. *)
ClaimsKept ==
  /\ \A x \in Users :
       /\ accounts'[x].unstaked = accounts[x].unstaked
       /\ accounts'[x].unstaked_requested_unlock_epoch
            = accounts[x].unstaked_requested_unlock_epoch
  /\ UNCHANGED total_unstake_claims

(***************************************************************************)
(* A clearing sale burns no more shares than the NEAR it moves, lowers the  *)
(* price by one share's truncation at most, and with something to sell and  *)
(* something ordered it does move NEAR.                                     *)
(***************************************************************************)
LEMMA SaleKeepsPrice ==
  ASSUME TypeOK, NEW F \in Nat, NEW T \in Nat, T <= F, NEW orders \in Nat,
         NEW held \in Nat, orders > 0,
         clearing_sale(F, T, orders, held).st_near <= T
  PROVE  LET sale == clearing_sale(F, T, orders, held)
         IN /\ sale.near \in Nat /\ sale.st_near \in Nat /\ sale.near <= F
            /\ T - sale.st_near <= F - sale.near
            /\ F * (T - sale.st_near) <= (F - sale.near) * T + F
            /\ clearing_applies(F, held) => sale.near > 0
            /\ sale.near = 0 => sale.st_near = 0
  <1> DEFINE room == F - total_actually_staked
             to_stake == minimum(orders, room)
             valued == amount_from_shares(held, F, T)
             bought == shares_from_amount(to_stake, F, T)
             sale == clearing_sale(F, T, orders, held)
  <1>1. CASE ~clearing_applies(F, held)
    <2>1. sale.st_near = 0 /\ sale.near = 0
      BY <1>1 DEF clearing_sale
    <2>2. T - 0 <= F - 0 /\ F * (T - 0) <= (F - 0) * T + F
      BY ProductNat, ProductDistributes
    <2> HIDE DEF sale
    <2>3. /\ sale.near \in Nat /\ sale.st_near \in Nat /\ sale.near <= F
          /\ T - sale.st_near <= F - sale.near
          /\ F * (T - sale.st_near) <= (F - sale.near) * T + F
      BY <2>1, <2>2
    <2> QED
      BY <1>1, <2>1, <2>3 DEF sale
  <1>2. CASE clearing_applies(F, held)
    <2>1. room \in Nat /\ room > 0 /\ room <= F /\ held > 0
      BY <1>2 DEF clearing_applies, TypeOK
    <2>2. to_stake \in Nat /\ to_stake > 0 /\ to_stake <= F
      <3> HIDE DEF room
      <3> QED
        BY <2>1 DEF minimum
    <2>3. valued \in Nat
      BY AmountNat
    <2> HIDE DEF to_stake
    <2>4. CASE to_stake >= valued
      <3>1. sale = [st_near |-> held, near |-> valued]
        BY <1>2, <2>4 DEF clearing_sale, to_stake
      <3>2. held <= T
        BY <3>1
      <3>3. /\ held <= valued /\ valued <= F /\ T - held <= F - valued
            /\ F * (T - held) <= (F - valued) * T
        BY <3>2, RedeemKeepsPrice
      <3> HIDE DEF valued
      <3>4. F * (T - held) <= (F - valued) * T + F
        <4>1. F * (T - held) \in Int /\ (F - valued) * T \in Int
          BY <2>3, <3>2, ProductDistributes
        <4> QED
          BY <3>3, <4>1
      <3>5. sale.near = valued /\ sale.st_near = held
        BY <3>1
      <3> HIDE DEF sale
      <3>6. /\ sale.near \in Nat /\ sale.st_near \in Nat /\ sale.near <= F
            /\ T - sale.st_near <= F - sale.near
            /\ F * (T - sale.st_near) <= (F - sale.near) * T + F
            /\ sale.near > 0
        BY <2>1, <2>3, <3>3, <3>4, <3>5
      <3> QED
        BY <3>6 DEF sale
    <2>5. CASE ~(to_stake >= valued)
      <3>1. sale = [st_near |-> bought, near |-> to_stake]
        BY <1>2, <2>5 DEF clearing_sale, to_stake
      <3>2. T > 0
        <4>1. valued # 0
          BY <2>2, <2>3, <2>5
        <4> QED
          BY <4>1 DEF amount_from_shares
      <3>3. /\ bought \in Nat /\ bought <= to_stake /\ bought <= T
            /\ F * (T - bought) <= (F - to_stake) * T + F
            /\ T - bought <= F - to_stake
        BY <2>2, <3>2, BurnKeepsPrice
      <3>4. sale.near = to_stake /\ sale.st_near = bought
        BY <3>1
      <3> HIDE DEF sale, bought
      <3>5. /\ sale.near \in Nat /\ sale.st_near \in Nat /\ sale.near <= F
            /\ T - sale.st_near <= F - sale.near
            /\ F * (T - sale.st_near) <= (F - sale.near) * T + F
            /\ sale.near > 0
        BY <2>2, <3>3, <3>4
      <3> QED
        BY <3>5 DEF sale
    <2> QED
      BY <2>4, <2>5
  <1> QED
    BY <1>1, <1>2

-----------------------------------------------------------------------------
(* staking.rs:52. A deposit buys stNEAR, and the sale that follows it ends  *)
(* with a price no more than one share's truncation below the first.        *)
LEMMA StakeTerms ==
  ASSUME TypeOK, OnlyPoolHasAvailable, PriceAtLeastOne,
         NEW u \in Users, NEW d \in Deposits, deposit_and_stake(u, d)
  PROVE  \E n \in Nat :
           /\ d \in Nat /\ d > 0
           /\ total_available' = total_available + n
           /\ total_for_staking' = (total_for_staking + d) - n
           /\ accounts'[NSLP].available = accounts[NSLP].available + n
           /\ PriceAtLeastOne' /\ PriceMoves(n > 0)
           /\ ClaimsKept /\ UNCHANGED epoch_height
  <1> DEFINE acc == [accounts[u] EXCEPT !.available = @ + d]
             num_shares == stake_shares_from_amount(d)
             F1 == total_for_staking + d
             T1 == total_stake_shares + num_shares
             orders == epoch_stake_orders + d
             held == accounts[NSLP].stake_shares
             sale == clearing_sale(F1, T1, orders, held)
             n == sale.near
             staked == [acc EXCEPT !.available = @ - d, !.stake_shares = @ + num_shares]
  <1>1. /\ d \in Nat /\ total_for_staking \in Nat /\ total_stake_shares \in Nat
        /\ total_available \in Nat /\ epoch_stake_orders \in Nat
        /\ total_stake_shares <= total_for_staking
    BY Inputs DEF TypeOK, PriceAtLeastOne
  <1>2. acc \in Account /\ acc.available = d /\ held \in Nat
    BY <1>1, UserAccount DEF Account
  <1>3. take_from_available(u, d, acc.available) = d
    BY <1>1, <1>2, TakesAll
  <1>4. /\ num_shares > 0 /\ sale_covered(sale, T1)
        /\ accounts' = [accounts EXCEPT ![u] = staked, ![NSLP] = after_sale(@, sale)]
        /\ total_available' = (total_available + d - d) + n
        /\ total_for_staking' = F1 - n
        /\ total_stake_shares' = T1 - sale.st_near
        /\ UNCHANGED <<total_unstake_claims, epoch_height>>
    BY <1>3 DEF deposit_and_stake, internal_stake, claim_vars
  <1>5. /\ num_shares \in Nat /\ num_shares <= d
        /\ total_stake_shares > 0 =>
             total_for_staking * T1 <= F1 * total_stake_shares
        /\ d = 0 => num_shares = 0
    BY <1>1, BuyKeepsPrice DEF stake_shares_from_amount
  <1>6. d > 0
    BY <1>1, <1>4, <1>5
  <1> HIDE DEF num_shares
  <1>7. /\ F1 \in Nat \ {0} /\ T1 \in Nat /\ T1 <= F1 /\ orders \in Nat /\ orders > 0
    BY <1>1, <1>5, <1>6
  <1>8. ClaimsKept
    <2>1. \A x \in Users : x \in Accounts /\ x # NSLP
      BY AccountNames
    <2>2. \A x \in Users \ {u} : accounts'[x] = accounts[x]
      BY <1>4, <2>1 DEF TypeOK
    <2>3. accounts'[u].unstaked = accounts[u].unstaked
          /\ accounts'[u].unstaked_requested_unlock_epoch
               = accounts[u].unstaked_requested_unlock_epoch
      BY <1>4, <2>1, UserAccount DEF TypeOK, Account
    <2> QED
      BY <1>4, <2>2, <2>3 DEF ClaimsKept
  <1> HIDE DEF F1, T1, orders, held
  <1>9. /\ n \in Nat /\ sale.st_near \in Nat /\ n <= F1
        /\ T1 - sale.st_near <= F1 - n
        /\ F1 * (T1 - sale.st_near) <= (F1 - n) * T1 + F1
        /\ n = 0 => sale.st_near = 0
    BY <1>2, <1>4, <1>7, SaleKeepsPrice DEF sale_covered
  <1>10. accounts'[NSLP].available = accounts[NSLP].available + n
    BY <1>4, UserAccount, AccountNames DEF TypeOK, Account, after_sale
  <1>11. sale.st_near <= T1
    BY <1>4 DEF sale_covered
  <1> HIDE DEF sale
  <1>12. PriceAtLeastOne'
    BY <1>4, <1>9 DEF PriceAtLeastOne
  <1>13. PriceMoves(n > 0)
    <2> SUFFICES ASSUME total_stake_shares > 0
                 PROVE  total_for_staking * total_stake_shares'
                          <= total_for_staking' * total_stake_shares
                               + (IF n > 0 THEN total_for_staking ELSE 0)
      BY DEF PriceMoves
    <2>1. total_for_staking * T1 <= F1 * total_stake_shares
      BY <1>5
    <2>2. CASE n > 0
      <3>1. total_stake_shares' \in Nat /\ total_for_staking' \in Nat
        BY <1>4, <1>7, <1>9, <1>11
      <3>2. F1 * total_stake_shares' <= total_for_staking' * T1 + F1
        BY <1>4, <1>9
      <3> QED
        BY <1>1, <1>7, <2>1, <2>2, <3>1, <3>2, PriceOfTwoSteps
    <2>3. CASE n = 0
      <3>1. total_stake_shares' = T1 /\ total_for_staking' = F1
        BY <1>4, <1>7, <1>9, <2>3
      <3>2. F1 * total_stake_shares \in Int
        BY <1>1, <1>7, ProductDistributes
      <3> QED
        BY <2>1, <2>3, <3>1, <3>2
    <2> QED
      BY <1>9, <2>2, <2>3
  <1>14. total_available' = total_available + n
    BY <1>1, <1>4, <1>9
  <1>15. total_for_staking' = (total_for_staking + d) - n
    BY <1>4 DEF F1
  <1> QED
    BY <1>1, <1>4, <1>6, <1>8, <1>9, <1>10, <1>12, <1>13, <1>14, <1>15

(* distribute.rs:88. A sale before the heartbeat stakes does move NEAR. *)
LEMMA ClearingTerms ==
  ASSUME TypeOK, PriceAtLeastOne, distribute_staking_clearing
  PROVE  \E n \in Nat :
           /\ n > 0
           /\ total_available' = total_available + n
           /\ total_for_staking' = total_for_staking - n
           /\ total_stake_shares' <= total_stake_shares
           /\ accounts'[NSLP].available = accounts[NSLP].available + n
           /\ PriceAtLeastOne' /\ PriceMoves(TRUE)
           /\ ClaimsKept /\ UNCHANGED epoch_height
  <1> DEFINE F == total_for_staking
             T == total_stake_shares
             held == accounts[NSLP].stake_shares
             sale == clearing_sale(F, T, epoch_stake_orders, held)
             n == sale.near
  <1>1. /\ F \in Nat /\ T \in Nat /\ T <= F /\ epoch_stake_orders \in Nat
        /\ accounts[NSLP] \in Account /\ held \in Nat
        /\ accounts \in [Accounts -> Account] /\ NSLP \in Accounts
    BY AccountNames DEF TypeOK, PriceAtLeastOne, Account
  <1>2. /\ epoch_stake_orders > 0 /\ clearing_applies(F, held) /\ sale_covered(sale, T)
        /\ accounts' = [accounts EXCEPT ![NSLP] = after_sale(@, sale)]
        /\ total_available' = total_available + n
        /\ total_for_staking' = F - n
        /\ total_stake_shares' = T - sale.st_near
        /\ UNCHANGED <<total_unstake_claims, epoch_height>>
    BY DEF distribute_staking_clearing, claim_vars
  <1> HIDE DEF held
  <1>3. /\ n \in Nat /\ sale.st_near \in Nat /\ n > 0
        /\ T - sale.st_near <= F - n
        /\ F * (T - sale.st_near) <= (F - n) * T + F
    BY <1>1, <1>2, SaleKeepsPrice DEF sale_covered
  <1>4. accounts'[NSLP].available = accounts[NSLP].available + n
    BY <1>1, <1>2 DEF Account, after_sale
  <1>5. ClaimsKept
    <2>1. \A x \in Users : x \in Accounts /\ x # NSLP
      BY AccountNames
    <2> QED
      BY <1>1, <1>2, <2>1 DEF ClaimsKept
  <1> HIDE DEF sale
  <1>6. PriceAtLeastOne' /\ PriceMoves(TRUE)
    BY <1>1, <1>2, <1>3 DEF PriceAtLeastOne, PriceMoves
  <1>7. total_stake_shares' <= total_stake_shares
    BY <1>1, <1>2, <1>3
  <1> QED
    BY <1>2, <1>3, <1>4, <1>5, <1>6, <1>7

(* staking.rs:130. What is unstaked is worth something, and waits its time. *)
LEMMA UnstakeTerms ==
  ASSUME TypeOK, PriceAtLeastOne, NEW u \in Users, NEW requested \in Nat,
         unstake(u, requested)
  PROVE  \E a \in Nat :
           /\ a > 0
           /\ UNCHANGED <<total_available, epoch_height>>
           /\ total_for_staking' = total_for_staking - a
           /\ total_stake_shares' < total_stake_shares
           /\ total_unstake_claims' = total_unstake_claims + a
           /\ accounts'[u].unstaked = accounts[u].unstaked + a
           /\ accounts'[u].unstaked_requested_unlock_epoch \in Nat
           /\ accounts'[u].unstaked_requested_unlock_epoch >= epoch_height + NumEpochsToUnlock
           /\ \A x \in Accounts \ {u} : accounts'[x] = accounts[x]
           /\ PriceAtLeastOne' /\ PriceMoves(TRUE)
  <1> DEFINE acc == accounts[u]
             F == total_for_staking
             T == total_stake_shares
             valued == amount_from_stake_shares(acc.stake_shares)
             all == is_close(requested, valued)
             a == IF all THEN valued ELSE requested
             to_burn == IF all THEN acc.stake_shares ELSE stake_shares_from_amount(requested)
             delay == internal_compute_current_unstaking_delay(a)
  <1>1. /\ F \in Nat /\ T \in Nat /\ T <= F /\ u \in Accounts
        /\ epoch_height \in Nat /\ NumEpochsToUnlock \in Nat
        /\ accounts \in [Accounts -> Account] /\ acc \in Account /\ acc.stake_shares \in Nat
    BY AccountNames, Constants DEF TypeOK, PriceAtLeastOne, Account
  <1>2. /\ to_burn > 0 /\ to_burn <= acc.stake_shares
        /\ a <= F /\ to_burn <= T
        /\ accounts' = [accounts EXCEPT ![u] =
             [acc EXCEPT !.stake_shares = @ - to_burn, !.unstaked = @ + a,
                         !.unstaked_requested_unlock_epoch = epoch_height + delay]]
        /\ total_unstake_claims' = total_unstake_claims + a
        /\ total_stake_shares' = T - to_burn
        /\ total_for_staking' = F - a
        /\ UNCHANGED <<total_available, epoch_height>>
    BY DEF unstake, internal_unstake
  <1>3. /\ a \in Nat /\ a > 0 /\ to_burn \in Nat
        /\ T - to_burn <= F - a
        /\ F * (T - to_burn) <= (F - a) * T + F
    <2>1. CASE all
      <3>1. a = valued /\ to_burn = acc.stake_shares
        BY <2>1
      <3>2. valued = amount_from_shares(acc.stake_shares, F, T)
        BY DEF amount_from_stake_shares
      <3> HIDE DEF a, to_burn, valued, all
      <3>3. /\ valued \in Nat /\ acc.stake_shares <= valued
            /\ T - acc.stake_shares <= F - valued
            /\ F * (T - acc.stake_shares) <= (F - valued) * T
        BY <1>1, <1>2, <3>1, <3>2, RedeemKeepsPrice
      <3>4. F * (T - acc.stake_shares) \in Int /\ (F - valued) * T \in Int
        BY <1>1, <3>3, ProductDistributes
      <3> QED
        BY <1>1, <1>2, <3>1, <3>3, <3>4
    <2>2. CASE ~all
      <3>1. a = requested /\ to_burn = shares_from_amount(requested, F, T)
        BY <2>2 DEF stake_shares_from_amount
      <3> HIDE DEF a, to_burn, all
      <3>2. T > 0
        BY <1>1, <1>2, <3>1, SharesNat
      <3>3. /\ to_burn \in Nat /\ to_burn <= requested
            /\ F * (T - to_burn) <= (F - requested) * T + F
            /\ T - to_burn <= F - requested
        BY <1>1, <1>2, <3>1, <3>2, BurnKeepsPrice
      <3> QED
        BY <1>2, <3>1, <3>3
    <2> QED
      BY <2>1, <2>2
  <1>4. delay \in Nat /\ delay >= NumEpochsToUnlock
    <2> HIDE DEF a
    <2>1. delay \in {NumEpochsToUnlock, 2 * NumEpochsToUnlock}
      BY DEF internal_compute_current_unstaking_delay
    <2> HIDE DEF delay
    <2> QED
      BY <1>1, <2>1
  <1> HIDE DEF a, to_burn, delay
  <1>5. /\ accounts'[u].unstaked = acc.unstaked + a
        /\ accounts'[u].unstaked_requested_unlock_epoch = epoch_height + delay
        /\ \A x \in Accounts \ {u} : accounts'[x] = accounts[x]
    BY <1>1, <1>2 DEF Account
  <1>6. PriceAtLeastOne' /\ PriceMoves(TRUE)
    BY <1>1, <1>2, <1>3 DEF PriceAtLeastOne, PriceMoves
  <1>7. /\ accounts'[u].unstaked_requested_unlock_epoch \in Nat
        /\ accounts'[u].unstaked_requested_unlock_epoch >= epoch_height + NumEpochsToUnlock
    BY <1>1, <1>4, <1>5
  <1>8. total_stake_shares' < total_stake_shares
    BY <1>1, <1>2, <1>3
  <1> QED
    BY <1>2, <1>3, <1>5, <1>6, <1>7, <1>8

(* distribute.rs:393. Rewards raise the price by more than their fees take. *)
LEMMA RewardTerms ==
  ASSUME TypeOK, PriceAtLeastOne, NEW p \in promises, on_get_sp_total_balance(p)
  PROVE  \E r \in Nat :
           /\ total_for_staking' = total_for_staking + r
           /\ total_stake_shares' >= total_stake_shares
           /\ r = 0 => total_stake_shares' = total_stake_shares
           /\ UNCHANGED <<total_available, epoch_height>>
           /\ accounts'[NSLP] = accounts[NSLP]
           /\ PriceAtLeastOne' /\ PriceMoves(FALSE)
           /\ ClaimsKept
  <1> DEFINE sp == staking_pools[p.sp]
             F == total_for_staking
             T == total_stake_shares
             r == saturating_sub(p.reply, sp.staked + sp.unstaked)
             f == apply_pct(OperatorRewardsFee, r)
             g == apply_pct(DevelopersRewardsFee, r)
             H == F + r
             s == shares_from_amount(f, H, T)
             t == shares_from_amount(g, H, T)
  <1>1. F \in Nat /\ T \in Nat /\ T <= F
    BY DEF TypeOK, PriceAtLeastOne
  <1>2. r \in Nat
    <2>1. p.reply \in Nat /\ sp.staked + sp.unstaked \in Nat
      BY Promises
    <2> QED
      BY <2>1, SaturatingSubNat
  <1>3. /\ total_for_staking' = F + r
        /\ total_stake_shares' = T + s + t
        /\ accounts' = [accounts EXCEPT ![Operator].stake_shares = @ + s,
                                        ![Developers].stake_shares = @ + t]
        /\ UNCHANGED <<total_available, total_unstake_claims, epoch_height>>
    BY DEF on_get_sp_total_balance, fee_shares, claim_vars
  <1> HIDE DEF r
  <1>4. f \in Nat /\ g \in Nat /\ f + g <= r
    BY <1>2, ParametersAssumption, RewardFeesAssumption, ApplyPctNat, FeesBound
  <1> HIDE DEF f, g
  <1>5. /\ s \in Nat /\ t \in Nat
        /\ T + s + t <= F + r
        /\ T > 0 => F * (T + s + t) <= (F + r) * T
        /\ r = 0 => s = 0 /\ t = 0
    <2>1. H \in Nat /\ F <= H /\ T <= H
      BY <1>1, <1>2
    <2>2. /\ s \in Nat /\ s <= f /\ t \in Nat /\ t <= g
          /\ T > 0 => F * s <= f * T /\ F * t <= g * T
      <3> HIDE DEF F, T, H
      <3> QED
        BY <1>1, <1>4, <2>1, FeeKeepsPrice
    <2> HIDE DEF F, T, H, s, t
    <2>3. ASSUME T > 0 PROVE F * (T + s + t) <= (F + r) * T
      <3>1. (f + g) * T <= r * T
        BY <1>1, <1>2, <1>4, ProductMonotone
      <3>2. /\ (f + g) * T = f * T + g * T /\ (F + r) * T = F * T + r * T
            /\ F * (T + s + t) = F * T + F * s + F * t
            /\ F * T \in Int /\ F * s \in Int /\ F * t \in Int
            /\ f * T \in Int /\ g * T \in Int /\ r * T \in Int
        BY <1>1, <1>2, <1>4, <2>2, ProductDistributes
      <3> QED
        BY <2>2, <2>3, <3>1, <3>2
    <2>4. T + s + t <= F + r /\ (r = 0 => s = 0 /\ t = 0)
      BY <1>1, <1>2, <1>4, <2>2
    <2> QED
      BY <2>2, <2>3, <2>4
  <1> HIDE DEF s, t
  <1>6. ClaimsKept /\ accounts'[NSLP] = accounts[NSLP]
    <2>1. \A x \in Accounts : accounts[x] \in Account
      BY DEF TypeOK
    <2>2. \A x \in Users : x \in Accounts
      BY AccountNames
    <2>3. accounts'[NSLP] = accounts[NSLP]
      BY <1>3, AccountNames, AccountsAssumption DEF TypeOK
    <2>4. \A x \in Users : accounts'[x] = accounts[x]
      BY <1>3, <2>2, AccountsAssumption DEF TypeOK
    <2> QED
      BY <1>3, <2>3, <2>4 DEF ClaimsKept
  <1>7. PriceAtLeastOne'
    BY <1>3, <1>5 DEF PriceAtLeastOne
  <1>8. PriceMoves(FALSE)
    <2>1. (F + r) * T \in Int
      BY <1>1, <1>2, ProductDistributes
    <2> QED
      BY <1>3, <1>5, <2>1 DEF PriceMoves
  <1>9. total_stake_shares' >= T /\ (r = 0 => total_stake_shares' = T)
    BY <1>1, <1>3, <1>5
  <1> QED
    BY <1>2, <1>3, <1>6, <1>7, <1>8, <1>9

(* A step that moves neither what backs stNEAR nor its number. *)
LEMMA SamePrice ==
  ASSUME TypeOK, PriceAtLeastOne, NEW truncated \in BOOLEAN,
         UNCHANGED <<total_for_staking, total_stake_shares>>
  PROVE  PriceAtLeastOne' /\ PriceMoves(truncated)
  <1>1. total_for_staking \in Nat /\ total_stake_shares \in Nat
    BY DEF TypeOK
  <1>2. total_for_staking * total_stake_shares \in Nat
    BY <1>1, ProductNat
  <1> QED
    BY <1>1, <1>2 DEF PriceAtLeastOne, PriceMoves

LEMMA SellPrice ==
  ASSUME NEW u, NEW s, liquid_unstake(u, s)
  PROVE  UNCHANGED <<total_for_staking, total_stake_shares>>
  <1>1. UNCHANGED <<total_stake_shares, order_vars, stake_vars, claim_vars, pool_vars,
                    incoming, accumulated_staked_rewards, epoch_height>>
    BY DEF liquid_unstake
  <1> QED
    BY <1>1 DEF stake_vars

LEMMA PriceKeptByPayments ==
  ASSUME NEW u \in Users,
         \/ \E a \in Nat : withdraw(u, a)
         \/ \E s \in SellAmounts : liquid_unstake(u, s)
         \/ \E d \in LiquidityDeposits : nslp_add_liquidity(u, d)
         \/ \E a \in RemoveAmounts : nslp_remove_liquidity(u, a)
  PROVE  UNCHANGED <<total_for_staking, total_stake_shares>>
  <1>1. CASE \E a \in Nat : withdraw(u, a)
    BY <1>1 DEF withdraw, stake_vars
  <1>2. CASE \E s \in SellAmounts : liquid_unstake(u, s)
    BY <1>2, SellPrice
  <1>3. CASE \E d \in LiquidityDeposits : nslp_add_liquidity(u, d)
    BY <1>3 DEF nslp_add_liquidity, stake_vars
  <1>4. CASE \E a \in RemoveAmounts : nslp_remove_liquidity(u, a)
    BY <1>4 DEF nslp_remove_liquidity, stake_vars
  <1> QED
    BY <1>1, <1>2, <1>3, <1>4

(* Everything else the heartbeat does leaves what is owed to anyone alone. *)
owed_vars == <<accounts, total_available, total_for_staking, total_stake_shares,
               total_unstake_claims>>

LEMMA HeartbeatOwes ==
  ASSUME HeartbeatCall, ~distribute_staking_clearing
  PROVE  UNCHANGED <<owed_vars, epoch_height>>
  BY DEF HeartbeatCall, distribute_staking, distribute_staking_call, distribute_unstaking,
         end_of_epoch_clearing, retrieve_funds_from_a_pool, distribute_rewards,
         user_vars, claim_vars, stake_vars, owed_vars

LEMMA CallbackOwes ==
  ASSUME NEW p \in promises,
         \/ on_staking_pool_stake_maybe_deposit(p)
         \/ on_staking_pool_unstake(p)
         \/ on_retrieve_from_staking_pool(p)
         \/ on_get_sp_total_balance_panics(p)
  PROVE  UNCHANGED <<owed_vars, epoch_height>>
  <1>1. CASE on_staking_pool_stake_maybe_deposit(p)
    BY <1>1 DEF on_staking_pool_stake_maybe_deposit, user_vars, claim_vars, owed_vars
  <1>2. CASE on_staking_pool_unstake(p)
    BY <1>2 DEF on_staking_pool_unstake, user_vars, owed_vars
  <1>3. CASE on_retrieve_from_staking_pool(p)
    BY <1>3 DEF on_retrieve_from_staking_pool, user_vars, stake_vars, owed_vars
  <1>4. CASE on_get_sp_total_balance_panics(p)
    BY <1>4 DEF on_get_sp_total_balance_panics, user_vars, stake_vars, claim_vars, owed_vars
  <1> QED
    BY <1>1, <1>2, <1>3, <1>4

LEMMA EnvironmentOwes ==
  ASSUME Environment
  PROVE  /\ UNCHANGED owed_vars
         /\ next_epoch \/ UNCHANGED epoch_height
  BY DEF Environment, pool_performs, pool_fails, transfer_arrives, next_epoch,
         user_vars, stake_vars, claim_vars, owed_vars

(* What PriceStep asks, of each step that sells, unstakes or does neither. *)
PriceKeptSoFar == PriceAtLeastOne' /\ PriceStep

LEMMA PriceStepFrom ==
  ASSUME TypeOK, TypeOK', NEW truncated \in BOOLEAN, PriceMoves(truncated),
         truncated => \/ total_unstake_claims' > total_unstake_claims
                      \/ accounts'[NSLP].available > accounts[NSLP].available
  PROVE  PriceStep
  <1> DEFINE F == total_for_staking
             T == total_stake_shares
  <1>1. /\ F \in Nat /\ F' * T \in Nat /\ F * T' \in Nat
    <2>1. F \in Nat /\ T \in Nat /\ F' \in Nat /\ T' \in Nat
      BY DEF TypeOK
    <2> QED
      BY <2>1, ProductNat
  <1>2. T > 0 => F * T' <= F' * T + (IF truncated THEN F ELSE 0)
    BY DEF PriceMoves
  <1>3. PriceStep <=>
          (T > 0 => F' * T + (IF \/ total_unstake_claims' > total_unstake_claims
                                 \/ accounts'[NSLP].available > accounts[NSLP].available
                              THEN F ELSE 0) >= F * T')
    BY DEF PriceStep
  <1> HIDE DEF F, T
  <1> QED
    BY <1>1, <1>2, <1>3

LEMMA UserPrice ==
  ASSUME TypeOK, TypeOK', OnlyPoolHasAvailable, PriceAtLeastOne, UserStep
  PROVE  PriceKeptSoFar
  <1> SUFFICES ASSUME NEW u \in Users,
                      \/ \E d \in Deposits : deposit_and_stake(u, d)
                      \/ \E a \in UnstakeAmounts : unstake(u, a)
                      \/ unstake_all(u)
                      \/ \E a \in WithdrawAmounts : withdraw(u, a)
                      \/ withdraw_unstaked(u)
                      \/ \E s \in SellAmounts : liquid_unstake(u, s)
                      \/ \E d \in LiquidityDeposits : nslp_add_liquidity(u, d)
                      \/ \E a \in RemoveAmounts : nslp_remove_liquidity(u, a)
               PROVE  PriceKeptSoFar
    BY DEF UserStep
  <1>1. accounts[u] \in Account /\ accounts[NSLP].available \in Nat
        /\ total_unstake_claims \in Nat
    BY UserAccount DEF Account, TypeOK
  <1>2. CASE \E d \in Deposits : deposit_and_stake(u, d)
    <2>1. PICK n \in Nat :
            /\ accounts'[NSLP].available = accounts[NSLP].available + n
            /\ PriceAtLeastOne' /\ PriceMoves(n > 0)
      BY <1>2, StakeTerms
    <2>2. (n > 0) \in BOOLEAN
          /\ (n > 0 => accounts'[NSLP].available > accounts[NSLP].available)
      BY <1>1, <2>1
    <2> QED
      BY <2>1, <2>2, PriceStepFrom DEF PriceKeptSoFar
  <1>3. CASE \/ \E a \in UnstakeAmounts : unstake(u, a)
             \/ unstake_all(u)
    <2>1. \E n \in Nat : unstake(u, n)
      <3>1. amount_from_stake_shares(accounts[u].stake_shares) \in Nat
        BY <1>1, ValuesNat DEF Account
      <3> QED
        BY <1>3, <3>1, Inputs DEF unstake_all
    <2>2. PICK a \in Nat :
            /\ a > 0 /\ total_unstake_claims' = total_unstake_claims + a
            /\ PriceAtLeastOne' /\ PriceMoves(TRUE)
      BY <2>1, UnstakeTerms
    <2>3. total_unstake_claims' > total_unstake_claims
      BY <1>1, <2>2
    <2> QED
      BY <2>2, <2>3, PriceStepFrom DEF PriceKeptSoFar
  <1>4. CASE \/ \E a \in WithdrawAmounts : withdraw(u, a)
             \/ withdraw_unstaked(u)
             \/ \E s \in SellAmounts : liquid_unstake(u, s)
             \/ \E d \in LiquidityDeposits : nslp_add_liquidity(u, d)
             \/ \E a \in RemoveAmounts : nslp_remove_liquidity(u, a)
    <2>1. accounts[u].unstaked \in Nat
      BY <1>1 DEF Account
    <2>2. UNCHANGED <<total_for_staking, total_stake_shares>>
      BY <1>4, <2>1, Inputs, PriceKeptByPayments DEF withdraw_unstaked
    <2> QED
      BY <2>2, SamePrice, PriceStepFrom DEF PriceKeptSoFar
  <1> QED
    BY <1>2, <1>3, <1>4

LEMMA PriceKeptByNext ==
  ASSUME TypeOK, TypeOK', OnlyPoolHasAvailable, PriceAtLeastOne, [Next]_vars
  PROVE  PriceKeptSoFar
  <1>1. ASSUME UNCHANGED <<total_for_staking, total_stake_shares>>
        PROVE  PriceKeptSoFar
    BY <1>1, SamePrice, PriceStepFrom DEF PriceKeptSoFar
  <1>2. CASE UserStep
    BY <1>2, UserPrice
  <1>3. CASE distribute_staking_clearing
    <2>1. accounts[NSLP].available \in Nat
      BY AccountNames DEF TypeOK, Account
    <2>2. PICK n \in Nat :
            /\ n > 0 /\ accounts'[NSLP].available = accounts[NSLP].available + n
            /\ PriceAtLeastOne' /\ PriceMoves(TRUE)
      BY <1>3, ClearingTerms
    <2>3. accounts'[NSLP].available > accounts[NSLP].available
      BY <2>1, <2>2
    <2> QED
      BY <2>2, <2>3, PriceStepFrom DEF PriceKeptSoFar
  <1>4. CASE HeartbeatCall /\ ~distribute_staking_clearing
    BY <1>1, <1>4, HeartbeatOwes DEF owed_vars
  <1>5. CASE Callback
    <2>1. PICK p \in promises :
            \/ on_staking_pool_stake_maybe_deposit(p)
            \/ on_staking_pool_unstake(p)
            \/ on_retrieve_from_staking_pool(p)
            \/ on_get_sp_total_balance(p)
            \/ on_get_sp_total_balance_panics(p)
      BY <1>5 DEF Callback
    <2>2. CASE on_get_sp_total_balance(p)
      <3>1. PriceAtLeastOne' /\ PriceMoves(FALSE)
        BY <2>2, RewardTerms
      <3> QED
        BY <3>1, PriceStepFrom DEF PriceKeptSoFar
    <2>3. CASE ~on_get_sp_total_balance(p)
      BY <1>1, <2>1, <2>3, CallbackOwes DEF owed_vars
    <2> QED
      BY <2>2, <2>3
  <1>6. CASE Environment
    BY <1>1, <1>6, EnvironmentOwes DEF owed_vars
  <1>7. CASE UNCHANGED vars
    BY <1>1, <1>7 DEF vars, user_vars, stake_vars
  <1> QED
    BY <1>2, <1>3, <1>4, <1>5, <1>6, <1>7 DEF Next

(***************************************************************************)
(* The price of stNEAR, one NEAR when the first is minted, is never below:  *)
(* the truncations of unstaking and of clearing, one share each, never eat  *)
(* into what was paid for the shares that remain.                           *)
(***************************************************************************)
THEOREM PriceNeverBelowOne == Spec => []PriceAtLeastOne
  <1>1. Init => PriceAtLeastOne
    BY DEF Init, PriceAtLeastOne
  <1>2. TypeOK /\ TypeOK' /\ OnlyPoolHasAvailable /\ PriceAtLeastOne /\ [Next]_vars
          => PriceAtLeastOne'
    BY PriceKeptByNext DEF PriceKeptSoFar
  <1> QED
    BY <1>1, <1>2, TypeCorrect, NothingLeftAvailable, PTL DEF Spec

(***************************************************************************)
(* PriceHolds: no step lowers the price of stNEAR, but an unstake or a sale *)
(* by the liquidity pool, and these by one share's truncation at most.      *)
(***************************************************************************)
THEOREM StNearKeepsItsPrice == Spec => PriceHolds
  <1>1. /\ TypeOK /\ TypeOK' /\ OnlyPoolHasAvailable /\ PriceAtLeastOne
        /\ [Next]_vars
        => [PriceStep]_vars
    BY PriceKeptByNext DEF PriceKeptSoFar
  <1> QED
    BY <1>1, TypeCorrect, NothingLeftAvailable, PriceNeverBelowOne, PTL
    DEF Spec, PriceHolds

-----------------------------------------------------------------------------
(***************************************************************************)
(* What a share of the liquidity pool is worth. The pool holds stNEAR like  *)
(* anyone else, so each step is told by what it does to the price, to the   *)
(* pool's stNEAR and to its NEAR.                                           *)
(***************************************************************************)
LEMMA SharesHeld ==
  ASSUME TypeOK, AccountsAddUp
  PROVE  /\ accounts[NSLP].stake_shares <= total_stake_shares
         /\ \A u \in Users :
              accounts[NSLP].stake_shares + accounts[u].stake_shares <= total_stake_shares
  <1> DEFINE f == [a \in Accounts |-> accounts[a].stake_shares]
             others == SumFunctionOnSet(f, Accounts \ {NSLP})
  <1>1. /\ NSLP \in Accounts /\ \A u \in Users : u \in Accounts \ {NSLP}
        /\ \A a \in Accounts : f[a] \in Nat /\ f[a] = accounts[a].stake_shares
    BY AccountNames DEF TypeOK, Account
  <1>2. total_stake_shares = SumFunctionOnSet(f, Accounts)
    BY DEF AccountsAddUp, SumFunction
  <1> HIDE DEF f
  <1>3. total_stake_shares = f[NSLP] + others
    <2>1. \A a \in Accounts : f[a] \in Int
      BY <1>1
    <2> QED
      BY <1>1, <1>2, <2>1, AccountsFinite, SumWithElement
  <1>4. others \in Nat /\ \A a \in Accounts \ {NSLP} : f[a] <= others
    <2>1. \A a \in Accounts \ {NSLP} : f[a] \in Nat
      BY <1>1
    <2> QED
      BY <2>1, AccountsFinite, SumNat
  <1> HIDE DEF others
  <1> QED
    BY <1>1, <1>3, <1>4

LEMMA PoolValue ==
  ASSUME TypeOK, TypeOK'
  PROVE  /\ accounts[NSLP].nslp_shares \in Nat /\ accounts'[NSLP].nslp_shares \in Nat
         /\ accounts[NSLP].available \in Nat /\ accounts[NSLP].stake_shares \in Nat
         /\ total_pool_value \in Nat /\ total_pool_value' \in Nat
         /\ amount_from_stake_shares(1) \in Nat
         /\ total_pool_value = accounts[NSLP].available
              + amount_from_shares(accounts[NSLP].stake_shares,
                                   total_for_staking, total_stake_shares)
         /\ total_pool_value' = accounts'[NSLP].available
              + amount_from_shares(accounts'[NSLP].stake_shares,
                                   total_for_staking', total_stake_shares')
  <1> DEFINE lp == accounts[NSLP]
  <1>1. lp \in Account /\ lp' \in Account
    BY AccountNames DEF TypeOK
  <1>2. /\ lp.nslp_shares \in Nat /\ lp.available \in Nat /\ lp.stake_shares \in Nat
        /\ lp'.nslp_shares \in Nat /\ lp'.available \in Nat /\ lp'.stake_shares \in Nat
        /\ total_for_staking \in Nat /\ total_stake_shares \in Nat
        /\ total_for_staking' \in Nat /\ total_stake_shares' \in Nat
    BY <1>1 DEF Account, TypeOK
  <1>3. /\ total_pool_value = lp.available
              + amount_from_shares(lp.stake_shares, total_for_staking, total_stake_shares)
        /\ total_pool_value' = lp'.available
              + amount_from_shares(lp'.stake_shares, total_for_staking', total_stake_shares')
    BY DEF total_pool_value, amount_from_stake_shares
  <1>4. /\ amount_from_shares(lp.stake_shares, total_for_staking, total_stake_shares) \in Nat
        /\ amount_from_shares(lp'.stake_shares, total_for_staking', total_stake_shares') \in Nat
        /\ amount_from_stake_shares(1) \in Nat
    BY <1>2, AmountNat DEF amount_from_stake_shares
  <1> QED
    BY <1>2, <1>3, <1>4

(* A step that leaves the pool's shares alone loses no more than its value. *)
LEMMA LossWithin ==
  ASSUME TypeOK, TypeOK',
         accounts'[NSLP].nslp_shares = accounts[NSLP].nslp_shares,
         total_pool_value <= total_pool_value'
           + (IF total_unstake_claims' > total_unstake_claims
              THEN amount_from_stake_shares(1) + 1 ELSE 0)
  PROVE  LiquidityValueStep
  <1> DEFINE L == accounts[NSLP].nslp_shares
             V == total_pool_value
             one == amount_from_stake_shares(1)
             c == IF total_unstake_claims' > total_unstake_claims THEN one + 1 ELSE 0
  <1>1. L \in Nat /\ L' = L /\ V \in Nat /\ V' \in Nat /\ one \in Nat
    BY PoolValue
  <1>2. c \in Nat /\ V <= V' + c
    <2> HIDE DEF one
    <2>1. c \in Nat
      BY <1>1
    <2> QED BY <2>1 DEF one
  <1>3. LiquidityValueStep <=>
          (L > 0 => (V' + (IF total_unstake_claims' > total_unstake_claims THEN one + 1
                           ELSE IF L' < L THEN 1 ELSE 0)) * L
                      + (IF L' < L THEN V ELSE 0) >= V * L')
    BY DEF LiquidityValueStep
  <1>4. (V' + (IF total_unstake_claims' > total_unstake_claims THEN one + 1
               ELSE IF L' < L THEN 1 ELSE 0)) = V' + c
    <2> HIDE DEF L, V, one
    <2> QED BY <1>1
  <1> HIDE DEF L, V, c
  <1>5. V' + c \in Nat
    <2>1. \A x, y \in Nat : x + y \in Nat
      OBVIOUS
    <2> QED BY <1>1, <1>2, <2>1
  <1>6. /\ V * L <= (V' + c) * L
        /\ V * L \in Nat /\ (V' + c) * L \in Nat
    BY <1>1, <1>2, <1>5, ProductMonotone, ProductNat
  <1> QED
    BY <1>1, <1>3, <1>4, <1>6

(* What a step that neither adds nor removes liquidity must show. *)
WorthKept ==
  /\ accounts'[NSLP].nslp_shares = accounts[NSLP].nslp_shares
  /\ total_pool_value <= total_pool_value'

LEMMA NoLoss ==
  ASSUME TypeOK, TypeOK', WorthKept
  PROVE  LiquidityValueStep
  <1> DEFINE one == amount_from_stake_shares(1)
             c == IF total_unstake_claims' > total_unstake_claims THEN one + 1 ELSE 0
  <1>1. /\ total_pool_value \in Nat /\ total_pool_value' \in Nat /\ one \in Nat
    BY PoolValue
  <1>2. c \in Nat
    <2> HIDE DEF one
    <2> QED BY <1>1
  <1> HIDE DEF c
  <1>3. total_pool_value <= total_pool_value' + c
    <2>1. \A x, y, z \in Nat : x <= y => x <= y + z
      OBVIOUS
    <2> QED BY <1>1, <1>2, <2>1 DEF WorthKept
  <1> QED
    BY <1>3, LossWithin DEF WorthKept, c

(* Shares that are among those minted are worth no less when the price is. *)
LEMMA HoldingGrows ==
  ASSUME NEW P \in Nat, NEW F \in Nat, NEW T \in Nat, P <= T,
         NEW F2 \in Nat, NEW T2 \in Nat, P <= T2, F * T2 <= F2 * T
  PROVE  amount_from_shares(P, F, T) <= amount_from_shares(P, F2, T2)
  <1>1. CASE P = 0
    BY <1>1 DEF amount_from_shares
  <1>2. CASE P > 0
    BY <1>2, WorthGrows
  <1> QED
    BY <1>1, <1>2

(* distribute.rs:88. The pool's NEAR and what is left of its stNEAR, after  *)
(* a clearing sale, are worth what its stNEAR was worth before.             *)
LEMMA SaleKeepsHolding ==
  ASSUME TypeOK, NEW F \in Nat, NEW T \in Nat, T <= F, NEW orders \in Nat,
         NEW held \in Nat, held <= T,
         clearing_sale(F, T, orders, held).st_near <= held
  PROVE  LET sale == clearing_sale(F, T, orders, held)
         IN amount_from_shares(held, F, T)
              <= sale.near + amount_from_shares(held - sale.st_near, F - sale.near,
                                                T - sale.st_near)
  <1> DEFINE room == F - total_actually_staked
             z == minimum(orders, room)
             valued == amount_from_shares(held, F, T)
             b == shares_from_amount(z, F, T)
             sale == clearing_sale(F, T, orders, held)
  <1>1. valued \in Nat /\ valued <= F
    BY RedeemKeepsPrice
  <1>2. CASE ~clearing_applies(F, held)
    <2>1. sale.st_near = 0 /\ sale.near = 0
      BY <1>2 DEF clearing_sale
    <2> HIDE DEF sale
    <2> QED
      BY <1>1, <2>1 DEF sale
  <1>3. CASE clearing_applies(F, held) /\ z >= valued
    <2>1. sale.st_near = held /\ sale.near = valued
      BY <1>3 DEF clearing_sale
    <2>2. held - held = 0 /\ amount_from_shares(0, F - valued, T - held) = 0
      BY DEF amount_from_shares
    <2> HIDE DEF sale, valued
    <2>3. valued <= sale.near + amount_from_shares(held - sale.st_near, F - sale.near,
                                                   T - sale.st_near)
      BY <1>1, <2>1, <2>2
    <2> QED
      BY <2>3 DEF valued, sale
  <1>4. CASE clearing_applies(F, held) /\ ~(z >= valued)
    <2>1. sale.st_near = b /\ sale.near = z
      BY <1>4 DEF clearing_sale
    <2>2. held > 0 /\ room \in Nat
      BY <1>4 DEF clearing_applies, TypeOK
    <2>3. z \in Nat /\ z < F
      <3>1. z \in Nat
        BY <2>2, MinimumBounds
      <3> HIDE DEF z, valued
      <3> QED
        BY <1>1, <1>4, <3>1
    <2> HIDE DEF z
    <2>4. b \in Nat /\ F * b <= T * z
      <3>1. F \in Nat \ {0} /\ T \in Nat \ {0}
        BY <2>2, <2>3
      <3> QED
        BY <2>3, <3>1, SharesBounds
    <2>5. b <= held
      BY <2>1
    <2> HIDE DEF b, sale, room
    <2>6. b < T
      <3> SUFFICES ASSUME b = T PROVE FALSE
        BY <2>4, <2>5
      <3>1. F * T <= z * T
        <4>1. T * z = z * T
          BY <2>3
        <4> QED BY <2>4, <4>1
      <3>2. T \in Nat \ {0}
        BY <2>2
      <3>3. F <= z
        BY <2>3, <3>1, <3>2, ProductCancel
      <3> QED BY <2>3, <3>3
    <2>7. amount_from_shares(held, F, T)
            <= z + amount_from_shares(held - b, F - z, T - b)
      <3>1. z <= F
        BY <2>3
      <3> QED
        BY <2>3, <2>4, <2>5, <2>6, <3>1, SaleKeepsWorth
    <2> QED
      BY <2>1, <2>7 DEF sale
  <1> QED
    BY <1>2, <1>3, <1>4

LEMMA WorthChain ==
  ASSUME NEW a \in Nat, NEW n \in Nat, NEW w \in Nat, NEW w1 \in Nat, NEW w2 \in Nat,
         w <= w1, w1 <= n + w2
  PROVE  a + w <= (a + n) + w2
  OBVIOUS

LEMMA StakeKeepsWorth ==
  ASSUME TypeOK, TypeOK', AccountsAddUp, OnlyPoolHasAvailable, PriceAtLeastOne,
         NEW u \in Users, NEW d \in Deposits, deposit_and_stake(u, d)
  PROVE  WorthKept
  <1> DEFINE acc == [accounts[u] EXCEPT !.available = @ + d]
             num_shares == stake_shares_from_amount(d)
             F == total_for_staking
             T == total_stake_shares
             F1 == F + d
             T1 == T + num_shares
             orders == epoch_stake_orders + d
             lp == accounts[NSLP]
             held == lp.stake_shares
             sale == clearing_sale(F1, T1, orders, held)
             staked == [acc EXCEPT !.available = @ - d, !.stake_shares = @ + num_shares]
  <1>1. /\ d \in Nat /\ F \in Nat /\ T \in Nat /\ epoch_stake_orders \in Nat
        /\ T <= F /\ lp \in Account /\ held \in Nat /\ held <= T
    BY Inputs, UserAccount, SharesHeld DEF TypeOK, PriceAtLeastOne, Account
  <1>2. take_from_available(u, d, acc.available) = d
    <2>1. acc.available = d
      BY <1>1, UserAccount DEF Account
    <2> QED
      BY <1>1, <2>1, TakesAll
  <1>3. /\ sale_covered(sale, T1)
        /\ accounts' = [accounts EXCEPT ![u] = staked, ![NSLP] = after_sale(@, sale)]
        /\ total_for_staking' = F1 - sale.near
        /\ total_stake_shares' = T1 - sale.st_near
    BY <1>2 DEF deposit_and_stake, internal_stake
  <1>4. /\ num_shares \in Nat /\ num_shares <= d
        /\ T > 0 => F * T1 <= F1 * T
    BY <1>1, BuyKeepsPrice DEF stake_shares_from_amount
  <1> HIDE DEF num_shares
  <1>5. F1 \in Nat /\ T1 \in Nat /\ T1 <= F1 /\ orders \in Nat /\ held <= T1
    BY <1>1, <1>4
  <1>6. /\ accounts'[NSLP].available = lp.available + sale.near
        /\ accounts'[NSLP].stake_shares = held - sale.st_near
        /\ accounts'[NSLP].nslp_shares = lp.nslp_shares
    <2>1. accounts'[NSLP] = after_sale(lp, sale)
      BY <1>3, UserAccount, AccountNames DEF TypeOK
    <2> HIDE DEF sale
    <2> QED
      BY <1>1, <2>1 DEF after_sale, Account
  <1> HIDE DEF F1, T1, orders, held
  <1>7. amount_from_shares(held, F, T) <= amount_from_shares(held, F1, T1)
    <2>1. CASE T = 0
      <3>1. amount_from_shares(held, F1, T1) \in Nat
        BY <1>1, <1>5, AmountNat
      <3> QED
        BY <2>1, <3>1 DEF amount_from_shares
    <2>2. CASE T > 0
      <3> HIDE DEF F, T
      <3> QED
        BY <1>1, <1>4, <1>5, <2>2, HoldingGrows
    <2> QED
      BY <1>1, <2>1, <2>2
  <1>8. /\ sale.near \in Nat
        /\ amount_from_shares(held, F1, T1)
             <= sale.near + amount_from_shares(held - sale.st_near, F1 - sale.near,
                                               T1 - sale.st_near)
    <2>1. sale.st_near <= held
      BY <1>3 DEF sale_covered, held
    <2>2. sale.near \in Nat
      BY <1>1, <1>5, SaleBounds
    <2> QED
      BY <1>1, <1>5, <2>1, <2>2, SaleKeepsHolding
  <1> DEFINE w == amount_from_shares(held, F, T)
             w1 == amount_from_shares(held, F1, T1)
             w2 == amount_from_shares(held - sale.st_near, F1 - sale.near, T1 - sale.st_near)
  <1>9. /\ total_pool_value = lp.available + w
        /\ total_pool_value' = (lp.available + sale.near) + w2
        /\ total_pool_value' \in Nat /\ lp.available \in Nat
    BY <1>3, <1>6, PoolValue DEF held
  <1>10. w \in Nat /\ w1 \in Nat /\ w2 \in Nat
    <2>1. /\ sale.near \in Nat /\ sale.st_near \in Nat /\ sale.near <= F1
          /\ sale.st_near <= held /\ sale.st_near <= T1
      BY <1>1, <1>3, <1>5, SaleBounds DEF sale_covered, held
    <2>2. held - sale.st_near \in Nat /\ F1 - sale.near \in Nat /\ T1 - sale.st_near \in Nat
      <3> HIDE DEF sale
      <3> QED BY <1>1, <1>5, <2>1
    <2> QED
      BY <1>1, <1>5, <2>2, AmountNat
  <1>11. w <= w1 /\ w1 <= sale.near + w2 /\ sale.near \in Nat
    BY <1>7, <1>8
  <1> HIDE DEF w, w1, w2, sale
  <1>12. total_pool_value <= total_pool_value'
    BY <1>9, <1>10, <1>11, WorthChain
  <1> QED
    BY <1>6, <1>12 DEF WorthKept

LEMMA ClearingKeepsWorth ==
  ASSUME TypeOK, TypeOK', AccountsAddUp, PriceAtLeastOne, distribute_staking_clearing
  PROVE  WorthKept
  <1> DEFINE F == total_for_staking
             T == total_stake_shares
             lp == accounts[NSLP]
             held == lp.stake_shares
             sale == clearing_sale(F, T, epoch_stake_orders, held)
  <1>1. /\ F \in Nat /\ T \in Nat /\ epoch_stake_orders \in Nat
        /\ T <= F /\ lp \in Account /\ held \in Nat /\ held <= T
    BY AccountNames, SharesHeld DEF TypeOK, PriceAtLeastOne, Account
  <1>2. /\ sale_covered(sale, T)
        /\ accounts' = [accounts EXCEPT ![NSLP] = after_sale(@, sale)]
        /\ total_for_staking' = F - sale.near
        /\ total_stake_shares' = T - sale.st_near
    BY DEF distribute_staking_clearing
  <1>3. /\ accounts'[NSLP].available = lp.available + sale.near
        /\ accounts'[NSLP].stake_shares = held - sale.st_near
        /\ accounts'[NSLP].nslp_shares = lp.nslp_shares
    <2>1. accounts'[NSLP] = after_sale(lp, sale)
      BY <1>2, AccountNames DEF TypeOK
    <2> HIDE DEF sale
    <2> QED
      BY <1>1, <2>1 DEF after_sale, Account
  <1> DEFINE w == amount_from_shares(held, F, T)
             w2 == amount_from_shares(held - sale.st_near, F - sale.near, T - sale.st_near)
  <1>4. /\ total_pool_value = lp.available + w
        /\ total_pool_value' = (lp.available + sale.near) + w2
        /\ lp.available \in Nat
    BY <1>2, <1>3, PoolValue
  <1>5. /\ sale.near \in Nat /\ sale.st_near \in Nat /\ sale.near <= F
        /\ sale.st_near <= held /\ sale.st_near <= T
    BY <1>1, <1>2, SaleBounds DEF sale_covered
  <1>6. w <= sale.near + w2
    BY <1>1, <1>5, SaleKeepsHolding
  <1>7. w \in Nat /\ w2 \in Nat
    <2>1. held - sale.st_near \in Nat /\ F - sale.near \in Nat /\ T - sale.st_near \in Nat
      <3> HIDE DEF sale, held, F, T
      <3> QED BY <1>1, <1>5
    <2> QED
      BY <1>1, <2>1, AmountNat
  <1> HIDE DEF w, w2, sale
  <1>8. total_pool_value <= total_pool_value'
    <2>1. w <= w
      BY <1>7
    <2> QED
      BY <1>4, <1>5, <1>6, <1>7, <2>1, WorthChain
  <1> QED
    BY <1>3, <1>8 DEF WorthKept

(* staking.rs:130. All that one has is redeemed at the price, rounded down; *)
(* an amount of it for a number of shares that is rounded down.             *)
LEMMA UnstakeCosts ==
  ASSUME TypeOK, TypeOK', AccountsAddUp, PriceAtLeastOne,
         NEW u \in Users, NEW n \in Nat, unstake(u, n)
  PROVE  LiquidityValueStep
  <1> DEFINE acc == accounts[u]
             F == total_for_staking
             T == total_stake_shares
             P == accounts[NSLP].stake_shares
             valued == amount_from_stake_shares(acc.stake_shares)
             all == is_close(n, valued)
             a == IF all THEN valued ELSE n
             b == IF all THEN acc.stake_shares ELSE stake_shares_from_amount(n)
             one == amount_from_stake_shares(1)
  <1>1. /\ F \in Nat /\ T \in Nat /\ T <= F /\ P \in Nat /\ P <= T
        /\ acc.stake_shares \in Nat /\ P + acc.stake_shares <= T
        /\ total_unstake_claims \in Nat
    BY AccountNames, SharesHeld DEF TypeOK, PriceAtLeastOne, Account
  <1>2. /\ b > 0 /\ b <= acc.stake_shares /\ a <= F
        /\ total_stake_shares' = T - b
        /\ total_for_staking' = F - a
    BY DEF unstake, internal_unstake
  <1>3. accounts'[NSLP] = accounts[NSLP] /\ total_unstake_claims' > total_unstake_claims
    <2>1. PICK c \in Nat :
            /\ c > 0 /\ total_unstake_claims' = total_unstake_claims + c
            /\ \A x \in Accounts \ {u} : accounts'[x] = accounts[x]
      BY UnstakeTerms
    <2> QED
      BY <1>1, <2>1, AccountNames
  <1> DEFINE w == amount_from_shares(P, F, T)
             w2 == amount_from_shares(P, F - a, T - b)
  <1>4. /\ w \in Nat /\ w2 \in Nat /\ one \in Nat /\ w <= w2 + (one + 1)
    <2>1. CASE all
      <3>1. a = valued /\ b = acc.stake_shares
            /\ valued = amount_from_shares(acc.stake_shares, F, T)
        BY <2>1 DEF amount_from_stake_shares
      <3> HIDE DEF a, b, valued, all
      <3>2. /\ valued \in Nat /\ F * (T - b) <= (F - a) * T
        BY <1>1, <1>2, <3>1, RedeemKeepsPrice
      <3>3. F - a \in Nat /\ T - b \in Nat /\ P <= T - b
        BY <1>1, <1>2, <3>1, <3>2
      <3> HIDE DEF F, T, P
      <3>4. w \in Nat /\ w2 \in Nat /\ w <= w2
        BY <1>1, <3>2, <3>3, AmountNat, HoldingGrows
      <3>5. one \in Nat
        BY PoolValue
      <3> HIDE DEF w, w2, one
      <3> QED
        BY <3>4, <3>5
    <2>2. CASE ~all
      <3>1. a = n /\ b = shares_from_amount(n, F, T)
        BY <2>2 DEF stake_shares_from_amount
      <3> HIDE DEF a, b, all
      <3>2. b \in Nat
        BY <1>1, <3>1, SharesNat
      <3>3. T \in Nat \ {0} /\ F \in Nat \ {0}
        <4>1. T > 0
          BY <1>1, <1>2, <3>2
        <4> QED BY <1>1, <4>1
      <3>4. T * a < F * b + F
        BY <3>1, <3>3, SharesBounds
      <3>5. P + b <= T /\ F - a \in Nat /\ T - b \in Nat
        BY <1>1, <1>2, <3>1, <3>2
      <3>6. w <= w2 + (amount_from_shares(1, F, T) + 1)
        BY <1>1, <1>2, <3>1, <3>2, <3>3, <3>4, <3>5, RedemptionCost
      <3>7. w \in Nat /\ w2 \in Nat
        BY <1>1, <3>5, AmountNat
      <3>8. one \in Nat /\ one = amount_from_shares(1, F, T)
        BY PoolValue DEF amount_from_stake_shares
      <3> QED
        BY <3>6, <3>7, <3>8
    <2> QED
      BY <2>1, <2>2
  <1>5. /\ total_pool_value = accounts[NSLP].available + w
        /\ total_pool_value' = accounts[NSLP].available + w2
        /\ accounts[NSLP].available \in Nat
    BY <1>2, <1>3, PoolValue
  <1> HIDE DEF w, w2, one
  <1>6. total_pool_value <= total_pool_value' + (one + 1)
    BY <1>4, <1>5
  <1>7. total_pool_value <= total_pool_value'
          + (IF total_unstake_claims' > total_unstake_claims THEN one + 1 ELSE 0)
    BY <1>3, <1>6
  <1> QED
    BY <1>3, <1>7, LossWithin DEF one

LEMMA PoolUntouched ==
  ASSUME TypeOK, TypeOK', accounts'[NSLP] = accounts[NSLP],
         UNCHANGED <<total_for_staking, total_stake_shares>>
  PROVE  WorthKept
  <1>1. total_pool_value' = total_pool_value /\ total_pool_value \in Nat
    BY PoolValue
  <1> QED
    BY <1>1 DEF WorthKept

(* nslp.rs:88. The discount pays for the cuts, which are taken out of it. *)
LEMMA SellKeepsWorth ==
  ASSUME TypeOK, TypeOK', AccountsAddUp, OnlyPoolHasAvailable,
         NEW u \in Users, NEW s \in SellAmounts, liquid_unstake(u, s)
  PROVE  WorthKept
  <1> DEFINE acc == accounts[u]
             lp == accounts[NSLP]
             F == total_for_staking
             T == total_stake_shares
             to_sell == IF is_close(s, acc.stake_shares) THEN acc.stake_shares ELSE s
             nears_out == amount_from_stake_shares(to_sell)
             discount == swap_fee_basis_points(lp.available, nears_out)
             fee == apply_pct(discount, nears_out)
             near == nears_out - fee
             fee_in_st_near == stake_shares_from_amount(fee)
             treasury_cut == apply_pct(TreasurySwapCut, fee_in_st_near)
             operator_cut == apply_pct(OperatorSwapCut, fee_in_st_near)
             developers_cut == apply_pct(DevelopersSwapCut, fee_in_st_near)
             cuts == treasury_cut + operator_cut + developers_cut
             amount == take_from_available(u, near, acc.available + near)
  <1>1. /\ lp \in Account /\ lp.available \in Nat /\ lp.stake_shares \in Nat
        /\ F \in Nat /\ T \in Nat /\ to_sell \in Nat
    BY UserAccount, Inputs DEF Account, TypeOK
  <1>2. /\ discount < BasisPoints
        /\ near <= lp.available /\ fee_in_st_near > cuts /\ cuts <= to_sell
        /\ accounts' = [accounts EXCEPT
             ![u] = [acc EXCEPT !.stake_shares = @ - to_sell,
                                !.available = (acc.available + near) - amount],
             ![NSLP] = [lp EXCEPT !.available = @ - near,
                                  !.stake_shares = @ + st_near_to_liq_pool(to_sell, cuts)],
             ![Treasury].stake_shares = @ + treasury_cut,
             ![Operator].stake_shares = @ + operator_cut,
             ![Developers].stake_shares = @ + developers_cut]
    BY DEF liquid_unstake
  <1>3. UNCHANGED <<total_for_staking, total_stake_shares>>
    BY SellPrice
  <1> HIDE DEF to_sell
  <1>4. nears_out \in Nat /\ nears_out = amount_from_shares(to_sell, F, T)
    BY <1>1, ValuesNat DEF amount_from_stake_shares
  <1> HIDE DEF nears_out
  <1>5. fee \in Nat /\ fee <= nears_out
    <2>1. discount \in Nat
      BY <1>1, <1>4, Constants, DiscountBounds DEF swap_fee_basis_points
    <2>2. discount < BasisPoints
      BY <1>2
    <2>3. BasisPoints \in Nat
      BY PoolMathAssumption
    <2> HIDE DEF discount
    <2>4. discount <= BasisPoints
      BY <2>1, <2>2, <2>3
    <2> QED
      BY <1>4, <2>1, <2>4, ApplyPctNat, ApplyPctBound
  <1> HIDE DEF fee
  <1>6. fee_in_st_near \in Nat /\ fee_in_st_near = shares_from_amount(fee, F, T)
    BY <1>5, ValuesNat DEF stake_shares_from_amount
  <1> HIDE DEF fee_in_st_near
  <1>7. cuts \in Nat
    <2>1. treasury_cut \in Nat /\ operator_cut \in Nat /\ developers_cut \in Nat
      BY <1>6, Constants, ApplyPctNat
    <2> HIDE DEF treasury_cut, operator_cut, developers_cut
    <2> QED BY <2>1
  <1>8. st_near_to_liq_pool(to_sell, cuts) = to_sell - cuts
    BY DEF st_near_to_liq_pool
  <1> HIDE DEF cuts, treasury_cut, operator_cut, developers_cut, amount, near
  <1>9. accounts'[NSLP] = [lp EXCEPT !.available = @ - near,
                                     !.stake_shares = @ + (to_sell - cuts)]
    BY <1>2, <1>8, UserAccount, AccountNames, AccountsAssumption DEF TypeOK
  <1>10. /\ accounts'[NSLP].available = lp.available - near
         /\ accounts'[NSLP].stake_shares = lp.stake_shares + (to_sell - cuts)
         /\ accounts'[NSLP].nslp_shares = lp.nslp_shares
    BY <1>1, <1>9 DEF Account
  <1>11. near = nears_out - fee
    BY DEF near
  <1>12. T \in Nat \ {0} /\ F \in Nat \ {0}
    <2>1. fee_in_st_near > 0
      BY <1>2, <1>6, <1>7
    <2>2. T # 0
      <3> SUFFICES ASSUME T = 0 PROVE FALSE
        OBVIOUS
      <3>1. nears_out = 0 /\ fee_in_st_near = fee
        BY <1>4, <1>6 DEF amount_from_shares, shares_from_amount
      <3> QED BY <1>5, <2>1, <3>1
    <2>3. F # 0
      <3> SUFFICES ASSUME F = 0 PROVE FALSE
        OBVIOUS
      <3>1. fee_in_st_near = 0
        BY <1>6, <2>2 DEF shares_from_amount
      <3> QED BY <2>1, <3>1
    <2> QED
      BY <1>1, <2>2, <2>3
  <1> DEFINE P == lp.stake_shares
             A == lp.available
             w == amount_from_shares(P, F, T)
             w2 == amount_from_shares(P + (to_sell - cuts), F, T)
  <1>13. F * cuts <= T * fee
    <2>1. F * fee_in_st_near <= T * fee
      BY <1>5, <1>6, <1>12, SharesBounds
    <2>2. cuts * F <= fee_in_st_near * F
      BY <1>2, <1>6, <1>7, <1>12, ProductMonotone
    <2>3. /\ cuts * F = F * cuts /\ fee_in_st_near * F = F * fee_in_st_near
          /\ cuts * F \in Nat /\ fee_in_st_near * F \in Nat /\ T * fee \in Nat
      BY <1>5, <1>6, <1>7, <1>12, ProductNat
    <2> QED
      BY <2>1, <2>2, <2>3
  <1>14. w + near <= w2
    <2> HIDE DEF F, T, P
    <2> QED
      BY <1>1, <1>2, <1>4, <1>5, <1>7, <1>11, <1>12, <1>13, SwapKeepsWorth DEF P
  <1>15. w \in Nat /\ w2 \in Nat /\ near \in Nat
    <2>1. to_sell - cuts \in Nat
      BY <1>1, <1>2, <1>7
    <2>2. P \in Nat /\ P + (to_sell - cuts) \in Nat
      BY <1>1, <2>1
    <2>3. w \in Nat /\ w2 \in Nat
      BY <1>1, <2>2, AmountNat
    <2> HIDE DEF w, w2
    <2> QED
      BY <1>4, <1>5, <1>11, <2>3
  <1>16. total_pool_value = A + w /\ total_pool_value' = (A - near) + w2
    BY <1>3, <1>10, PoolValue
  <1>17. A \in Nat /\ near <= A
    BY <1>1, <1>2
  <1> HIDE DEF w, w2, A
  <1>18. total_pool_value <= total_pool_value'
    BY <1>14, <1>15, <1>16, <1>17
  <1> QED
    BY <1>10, <1>18 DEF WorthKept

(* nslp.rs:26. The shares an amount buys are no more than it is worth. *)
LEMMA AddKeepsWorth ==
  ASSUME TypeOK, TypeOK', OnlyPoolHasAvailable,
         NEW u \in Users, NEW d \in LiquidityDeposits, nslp_add_liquidity(u, d)
  PROVE  LiquidityValueStep
  <1> DEFINE acc == [accounts[u] EXCEPT !.available = @ + d]
             lp == accounts[NSLP]
             L == lp.nslp_shares
             V == total_pool_value
             n == nslp_shares_from_amount(d)
             unstaked == total_unstake_claims' > total_unstake_claims
  <1>1. /\ d \in Nat /\ lp \in Account /\ L \in Nat /\ V \in Nat /\ lp.available \in Nat
        /\ total_unstake_claims \in Nat /\ n \in Nat
    BY Inputs, UserAccount, PoolValue, ValuesNat DEF Account, TypeOK
  <1>2. take_from_available(u, d, acc.available) = d
    <2>1. acc.available = d
      BY <1>1, UserAccount DEF Account
    <2> QED
      BY <1>1, <2>1, TakesAll
  <1>3. /\ n > 0
        /\ accounts' = [accounts EXCEPT
             ![u] = [acc EXCEPT !.available = @ - d, !.nslp_shares = @ + n],
             ![NSLP] = [lp EXCEPT !.available = @ + d, !.nslp_shares = @ + n]]
        /\ UNCHANGED <<total_for_staking, total_stake_shares, total_unstake_claims>>
    BY <1>2 DEF nslp_add_liquidity, stake_vars, claim_vars
  <1>4. n = shares_from_amount(d, V, L)
    BY DEF nslp_shares_from_amount
  <1> HIDE DEF n
  <1>5. /\ accounts'[NSLP].available = lp.available + d
        /\ accounts'[NSLP].stake_shares = lp.stake_shares
        /\ accounts'[NSLP].nslp_shares = L + n
    <2>1. accounts'[NSLP] = [lp EXCEPT !.available = @ + d, !.nslp_shares = @ + n]
      BY <1>3, UserAccount, AccountNames DEF TypeOK
    <2> QED
      BY <1>1, <2>1 DEF Account
  <1>6. V' = V + d
    <2> DEFINE w == amount_from_shares(lp.stake_shares, total_for_staking,
                                       total_stake_shares)
    <2>1. V = lp.available + w /\ V' = (lp.available + d) + w /\ w \in Nat
      <3>1. w \in Nat
        BY <1>1, AmountNat DEF Account, TypeOK
      <3> QED
        BY <1>3, <1>5, <3>1, PoolValue
    <2> HIDE DEF w, V
    <2> QED
      BY <1>1, <2>1
  <1>7. L > 0 => V * n <= L * d
    <2> SUFFICES ASSUME L > 0 PROVE V * n <= L * d
      OBVIOUS
    <2>1. V # 0
      BY <1>3, <1>4 DEF shares_from_amount
    <2> HIDE DEF V, L
    <2> QED
      BY <1>1, <1>4, <2>1, SharesBounds
  <1>8. LiquidityValueStep <=>
          (L > 0 => (V' + (IF unstaked THEN amount_from_stake_shares(1) + 1
                           ELSE IF L' < L THEN 1 ELSE 0)) * L
                      + (IF L' < L THEN V ELSE 0) >= V * L')
    BY DEF LiquidityValueStep
  <1>9. ~unstaked /\ L' = L + n /\ ~(L' < L)
    BY <1>1, <1>3, <1>5
  <1> HIDE DEF L, V, unstaked
  <1>10. LiquidityValueStep <=> (L > 0 => ((V + d) + 0) * L + 0 >= V * (L + n))
    BY <1>6, <1>8, <1>9
  <1>11. L > 0 => ((V + d) + 0) * L + 0 >= V * (L + n)
    <2>1. /\ ((V + d) + 0) * L = V * L + L * d /\ V * (L + n) = V * L + V * n
          /\ V * L \in Int /\ L * d \in Int /\ V * n \in Int
      BY <1>1
    <2> QED
      BY <1>7, <2>1
  <1> QED
    BY <1>10, <1>11

LEMMA RemovalLosses ==
  ASSUME NEW V \in Nat, NEW V2 \in Nat, NEW L \in Nat, NEW b \in Nat, NEW x \in Nat,
         V <= (V2 + 1) + x, x * L <= V * b + V
  PROVE  V * (L - b) <= (V2 + 1) * L + V
  <1>1. V * L <= ((V2 + 1) + x) * L
    <2>1. (V2 + 1) + x \in Nat
      OBVIOUS
    <2> QED BY <2>1, ProductMonotone
  <1>2. /\ ((V2 + 1) + x) * L = (V2 + 1) * L + x * L
        /\ V * (L - b) = V * L - V * b
        /\ V * L \in Int /\ V * b \in Int /\ x * L \in Int /\ (V2 + 1) * L \in Int
    OBVIOUS
  <1> QED
    BY <1>1, <1>2

(* nslp.rs:140. Who removes liquidity takes what the burned shares are     *)
(* worth, or one share more, and the truncation of the stNEAR paid.         *)
LEMMA RemoveCosts ==
  ASSUME TypeOK, TypeOK', OnlyPoolHasAvailable, AccountsAddUp,
         NEW u \in Users, NEW n \in RemoveAmounts, nslp_remove_liquidity(u, n)
  PROVE  LiquidityValueStep
  <1> DEFINE acc == accounts[u]
             lp == accounts[NSLP]
             F == total_for_staking
             T == total_stake_shares
             L == lp.nslp_shares
             P == lp.stake_shares
             A == lp.available
             V == total_pool_value
             valued == amount_from_nslp_shares(acc.nslp_shares)
             all == is_close(n, valued)
             x == IF all THEN valued ELSE n
             b == IF all THEN acc.nslp_shares ELSE nslp_shares_from_amount(n)
             r == st_near_to_remove(lp, b)
             near == x - amount_from_stake_shares(r)
             available == acc.available + near
             amount == take_from_available(u, near, available)
             unstaked == total_unstake_claims' > total_unstake_claims
  <1>1. /\ n \in Nat /\ lp \in Account /\ L \in Nat /\ P \in Nat /\ A \in Nat /\ V \in Nat
        /\ acc.nslp_shares \in Nat /\ F \in Nat /\ T \in Nat /\ P <= T
        /\ total_unstake_claims \in Nat /\ V' \in Nat
    BY Inputs, UserAccount, PoolValue, SharesHeld DEF Account, TypeOK
  <1>2. /\ b > 0 /\ b <= L /\ x >= amount_from_stake_shares(r)
        /\ near <= A /\ r <= P
        /\ accounts' = [accounts EXCEPT
             ![u] = [acc EXCEPT !.available = available - amount,
                                !.stake_shares = @ + r, !.nslp_shares = @ - b],
             ![NSLP] = [lp EXCEPT !.available = @ - near, !.stake_shares = @ - r,
                                  !.nslp_shares = @ - b]]
        /\ UNCHANGED <<total_for_staking, total_stake_shares, total_unstake_claims>>
    BY DEF nslp_remove_liquidity, stake_vars, claim_vars
  <1>3. /\ x \in Nat /\ b \in Nat /\ x * L <= V * b + V
    <2>1. valued \in Nat /\ nslp_shares_from_amount(n) \in Nat
      BY <1>1, ValuesNat
    <2>2. CASE all
      <3>1. x = valued /\ b = acc.nslp_shares
            /\ valued = amount_from_shares(acc.nslp_shares, V, L)
        BY <2>2 DEF amount_from_nslp_shares
      <3> HIDE DEF x, b, valued, V, L, all
      <3>2. L \in Nat \ {0}
        BY <1>1, <1>2, <3>1
      <3>3. valued * L <= acc.nslp_shares * V
        BY <1>1, <3>1, <3>2, WorthBounds
      <3>4. b * V = V * b /\ b * V \in Nat /\ x * L \in Nat
        BY <1>1, <2>1, <3>1, ProductNat
      <3> QED
        BY <1>1, <2>1, <3>1, <3>3, <3>4
    <2>3. CASE ~all
      <3>1. x = n /\ b = nslp_shares_from_amount(n)
            /\ nslp_shares_from_amount(n) = shares_from_amount(n, V, L)
        BY <2>3 DEF nslp_shares_from_amount
      <3> HIDE DEF x, b, V, L, all
      <3>2. L \in Nat \ {0}
        BY <1>1, <1>2, <2>1, <3>1
      <3>3. V \in Nat \ {0}
        <4>1. V # 0
          BY <1>2, <3>1, <3>2 DEF shares_from_amount
        <4> QED BY <1>1, <4>1
      <3>4. L * n < V * b + V
        BY <1>1, <3>1, <3>2, <3>3, SharesBounds
      <3>5. L * n = x * L /\ x * L \in Int /\ V * b \in Int
        BY <1>1, <2>1, <3>1
      <3> QED
        BY <1>1, <2>1, <3>1, <3>4, <3>5
    <2> QED
      BY <2>2, <2>3
  <1> HIDE DEF x, b
  <1>4. r \in Nat
    <2>1. L \in Nat \ {0}
      BY <1>1, <1>2, <1>3
    <2> QED
      BY <1>1, <1>3, <2>1, ProportionalNat DEF st_near_to_remove
  <1> HIDE DEF r
  <1> DEFINE worth_r == amount_from_shares(r, F, T)
             w == amount_from_shares(P, F, T)
             w2 == amount_from_shares(P - r, F, T)
  <1>5. /\ worth_r \in Nat /\ w \in Nat /\ w2 \in Nat
        /\ w <= (worth_r + w2) + 1
    <2>1. P - r \in Nat /\ r + (P - r) = P
      BY <1>1, <1>2, <1>4
    <2>2. worth_r \in Nat /\ w \in Nat /\ w2 \in Nat
      BY <1>1, <1>4, <2>1, AmountNat
    <2>3. CASE T = 0
      <3>1. w = 0
        BY <2>3 DEF amount_from_shares
      <3> HIDE DEF w, w2, worth_r
      <3> QED BY <2>2, <3>1
    <2>4. CASE T # 0
      <3>1. T \in Nat \ {0}
        BY <1>1, <2>4
      <3> DEFINE q == P - r
      <3>2. q \in Nat /\ r + q = P
        BY <2>1
      <3> HIDE DEF q, F, T, P
      <3>3. amount_from_shares(r + q, F, T)
              <= amount_from_shares(r, F, T) + amount_from_shares(q, F, T) + 1
        BY <1>1, <1>4, <3>1, <3>2, WorthAdds
      <3> QED
        BY <2>2, <3>2, <3>3 DEF q
    <2> QED
      BY <2>3, <2>4
  <1>6. near = x - worth_r /\ worth_r <= x
    BY <1>2 DEF amount_from_stake_shares
  <1> HIDE DEF near, amount
  <1>7. /\ accounts'[NSLP].available = A - near
        /\ accounts'[NSLP].stake_shares = P - r
        /\ accounts'[NSLP].nslp_shares = L - b
    <2>1. accounts'[NSLP] = [lp EXCEPT !.available = @ - near, !.stake_shares = @ - r,
                                       !.nslp_shares = @ - b]
      BY <1>2, UserAccount, AccountNames DEF TypeOK
    <2> QED
      BY <1>1, <2>1 DEF Account
  <1>8. V = A + w /\ V' = (A - near) + w2
    BY <1>2, <1>7, PoolValue
  <1>9. L' = L - b /\ ~unstaked
    BY <1>1, <1>2, <1>7
  <1>10. LiquidityValueStep <=>
          (L > 0 => (V' + (IF unstaked THEN amount_from_stake_shares(1) + 1
                           ELSE IF L' < L THEN 1 ELSE 0)) * L
                      + (IF L' < L THEN V ELSE 0) >= V * L')
    BY DEF LiquidityValueStep
  <1>11. PICK v \in Nat : v = V'
    BY <1>1
  <1> HIDE DEF w, w2, worth_r, V, L, A, unstaked, P
  <1>12. V <= (v + 1) + x
    BY <1>1, <1>2, <1>3, <1>5, <1>6, <1>8, <1>11
  <1>13. V * (L - b) <= (v + 1) * L + V
    BY <1>1, <1>3, <1>11, <1>12, RemovalLosses
  <1>14. L' < L
    BY <1>1, <1>2, <1>3, <1>9
  <1>15. LiquidityValueStep <=> (L > 0 => (v + 1) * L + V >= V * (L - b))
    BY <1>9, <1>10, <1>11, <1>14
  <1>16. V * (L - b) \in Int /\ (v + 1) * L + V \in Int
    BY <1>1, <1>3, <1>11
  <1> QED
    BY <1>13, <1>15, <1>16

(* distribute.rs:393. The pool pays none of the fees of the rewards. *)
LEMMA RewardsKeepWorth ==
  ASSUME TypeOK, TypeOK', AccountsAddUp, PriceAtLeastOne,
         NEW p \in promises, on_get_sp_total_balance(p)
  PROVE  WorthKept
  <1> DEFINE F == total_for_staking
             T == total_stake_shares
             P == accounts[NSLP].stake_shares
  <1>1. /\ T' >= T /\ accounts'[NSLP] = accounts[NSLP] /\ PriceMoves(FALSE)
    BY RewardTerms
  <1>2. /\ F \in Nat /\ T \in Nat /\ F' \in Nat /\ T' \in Nat /\ P \in Nat /\ P <= T
        /\ accounts[NSLP].available \in Nat
    BY SharesHeld, PoolValue DEF TypeOK
  <1>3. P <= T'
    BY <1>1, <1>2
  <1>4. amount_from_shares(P, F, T) <= amount_from_shares(P, F', T')
    <2>1. CASE T = 0
      <3>1. amount_from_shares(P, F', T') \in Nat
        BY <1>2, AmountNat
      <3> QED
        BY <2>1, <3>1 DEF amount_from_shares
    <2>2. CASE T # 0
      <3>1. F * T' <= F' * T
        <4>1. T > 0
          BY <1>2, <2>2
        <4>2. F * T' <= F' * T + 0
          BY <1>1, <4>1 DEF PriceMoves
        <4>3. F' * T \in Nat
          BY <1>2, ProductNat
        <4> QED
          BY <4>2, <4>3
      <3> HIDE DEF F, T, P
      <3> QED
        BY <1>2, <1>3, <3>1, HoldingGrows
    <2> QED
      BY <2>1, <2>2
  <1> DEFINE w == amount_from_shares(P, F, T)
  <1>5. PICK w2 \in Nat : w2 = amount_from_shares(P, F', T')
    BY <1>2, AmountNat
  <1>6. /\ total_pool_value = accounts[NSLP].available + w
        /\ total_pool_value' = accounts[NSLP].available + w2
        /\ w \in Nat /\ w <= w2
    BY <1>1, <1>2, <1>4, <1>5, AmountNat, PoolValue
  <1> HIDE DEF w
  <1>7. total_pool_value <= total_pool_value'
    BY <1>2, <1>6
  <1> QED
    BY <1>1, <1>7 DEF WorthKept

LEMMA LiquidityKeptByUser ==
  ASSUME TypeOK, TypeOK', AccountsAddUp, OnlyPoolHasAvailable, PriceAtLeastOne, UserStep
  PROVE  LiquidityValueStep
  <1> SUFFICES ASSUME NEW u \in Users,
                      \/ \E d \in Deposits : deposit_and_stake(u, d)
                      \/ \E a \in UnstakeAmounts : unstake(u, a)
                      \/ unstake_all(u)
                      \/ \E a \in WithdrawAmounts : withdraw(u, a)
                      \/ withdraw_unstaked(u)
                      \/ \E s \in SellAmounts : liquid_unstake(u, s)
                      \/ \E d \in LiquidityDeposits : nslp_add_liquidity(u, d)
                      \/ \E a \in RemoveAmounts : nslp_remove_liquidity(u, a)
               PROVE  LiquidityValueStep
    BY DEF UserStep
  <1>1. accounts[u].unstaked \in Nat
        /\ amount_from_stake_shares(accounts[u].stake_shares) \in Nat
    BY UserAccount, ValuesNat DEF Account
  <1>2. CASE \E d \in Deposits : deposit_and_stake(u, d)
    BY <1>2, StakeKeepsWorth, NoLoss
  <1>3. CASE \/ \E a \in UnstakeAmounts : unstake(u, a)
             \/ unstake_all(u)
    <2>1. PICK n \in Nat : unstake(u, n)
      BY <1>1, <1>3, Inputs DEF unstake_all
    <2> QED
      BY <2>1, UnstakeCosts
  <1>4. CASE \/ \E a \in WithdrawAmounts : withdraw(u, a)
             \/ withdraw_unstaked(u)
    <2>1. PICK n \in Nat : withdraw(u, n)
      BY <1>1, <1>4, Inputs DEF withdraw_unstaked
    <2>2. accounts'[NSLP] = accounts[NSLP]
      BY <2>1, AccountNames, UserAccount DEF withdraw, TypeOK
    <2>3. UNCHANGED <<total_for_staking, total_stake_shares>>
      BY <2>1, PriceKeptByPayments
    <2> QED
      BY <2>2, <2>3, PoolUntouched, NoLoss
  <1>5. CASE \E s \in SellAmounts : liquid_unstake(u, s)
    BY <1>5, SellKeepsWorth, NoLoss
  <1>6. CASE \E d \in LiquidityDeposits : nslp_add_liquidity(u, d)
    BY <1>6, AddKeepsWorth
  <1>7. CASE \E a \in RemoveAmounts : nslp_remove_liquidity(u, a)
    BY <1>7, RemoveCosts
  <1> QED
    BY <1>2, <1>3, <1>4, <1>5, <1>6, <1>7

LEMMA LiquidityKeptByNext ==
  ASSUME TypeOK, TypeOK', AccountsAddUp, OnlyPoolHasAvailable, PriceAtLeastOne,
         [Next]_vars
  PROVE  LiquidityValueStep
  <1>1. ASSUME UNCHANGED owed_vars PROVE LiquidityValueStep
    BY <1>1, PoolUntouched, NoLoss DEF owed_vars
  <1>2. CASE UserStep
    BY <1>2, LiquidityKeptByUser
  <1>3. CASE distribute_staking_clearing
    BY <1>3, ClearingKeepsWorth, NoLoss
  <1>4. CASE HeartbeatCall /\ ~distribute_staking_clearing
    BY <1>1, <1>4, HeartbeatOwes
  <1>5. CASE Callback
    <2>1. PICK p \in promises :
            \/ on_staking_pool_stake_maybe_deposit(p)
            \/ on_staking_pool_unstake(p)
            \/ on_retrieve_from_staking_pool(p)
            \/ on_get_sp_total_balance(p)
            \/ on_get_sp_total_balance_panics(p)
      BY <1>5 DEF Callback
    <2>2. CASE on_get_sp_total_balance(p)
      BY <2>2, RewardsKeepWorth, NoLoss
    <2>3. CASE ~on_get_sp_total_balance(p)
      BY <1>1, <2>1, <2>3, CallbackOwes
    <2> QED
      BY <2>2, <2>3
  <1>6. CASE Environment
    BY <1>1, <1>6, EnvironmentOwes
  <1>7. CASE UNCHANGED vars
    BY <1>1, <1>7 DEF vars, user_vars, stake_vars, claim_vars, owed_vars
  <1> QED
    BY <1>2, <1>3, <1>4, <1>5, <1>6, <1>7 DEF Next

(***************************************************************************)
(* LiquidityValueHolds: no step takes from who stays in the liquidity pool  *)
(* but the truncations of an unstake and of a removal. The pool owns part   *)
(* of the stNEAR, so it can lose to the price no more than the price falls, *)
(* and a clearing sale, where it is the one that sells, costs it nothing:   *)
(* it is paid the very truncation the price falls by.                       *)
(***************************************************************************)
THEOREM LiquidityKeepsItsValue == Spec => LiquidityValueHolds
  <1>1. /\ TypeOK /\ TypeOK' /\ AccountsAddUp /\ OnlyPoolHasAvailable
        /\ PriceAtLeastOne /\ [Next]_vars
        => [LiquidityValueStep]_vars
    BY LiquidityKeptByNext
  <1> QED
    BY <1>1, TypeCorrect, TotalsAreSums, NothingLeftAvailable, PriceNeverBelowOne, PTL
    DEF Spec, LiquidityValueHolds

-----------------------------------------------------------------------------
(***************************************************************************)
(* The refinement. NEAR in custody is what is owed (Solvent), so each step  *)
(* is told by what it does to what is owed, to the price and to the claims. *)
(***************************************************************************)
LEMMA HoldsWhatItOwes ==
  ASSUME Solvent, Solvent'
  PROVE  /\ recorded_holdings = total_available + total_for_staking + total_unstake_claims
         /\ recorded_holdings' = total_available' + total_for_staking' + total_unstake_claims'
  BY DEF Solvent, Promised!Backed

LEMMA AmountsOwed ==
  ASSUME TypeOK, TypeOK'
  PROVE  /\ total_available \in Nat /\ total_available' \in Nat
         /\ total_for_staking \in Nat /\ total_for_staking' \in Nat
         /\ total_stake_shares \in Nat /\ total_stake_shares' \in Nat
         /\ total_unstake_claims \in Nat /\ total_unstake_claims' \in Nat
         /\ epoch_height \in Nat
  BY DEF TypeOK

LEMMA PriceKeptIs ==
  ASSUME TypeOK, TypeOK'
  PROVE  /\ PriceMoves(FALSE) => Promised!PriceKept
         /\ PriceMoves(TRUE) => Promised!PriceKeptButOneShare
  <1> DEFINE x == total_for_staking * total_stake_shares'
             y == total_for_staking' * total_stake_shares
  <1>1. x \in Nat /\ y \in Nat /\ total_for_staking \in Nat
    BY AmountsOwed, ProductNat
  <1>2. ASSUME PriceMoves(FALSE) PROVE Promised!PriceKept
    <2>1. total_stake_shares > 0 => x <= y + 0
      BY <1>2 DEF PriceMoves
    <2>2. total_stake_shares > 0 => y >= x
      <3> HIDE DEF x, y
      <3> QED
        BY <1>1, <2>1
    <2> QED
      BY <2>2 DEF Promised!PriceKept
  <1>3. ASSUME PriceMoves(TRUE) PROVE Promised!PriceKeptButOneShare
    <2>1. total_stake_shares > 0 => x <= y + total_for_staking
      BY <1>3 DEF PriceMoves
    <2>2. total_stake_shares > 0 => y + total_for_staking >= x
      <3> HIDE DEF x, y
      <3> QED
        BY <1>1, <2>1
    <2> QED
      BY <2>2 DEF Promised!PriceKeptButOneShare
  <1> QED
    BY <1>2, <1>3

LEMMA ClaimsKeptIs ==
  ASSUME ClaimsKept
  PROVE  /\ UNCHANGED total_unstake_claims
         /\ UNCHANGED [u \in Users |-> accounts[u].unstaked]
         /\ UNCHANGED [u \in Users |-> accounts[u].unstaked_requested_unlock_epoch]
  BY DEF ClaimsKept

(* A deposit: d NEAR came in, n NEAR of it, or more, became liquid. *)
LEMMA IsDeposit ==
  ASSUME TypeOK, TypeOK', Solvent, Solvent', NEW d \in Nat, d > 0, NEW n \in Nat,
         total_available' = total_available + n,
         total_available' + total_for_staking' = total_available + total_for_staking + d,
         PriceMoves(n > 0), ClaimsKept, UNCHANGED epoch_height
  PROVE  Promised!Deposit
  <1>1. recorded_holdings' - recorded_holdings = d
        /\ recorded_holdings' > recorded_holdings
    BY HoldsWhatItOwes, AmountsOwed DEF ClaimsKept
  <1>2. total_available' >= total_available
        /\ total_available' + total_for_staking'
             = total_available + total_for_staking + (recorded_holdings' - recorded_holdings)
    BY <1>1, AmountsOwed
  <1>3. \/ Promised!PriceKept
        \/ total_available' > total_available /\ Promised!PriceKeptButOneShare
    <2>1. CASE n > 0
      <3>1. PriceMoves(TRUE)
        BY <2>1 DEF PriceMoves
      <3> QED
        BY <2>1, <3>1, PriceKeptIs, AmountsOwed
    <2>2. CASE n = 0
      <3>1. PriceMoves(FALSE)
        BY <2>2 DEF PriceMoves
      <3> QED
        BY <3>1, PriceKeptIs
    <2> QED
      BY <2>1, <2>2
  <1> QED
    BY <1>1, <1>2, <1>3, ClaimsKeptIs DEF Promised!Deposit

LEMMA IsClear ==
  ASSUME TypeOK, TypeOK', Solvent, Solvent', NEW n \in Nat, n > 0,
         total_available' = total_available + n,
         total_for_staking' = total_for_staking - n,
         total_stake_shares' <= total_stake_shares,
         PriceMoves(TRUE), ClaimsKept, UNCHANGED epoch_height
  PROVE  Promised!Clear
  <1>1. UNCHANGED recorded_holdings
    BY HoldsWhatItOwes, AmountsOwed DEF ClaimsKept
  <1>2. total_available' > total_available
        /\ total_available' + total_for_staking' = total_available + total_for_staking
    BY AmountsOwed
  <1> QED
    BY <1>1, <1>2, PriceKeptIs, ClaimsKeptIs DEF Promised!Clear

LEMMA IsPay ==
  ASSUME TypeOK, TypeOK', Solvent, Solvent', NEW n \in Nat,
         total_available' = total_available - n,
         UNCHANGED <<total_for_staking, total_stake_shares, epoch_height>>, ClaimsKept
  PROVE  Promised!Pay \/ UNCHANGED Promised!custody_vars
  <1>1. recorded_holdings' = recorded_holdings - n
    BY HoldsWhatItOwes, AmountsOwed DEF ClaimsKept
  <1>2. /\ recorded_holdings \in Nat /\ recorded_holdings' \in Nat
        /\ total_available \in Nat
    BY HoldsWhatItOwes, AmountsOwed
  <1>3. CASE n > 0
    <2>1. recorded_holdings' < recorded_holdings
          /\ total_available' + (recorded_holdings - recorded_holdings') = total_available
      BY <1>1, <1>2, <1>3
    <2> QED
      BY <2>1, ClaimsKeptIs DEF Promised!Pay
  <1>4. CASE n = 0
    <2>1. UNCHANGED recorded_holdings /\ UNCHANGED total_available
      BY <1>1, <1>2, <1>4
    <2> QED
      BY <2>1, ClaimsKeptIs DEF Promised!custody_vars
  <1> QED
    BY <1>3, <1>4

LEMMA IsReward ==
  ASSUME TypeOK, TypeOK', Solvent, Solvent', NEW r \in Nat,
         total_for_staking' = total_for_staking + r,
         total_stake_shares' >= total_stake_shares,
         r = 0 => total_stake_shares' = total_stake_shares,
         PriceMoves(FALSE), ClaimsKept,
         UNCHANGED <<total_available, epoch_height>>
  PROVE  Promised!Reward \/ UNCHANGED Promised!custody_vars
  <1>1. recorded_holdings' = recorded_holdings + r
    BY HoldsWhatItOwes, AmountsOwed DEF ClaimsKept
  <1>2. /\ recorded_holdings \in Nat /\ recorded_holdings' \in Nat
        /\ total_for_staking \in Nat
    BY HoldsWhatItOwes, AmountsOwed
  <1>3. CASE r > 0
    <2>1. recorded_holdings' > recorded_holdings
          /\ total_for_staking' = total_for_staking + (recorded_holdings' - recorded_holdings)
      BY <1>1, <1>2, <1>3
    <2> QED
      BY <2>1, ClaimsKeptIs, PriceKeptIs DEF Promised!Reward
  <1>4. CASE r = 0
    <2>1. UNCHANGED recorded_holdings /\ UNCHANGED total_for_staking
      BY <1>1, <1>2, <1>4
    <2> QED
      BY <1>4, <2>1, ClaimsKeptIs DEF Promised!custody_vars
  <1> QED
    BY <1>3, <1>4

(* A step that owes nobody more or less. *)
LEMMA IsInvisible ==
  ASSUME Solvent, Solvent', UNCHANGED owed_vars
  PROVE  /\ UNCHANGED epoch_height => UNCHANGED Promised!custody_vars
         /\ next_epoch => Promised!Tick
  <1>1. /\ UNCHANGED recorded_holdings
        /\ UNCHANGED <<accounts, total_available, total_for_staking, total_stake_shares,
                       total_unstake_claims>>
    BY HoldsWhatItOwes DEF owed_vars
  <1>2. next_epoch => epoch_height' = epoch_height + 1
    BY DEF next_epoch
  <1> QED
    BY <1>1, <1>2 DEF Promised!custody_vars, Promised!Tick

-----------------------------------------------------------------------------
LEMMA StakeIsDeposit ==
  ASSUME TypeOK, TypeOK', Solvent, Solvent', OnlyPoolHasAvailable, PriceAtLeastOne,
         NEW u \in Users, NEW d \in Deposits, deposit_and_stake(u, d)
  PROVE  Promised!Deposit
  <1>1. PICK n \in Nat :
          /\ d \in Nat /\ d > 0
          /\ total_available' = total_available + n
          /\ total_for_staking' = (total_for_staking + d) - n
          /\ PriceMoves(n > 0) /\ ClaimsKept /\ UNCHANGED epoch_height
    BY StakeTerms
  <1>2. total_available' + total_for_staking' = total_available + total_for_staking + d
    BY <1>1, AmountsOwed
  <1> QED
    BY <1>1, <1>2, IsDeposit

(* A user's other accounts, and everyone else's claims, are not written. *)
LEMMA ClaimsOfOthers ==
  ASSUME TypeOK, NEW u \in Users, UNCHANGED total_unstake_claims,
         accounts'[u].unstaked = accounts[u].unstaked,
         accounts'[u].unstaked_requested_unlock_epoch
           = accounts[u].unstaked_requested_unlock_epoch,
         \A x \in Users \ {u} : accounts'[x] = accounts[x]
  PROVE  ClaimsKept
  BY DEF ClaimsKept

(* nslp.rs:26. Liquidity is added one for one. *)
LEMMA AddLiquidityIsDeposit ==
  ASSUME TypeOK, TypeOK', Solvent, Solvent', OnlyPoolHasAvailable, PriceAtLeastOne,
         NEW u \in Users, NEW d \in LiquidityDeposits, nslp_add_liquidity(u, d)
  PROVE  Promised!Deposit
  <1> DEFINE acc == [accounts[u] EXCEPT !.available = @ + d]
             num_shares == nslp_shares_from_amount(d)
             lent == [acc EXCEPT !.available = @ - d, !.nslp_shares = @ + num_shares]
  <1>1. d \in Nat /\ total_available \in Nat
    BY Inputs DEF TypeOK
  <1>2. acc \in Account /\ acc.available = d
    BY <1>1, UserAccount DEF Account
  <1>3. take_from_available(u, d, acc.available) = d
    BY <1>1, <1>2, TakesAll
  <1>4. /\ num_shares > 0
        /\ \E lp : accounts' = [accounts EXCEPT ![u] = lent, ![NSLP] = lp]
        /\ total_available' = (total_available + d - d) + d
        /\ UNCHANGED <<total_stake_shares, stake_vars, claim_vars, epoch_height>>
    BY <1>3 DEF nslp_add_liquidity
  <1>5. UNCHANGED <<total_for_staking, total_stake_shares, total_unstake_claims,
                    epoch_height>>
    BY <1>4 DEF stake_vars, claim_vars
  <1>6. d > 0
    <2>1. d = 0 => num_shares = 0
      BY DEF nslp_shares_from_amount, shares_from_amount
    <2> HIDE DEF num_shares
    <2> QED
      BY <1>1, <1>4, <2>1
  <1>7. ClaimsKept
    <2>1. \A x \in Users : x \in Accounts /\ x # NSLP
      BY AccountNames
    <2>2. lent.unstaked = accounts[u].unstaked
          /\ lent.unstaked_requested_unlock_epoch
               = accounts[u].unstaked_requested_unlock_epoch
      BY UserAccount DEF Account
    <2> HIDE DEF lent
    <2>3. accounts'[u] = lent /\ \A x \in Users \ {u} : accounts'[x] = accounts[x]
      BY <1>4, <2>1 DEF TypeOK
    <2> QED
      BY <1>5, <2>2, <2>3, ClaimsOfOthers
  <1>8. PriceMoves(d > 0)
    <2>1. (d > 0) \in BOOLEAN
      OBVIOUS
    <2> QED
      BY <1>5, <2>1, SamePrice
  <1>9. total_available' = total_available + d
    BY <1>1, <1>4
  <1>10. total_available' + total_for_staking' = total_available + total_for_staking + d
    BY <1>1, <1>5, <1>9, AmountsOwed
  <1> QED
    BY <1>1, <1>5, <1>6, <1>7, <1>8, <1>9, <1>10, IsDeposit

(* nslp.rs:88. Who sells stNEAR is paid out of what is liquid. *)
LEMMA SellPays ==
  ASSUME TypeOK, TypeOK', Solvent, Solvent', OnlyPoolHasAvailable,
         NEW u \in Users, NEW s \in SellAmounts, liquid_unstake(u, s)
  PROVE  Promised!Pay \/ UNCHANGED Promised!custody_vars
  <1> DEFINE acc == accounts[u]
             lp == accounts[NSLP]
             to_sell == IF is_close(s, acc.stake_shares) THEN acc.stake_shares ELSE s
             nears_out == amount_from_stake_shares(to_sell)
             discount == swap_fee_basis_points(lp.available, nears_out)
             fee == apply_pct(discount, nears_out)
             near == nears_out - fee
             amount == take_from_available(u, near, acc.available + near)
             fee_in_st_near == stake_shares_from_amount(fee)
             treasury_cut == apply_pct(TreasurySwapCut, fee_in_st_near)
             operator_cut == apply_pct(OperatorSwapCut, fee_in_st_near)
             developers_cut == apply_pct(DevelopersSwapCut, fee_in_st_near)
             cuts == treasury_cut + operator_cut + developers_cut
             seller == [acc EXCEPT !.stake_shares = @ - to_sell,
                                   !.available = (acc.available + near) - amount]
             buyer == [lp EXCEPT !.available = @ - near,
                                 !.stake_shares = @ + st_near_to_liq_pool(to_sell, cuts)]
  <1>1. /\ acc \in Account /\ lp \in Account /\ acc.available = 0
        /\ lp.available \in Nat /\ to_sell \in Nat
    BY UserAccount, Inputs DEF Account
  <1>2. /\ discount < BasisPoints
        /\ total_available' = total_available - amount
        /\ accounts' = [accounts EXCEPT
             ![u] = seller, ![NSLP] = buyer,
             ![Treasury].stake_shares = @ + treasury_cut,
             ![Operator].stake_shares = @ + operator_cut,
             ![Developers].stake_shares = @ + developers_cut]
        /\ UNCHANGED <<claim_vars, epoch_height>>
    BY DEF liquid_unstake
  <1>3. near \in Nat
    <2>1. nears_out \in Nat
      <3> HIDE DEF to_sell
      <3> QED
        BY <1>1, ValuesNat
    <2> HIDE DEF nears_out
    <2>2. discount \in Nat /\ discount < BasisPoints
      BY <1>1, <1>2, <2>1, Constants, DiscountBounds DEF swap_fee_basis_points
    <2> HIDE DEF discount
    <2>3. discount <= BasisPoints
      BY <2>2, PoolMathAssumption
    <2>4. fee \in Nat /\ fee <= nears_out
      BY <2>1, <2>2, <2>3, ApplyPctNat, ApplyPctBound
    <2> QED
      BY <2>1, <2>4
  <1> HIDE DEF to_sell, near, treasury_cut, operator_cut, developers_cut, buyer
  <1>4. amount = near
    <2>1. acc.available + near = near
      BY <1>1, <1>3
    <2> QED
      BY <1>3, <2>1, TakesAll
  <1>5. seller.unstaked = acc.unstaked
        /\ seller.unstaked_requested_unlock_epoch = acc.unstaked_requested_unlock_epoch
    BY <1>1 DEF Account
  <1> HIDE DEF amount, seller
  <1>6. accounts'[u] = seller /\ \A x \in Users \ {u} : accounts'[x] = accounts[x]
    <2>1. u \in Accounts /\ Users \subseteq Accounts
          /\ Users \cap {NSLP, Operator, Treasury, Developers} = {}
      BY AccountNames, AccountsAssumption
    <2> QED
      BY <1>2, <2>1 DEF TypeOK
  <1>7. UNCHANGED total_unstake_claims /\ UNCHANGED epoch_height
    BY <1>2 DEF claim_vars
  <1>8. ClaimsKept
    BY <1>5, <1>6, <1>7, ClaimsOfOthers
  <1>9. total_available' = total_available - near
    BY <1>2, <1>4
  <1>10. UNCHANGED <<total_for_staking, total_stake_shares>>
    BY SellPrice
  <1> QED
    BY <1>3, <1>7, <1>8, <1>9, <1>10, IsPay

(* nslp.rs:140. Who removes liquidity is paid its NEAR out of what is liquid. *)
LEMMA RemoveLiquidityPays ==
  ASSUME TypeOK, TypeOK', Solvent, Solvent', OnlyPoolHasAvailable,
         NEW u \in Users, NEW n \in RemoveAmounts, nslp_remove_liquidity(u, n)
  PROVE  Promised!Pay \/ UNCHANGED Promised!custody_vars
  <1> DEFINE acc == accounts[u]
             lp == accounts[NSLP]
             valued == amount_from_nslp_shares(acc.nslp_shares)
             all == is_close(n, valued)
             to_remove == IF all THEN valued ELSE n
             to_burn == IF all THEN acc.nslp_shares ELSE nslp_shares_from_amount(n)
             st_near == st_near_to_remove(lp, to_burn)
             st_near_value == amount_from_stake_shares(st_near)
             near == to_remove - st_near_value
             amount == take_from_available(u, near, acc.available + near)
             left == [acc EXCEPT !.available = (acc.available + near) - amount,
                                 !.stake_shares = @ + st_near,
                                 !.nslp_shares = @ - to_burn]
             pool == [lp EXCEPT !.available = @ - near, !.stake_shares = @ - st_near,
                                !.nslp_shares = @ - to_burn]
  <1>1. /\ acc \in Account /\ lp \in Account /\ acc.available = 0
        /\ acc.nslp_shares \in Nat /\ lp.nslp_shares \in Nat /\ lp.stake_shares \in Nat
        /\ n \in Nat
    BY UserAccount, Inputs DEF Account
  <1>2. /\ to_burn > 0 /\ to_burn <= lp.nslp_shares
        /\ to_remove >= st_near_value
        /\ total_available' = total_available - amount
        /\ accounts' = [accounts EXCEPT ![u] = left, ![NSLP] = pool]
        /\ UNCHANGED <<total_stake_shares, stake_vars, claim_vars, epoch_height>>
    BY DEF nslp_remove_liquidity
  <1>3. near \in Nat
    <2>1. valued \in Nat /\ nslp_shares_from_amount(n) \in Nat
      BY <1>1, ValuesNat
    <2>2. to_remove \in Nat /\ to_burn \in Nat
      <3> HIDE DEF valued
      <3> QED
        BY <1>1, <2>1
    <2>3. st_near \in Nat
      <3> HIDE DEF to_burn
      <3>1. lp.nslp_shares \in Nat \ {0}
        BY <1>1, <1>2, <2>2
      <3> QED
        BY <1>1, <2>2, <3>1, ProportionalNat DEF st_near_to_remove
    <2> HIDE DEF st_near
    <2>4. st_near_value \in Nat
      BY <2>3, ValuesNat
    <2> HIDE DEF to_remove, st_near_value
    <2> QED
      BY <1>2, <2>2, <2>4
  <1> HIDE DEF near, to_burn, st_near, pool
  <1>4. amount = near
    <2>1. acc.available + near = near
      BY <1>1, <1>3
    <2> QED
      BY <1>3, <2>1, TakesAll
  <1>5. left.unstaked = acc.unstaked
        /\ left.unstaked_requested_unlock_epoch = acc.unstaked_requested_unlock_epoch
    BY <1>1 DEF Account
  <1> HIDE DEF amount, left
  <1>6. accounts'[u] = left /\ \A x \in Users \ {u} : accounts'[x] = accounts[x]
    <2>1. u \in Accounts /\ \A x \in Users : x \in Accounts /\ x # NSLP
      BY AccountNames
    <2> QED
      BY <1>2, <2>1 DEF TypeOK
  <1>7. UNCHANGED <<total_for_staking, total_stake_shares, total_unstake_claims,
                    epoch_height>>
    BY <1>2 DEF stake_vars, claim_vars
  <1>8. ClaimsKept
    BY <1>5, <1>6, <1>7, ClaimsOfOthers
  <1>9. total_available' = total_available - near
    BY <1>2, <1>4
  <1> QED
    BY <1>3, <1>7, <1>8, <1>9, IsPay

-----------------------------------------------------------------------------
(* staking.rs:21. A claim is paid in its time, and no more than was claimed. *)
LEMMA WithdrawIsWithdraw ==
  ASSUME TypeOK, TypeOK', Solvent, Solvent', OnlyPoolHasAvailable,
         NEW u \in Users, NEW n \in Nat, withdraw(u, n)
  PROVE  Promised!Withdraw(u) \/ UNCHANGED Promised!custody_vars
  <1> DEFINE acc == accounts[u]
             claim == [x \in Users |-> accounts[x].unstaked]
             unlock == [x \in Users |-> accounts[x].unstaked_requested_unlock_epoch]
             paid == [acc EXCEPT !.unstaked = @ - n, !.available = n - n]
  <1>1. /\ acc \in Account /\ acc.available + n = n /\ acc.unstaked \in Nat
        /\ accounts \in [Accounts -> Account] /\ Users \subseteq Accounts
    BY UserAccount, AccountNames DEF TypeOK, Account
  <1>2. take_from_available(u, n, acc.available + n) = n
    BY <1>1, TakesAll
  <1>3. /\ n <= acc.unstaked /\ epoch_height >= acc.unstaked_requested_unlock_epoch
        /\ accounts' = [accounts EXCEPT ![u] = paid]
        /\ total_unstake_claims' = total_unstake_claims - n
        /\ total_available' = (total_available + n) - n
        /\ UNCHANGED <<total_stake_shares, stake_vars, epoch_height>>
    BY <1>1, <1>2 DEF withdraw
  <1>4. UNCHANGED <<total_for_staking, total_stake_shares, epoch_height>>
    BY <1>3 DEF stake_vars
  <1>5. UNCHANGED total_available
    BY <1>3, AmountsOwed
  <1>6. recorded_holdings' = recorded_holdings - n
        /\ recorded_holdings \in Nat
    BY <1>3, <1>4, <1>5, HoldsWhatItOwes, AmountsOwed
  <1>7. n = recorded_holdings - recorded_holdings'
    BY <1>6
  <1>8. /\ paid.unstaked = acc.unstaked - n
        /\ paid.unstaked_requested_unlock_epoch = acc.unstaked_requested_unlock_epoch
    BY <1>1 DEF Account
  <1> HIDE DEF paid
  <1>9. /\ accounts'[u] = paid
        /\ \A x \in Users \ {u} : accounts'[x] = accounts[x]
    BY <1>1, <1>3
  <1>10. claim' = [claim EXCEPT ![u] = @ - n]
    BY <1>8, <1>9
  <1>11. UNCHANGED unlock
    BY <1>8, <1>9
  <1>12. CASE n > 0
    <2>1. recorded_holdings' < recorded_holdings
      BY <1>6, <1>12
    <2>2. claim'[u] >= 0 /\ epoch_height >= unlock[u]
      <3>1. claim'[u] = acc.unstaked - n /\ unlock[u] = acc.unstaked_requested_unlock_epoch
        BY <1>8, <1>9
      <3> QED
        BY <1>1, <1>3, <3>1
    <2>3. /\ claim' = [claim EXCEPT ![u] = @ - (recorded_holdings - recorded_holdings')]
          /\ total_unstake_claims' =
               total_unstake_claims - (recorded_holdings - recorded_holdings')
      BY <1>3, <1>7, <1>10
    <2> QED
      BY <1>4, <1>5, <1>11, <2>1, <2>2, <2>3 DEF Promised!Withdraw
  <1>13. CASE n = 0
    <2>1. UNCHANGED recorded_holdings /\ UNCHANGED total_unstake_claims
      BY <1>3, <1>6, <1>13, AmountsOwed
    <2>2. UNCHANGED claim
      <3>1. \A x \in Users : accounts'[x].unstaked = accounts[x].unstaked
        BY <1>1, <1>8, <1>9, <1>13
      <3> QED
        BY <3>1
    <2> QED
      BY <1>4, <1>5, <1>11, <2>1, <2>2 DEF Promised!custody_vars
  <1> QED
    BY <1>12, <1>13

LEMMA UnstakeIsUnstake ==
  ASSUME TypeOK, TypeOK', Solvent, Solvent', PriceAtLeastOne,
         NEW u \in Users, NEW n \in Nat, unstake(u, n)
  PROVE  Promised!Unstake(u)
  <1> DEFINE claim == [x \in Users |-> accounts[x].unstaked]
             unlock == [x \in Users |-> accounts[x].unstaked_requested_unlock_epoch]
  <1>1. PICK a \in Nat :
          /\ a > 0
          /\ UNCHANGED <<total_available, epoch_height>>
          /\ total_for_staking' = total_for_staking - a
          /\ total_stake_shares' < total_stake_shares
          /\ total_unstake_claims' = total_unstake_claims + a
          /\ accounts'[u].unstaked = accounts[u].unstaked + a
          /\ accounts'[u].unstaked_requested_unlock_epoch >= epoch_height + NumEpochsToUnlock
          /\ \A x \in Accounts \ {u} : accounts'[x] = accounts[x]
          /\ PriceMoves(TRUE)
    BY UnstakeTerms
  <1>2. a = total_for_staking - total_for_staking' /\ total_for_staking' < total_for_staking
    BY <1>1, AmountsOwed
  <1>3. UNCHANGED recorded_holdings
    BY <1>1, HoldsWhatItOwes, AmountsOwed
  <1>4. \A x \in Users \ {u} : accounts'[x] = accounts[x]
    BY <1>1, AccountNames
  <1>5. claim' = [claim EXCEPT ![u] = @ + a]
    BY <1>1, <1>4
  <1>6. /\ unlock'[u] >= epoch_height + NumEpochsToUnlock
        /\ unlock' = [unlock EXCEPT ![u] = unlock'[u]]
    BY <1>1, <1>4
  <1>7. /\ claim' = [claim EXCEPT ![u] = @ + (total_for_staking - total_for_staking')]
        /\ total_unstake_claims' =
             total_unstake_claims + (total_for_staking - total_for_staking')
    BY <1>1, <1>2, <1>5
  <1>8. Promised!PriceKeptButOneShare
    BY <1>1, PriceKeptIs
  <1> QED
    BY <1>1, <1>2, <1>3, <1>6, <1>7, <1>8 DEF Promised!Unstake

-----------------------------------------------------------------------------
LEMMA UserStepIsPromised ==
  ASSUME TypeOK, TypeOK', Solvent, Solvent', OnlyPoolHasAvailable, PriceAtLeastOne,
         UserStep
  PROVE  Promised!Next \/ UNCHANGED Promised!custody_vars
  <1> SUFFICES ASSUME NEW u \in Users,
                      \/ \E d \in Deposits : deposit_and_stake(u, d)
                      \/ \E a \in UnstakeAmounts : unstake(u, a)
                      \/ unstake_all(u)
                      \/ \E a \in WithdrawAmounts : withdraw(u, a)
                      \/ withdraw_unstaked(u)
                      \/ \E s \in SellAmounts : liquid_unstake(u, s)
                      \/ \E d \in LiquidityDeposits : nslp_add_liquidity(u, d)
                      \/ \E a \in RemoveAmounts : nslp_remove_liquidity(u, a)
               PROVE  Promised!Next \/ UNCHANGED Promised!custody_vars
    BY DEF UserStep
  <1>1. accounts[u].unstaked \in Nat
        /\ amount_from_stake_shares(accounts[u].stake_shares) \in Nat
    BY UserAccount, ValuesNat DEF Account
  <1>2. CASE \E d \in Deposits : deposit_and_stake(u, d)
    BY <1>2, StakeIsDeposit DEF Promised!Next
  <1>3. CASE \/ \E a \in UnstakeAmounts : unstake(u, a)
             \/ unstake_all(u)
    <2>1. PICK n \in Nat : unstake(u, n)
      BY <1>1, <1>3, Inputs DEF unstake_all
    <2>2. Promised!Unstake(u)
      BY <2>1, UnstakeIsUnstake
    <2> QED
      BY <2>2 DEF Promised!Next
  <1>4. CASE \/ \E a \in WithdrawAmounts : withdraw(u, a)
             \/ withdraw_unstaked(u)
    <2>1. PICK n \in Nat : withdraw(u, n)
      BY <1>1, <1>4, Inputs DEF withdraw_unstaked
    <2>2. Promised!Withdraw(u) \/ UNCHANGED Promised!custody_vars
      BY <2>1, WithdrawIsWithdraw
    <2> QED
      BY <2>2 DEF Promised!Next
  <1>5. CASE \E s \in SellAmounts : liquid_unstake(u, s)
    BY <1>5, SellPays DEF Promised!Next
  <1>6. CASE \E d \in LiquidityDeposits : nslp_add_liquidity(u, d)
    BY <1>6, AddLiquidityIsDeposit DEF Promised!Next
  <1>7. CASE \E a \in RemoveAmounts : nslp_remove_liquidity(u, a)
    BY <1>7, RemoveLiquidityPays DEF Promised!Next
  <1> QED
    BY <1>2, <1>3, <1>4, <1>5, <1>6, <1>7

LEMMA StepIsPromised ==
  ASSUME TypeOK, TypeOK', Solvent, Solvent', OnlyPoolHasAvailable, PriceAtLeastOne,
         [Next]_vars
  PROVE  Promised!Next \/ UNCHANGED Promised!custody_vars
  <1>1. ASSUME UNCHANGED owed_vars, next_epoch \/ UNCHANGED epoch_height
        PROVE  Promised!Next \/ UNCHANGED Promised!custody_vars
    BY <1>1, IsInvisible DEF Promised!Next
  <1>2. CASE UserStep
    BY <1>2, UserStepIsPromised
  <1>3. CASE distribute_staking_clearing
    <2>1. PICK n \in Nat :
            /\ n > 0
            /\ total_available' = total_available + n
            /\ total_for_staking' = total_for_staking - n
            /\ total_stake_shares' <= total_stake_shares
            /\ PriceMoves(TRUE) /\ ClaimsKept /\ UNCHANGED epoch_height
      BY <1>3, ClearingTerms
    <2>2. Promised!Clear
      BY <2>1, IsClear
    <2> QED
      BY <2>2 DEF Promised!Next
  <1>4. CASE HeartbeatCall /\ ~distribute_staking_clearing
    BY <1>1, <1>4, HeartbeatOwes
  <1>5. CASE Callback
    <2>1. PICK p \in promises :
            \/ on_staking_pool_stake_maybe_deposit(p)
            \/ on_staking_pool_unstake(p)
            \/ on_retrieve_from_staking_pool(p)
            \/ on_get_sp_total_balance(p)
            \/ on_get_sp_total_balance_panics(p)
      BY <1>5 DEF Callback
    <2>2. CASE on_get_sp_total_balance(p)
      <3>1. PICK r \in Nat :
              /\ total_for_staking' = total_for_staking + r
              /\ total_stake_shares' >= total_stake_shares
              /\ r = 0 => total_stake_shares' = total_stake_shares
              /\ UNCHANGED <<total_available, epoch_height>>
              /\ PriceMoves(FALSE) /\ ClaimsKept
        BY <2>2, RewardTerms
      <3>2. Promised!Reward \/ UNCHANGED Promised!custody_vars
        BY <3>1, IsReward
      <3> QED
        BY <3>2 DEF Promised!Next
    <2>3. CASE ~on_get_sp_total_balance(p)
      BY <1>1, <2>1, <2>3, CallbackOwes
    <2> QED
      BY <2>2, <2>3
  <1>6. CASE Environment
    BY <1>1, <1>6, EnvironmentOwes
  <1>7. CASE UNCHANGED vars
    BY <1>1, <1>7 DEF vars, user_vars, stake_vars, claim_vars, owed_vars
  <1> QED
    BY <1>2, <1>3, <1>4, <1>5, <1>6, <1>7 DEF Next

LEMMA InitIsPromised ==
  ASSUME Init
  PROVE  Promised!Init
  <1>1. promises = {}
    BY DEF Init
  <1>2. in_flight({"stake", "restake"}) = 0 /\ in_flight({"unstake"}) = 0
    BY <1>1, NoneCarried
  <1>3. recorded_holdings = 0
    BY <1>2 DEF Init, recorded_holdings
  <1>4. \A u \in Users : accounts[u] = EmptyAccount
    BY AccountNames DEF Init
  <1> QED
    BY <1>3, <1>4, Constants DEF Init, EmptyAccount, Promised!Init

(***************************************************************************)
(* The refinement: the contract, its heartbeat with whatever of it fails,   *)
(* and the staking pools do to the NEAR of their users only what Custody    *)
(* lets be done to it.                                                      *)
(***************************************************************************)
THEOREM CustodyIsImplemented == Spec => ImplementsCustody
  <1>1. Init => Promised!Init
    BY InitIsPromised
  <1>2. /\ TypeOK /\ TypeOK' /\ Solvent /\ Solvent'
        /\ OnlyPoolHasAvailable /\ PriceAtLeastOne
        /\ [Next]_vars
        => [Promised!Next]_(Promised!custody_vars)
    BY StepIsPromised
  <1> QED
    BY <1>1, <1>2, TypeCorrect, PoolIsSolvent, NothingLeftAvailable,
       PriceNeverBelowOne, PTL
    DEF Spec, ImplementsCustody, Promised!Spec
=============================================================================
