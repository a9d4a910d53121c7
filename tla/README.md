# The meta-pool in TLA+

A TLA+ model of the meta-pool liquid-staking contract (`src/metapool/`), model-checked with
TLC and, for what matters most, proved with TLAPS. Users give NEAR to the contract and get
stNEAR, a share of all the NEAR staked; the contract spreads that NEAR over many staking
pools, which are other contracts, by calls that are asynchronous, may fail, and are completed
by callbacks. What is hard is the bookkeeping in between.

Contents: [the system](#1-the-system) · [the plan](#2-the-plan) ·
[the modules](#3-the-modules-and-the-code) · [what is checked](#4-what-is-checked) ·
[fairness](#5-fairness-and-schedules) · [what is proved](#6-what-is-proved) ·
[where code and text disagree](#7-where-the-code-and-its-text-disagree) ·
[what is not modelled](#8-what-is-not-modelled)

## 1. The system

All methods of a NEAR contract run one at a time, to completion or to a panic that undoes
everything. A method that needs another contract schedules a promise; the callee runs in a
later block, its answer (or failure) is handed to a callback in a still later one, and any
other method may run in between. Money moves by receipts of its own: the deposit of a call
that failed, or what a withdrawal pays, reaches the contract before or after the callback.

| Component | State | Operations | What makes it correct |
|---|---|---|---|
| **User methods** (`lib.rs`, `internal.rs`, `account.rs`) | per account: NEAR available, stNEAR, NEAR unstaked and its unlock epoch, liquidity shares; the totals beside them | `deposit_and_stake`, `unstake`, `unstake_all`, `withdraw…`, `liquid_unstake`, `nslp_add_liquidity`, `nslp_remove_liquidity` | totals are the sums they stand for; no rounding in favour of who calls; claims covered, and paid from the reserve only |
| **Heartbeat** (`distribute.rs`, `internal.rs`) | orders to stake and unstake of the epoch, totals staked and waiting, the reserve, the contract's balance, `contract_busy` | `distribute_staking`, `distribute_unstaking`, `retrieve_funds_from_a_pool`, `distribute_rewards`, `end_of_epoch_clearing` and four callbacks | one call at a time; preventive records completed or undone exactly; the locks always released; every order served |
| **Staking pools as recorded** (`staking_pools.rs`) | per pool: weight, `busy_lock`, staked, unstaked, epoch of the last unstake, epoch of the last rewards | chosen by imbalance; waiting period of 4 epochs after an unstake | the records add up to the totals; NEAR that waits is not made to wait again |
| **Liquidity pool (NSLP)** (`lib.rs`, `internal.rs`) | an account of its own: NEAR, stNEAR, shares | swap with a discount curve, add, remove, internal clearing against stake orders | no provider loses to a swap, a clearing or another provider |
| **Arithmetic** (`utils.rs`, `internal.rs`) | none | proportions in 256 bits, shares at a price, basis points, closeness, the fee curve | truncation only, and in favour of the pool |
| **stNEAR token** (`fungible_token_standard.rs`, `internal.rs`) | the accounts' shares; transfer calls in flight | `ft_transfer`, `ft_transfer_call`, `ft_resolve_transfer` | shares conserved while transfers, users and heartbeat interleave; every call resolved |
| **Owner and operator** (`owner.rs`, `distribute.rs`) | the pool list, weights, fees, roles, the locks | add, remove, reweigh pools; manual stake and unstake; `set_busy`, `sp_busy`, `undo_end_of_epoch`, `sync_unstaked_balance`, `transfer_extra_balance` | administration during a call in flight must not tear the books, nor send a callback to another pool; every lock can be released |
| **META rewards** (`reward_meter.rs`, `account.rs`, `lib.rs`) | meters of each account, realized META, multipliers | realize, `harvest_meta` and its callback | META granted once is minted once, and put back when the mint fails |
| **META token** (`meta-token/`) | balances, minters, vesting, storage deposits | NEP-141, mint, vesting, NEP-145 | supply is what is held; locked META leaves only where the code says |
| **Validator loans** (`validator_loans.rs`) | none: the file is commented out | | |
| **Migrations, views, metadata, gas** | one-time copies, no state | | |

How they interact: users and heartbeat share every total and meet only in them; the heartbeat
talks to the pools by promises; the liquidity pool sells its stNEAR inside `internal_stake`
and `distribute_staking`; rewards move the price all others compute with; token transfers and
withdrawals are open while a heartbeat call is in flight. The operator's methods may meet all of
these at any moment. Every user method realizes META on its way; `harvest_meta` calls the META
token, the one other contract of this repository.

The behaviours that are hard to test, each at its line, are the `hazards` of `PROJECT.json`.
In short: preventive records and users' withdrawals between a call and its callback; failures
after records were made; a re-stake that swaps which NEAR backs which claim; amounts read again
in a callback; receipts of money out of order; a callback that panics and leaves the locks; a
waiting period restarted by a second unstake; delays promised from what is free now; truncations
repeated a thousand times; transfer calls whose receiver has moved on; a
second call started by hand beside the first; indexes that shift under a callback; a view's answer
applied late; META that is realized while it is being minted.

## 2. The plan

In this order; 1 to 12 are done.

1. `PoolMath`, `MetaPoolState`, `MetaPoolUsers`, `MetaPoolHeartbeat`, `MetaPool`: users,
   heartbeat, pools and receipts interleaved. The core.
2. `Custody`: what the contract promises, without pools, orders, locks or calls; `MetaPool`
   refines it.
3. `MetaPoolLive`, `MetaPoolPunctual` and `MetaPoolWaiting`: under fairness, under an operator who
   works every epoch, and what becomes of waiting periods without any schedule.
4. `MetaPoolTypeProofs`, `MetaPoolBookProofs`.
5. `StNear`: the token over the core.
6. `MetaPoolOperator`: the pool list, manual operations and overrides, `sync_unstaked_balance`
   over pools with books and rounding of their own.
7. `MetaToken`, the META token, and `MetaHarvest`, META rewards, which composes it with the core.
8. The invariants of the token, in `MetaHarvestProofs`.
9. `SumProofs`, and what it makes provable: `PoolsAddUp`, `AccountsAddUp`, `SupplyIsBalances`,
   `StakingFindsAPool`. `ReservePayable` and `CallbacksNeverPanic`.
10. `MetaPoolCustodyProofs`: the price of stNEAR, the value of a liquidity share, the refinement of
   `Custody`. `StNearProofs`: the same with transfers in between.
11. `MetaPoolOperatorProofs`: the invariants of `MetaPoolOperator`, where several calls are in flight
   at once. `MetaPoolWaitingProofs`: `WaitNotProlonged`.
12. `MetaMintedOnce`, in `MetaHarvestProofs`.
13. Left: a form of `ReservedInTime` that a proof could use, without ENABLED; `PoolMath` against
   reference definitions over bounded inputs; parameters that change between calls;
   `transfer_extra_balance_accumulated` with a property that says when it is safe.

## 3. The modules and the code

```
PoolMath ── MetaPoolState ─┬─ MetaPoolUsers ──────┬─ MetaPool ─┬─ MetaPoolPunctual
                           └─ MetaPoolHeartbeat ──┘     │      ├─ MetaPoolWaiting ── MetaPoolLive
                                             Custody ───┘      ├─ StNear
                                                               ├─ MetaPoolOperator
                                             MetaToken ────────┴─ MetaHarvest

MetaPoolTypeProofs ─┬─ MetaPoolBookProofs ─┬─ MetaPoolCustodyProofs ── StNearProofs (over StNear)
                    │                      ├─ MetaPoolWaitingProofs (over MetaPoolWaiting)
                    │                      └─ MetaHarvestProofs (over MetaHarvest and MetaToken)
                    └─ MetaPoolOperatorProofs (over MetaPoolOperator)
SumProofs ── MetaPoolBookProofs, MetaPoolOperatorProofs
```

An action is a method from its first assertion to the last account saved. A panic undoes a
method, so every `assert!`, and every subtraction of unsigned integers (the crate is built with
`overflow-checks = true`), is a guard. Names are those of the source. Amounts are `u128`
multiplied in `U256`: below the supply of NEAR nothing can overflow, so they are naturals.

* **PoolMath**: `utils.rs` and the fee curve of `internal.rs`. `BasisPoints` (10 000 in the
  code) and `OneMilliNear` are parameters.
* **MetaPoolState**: the struct `MetaPool`, its accounts and pool records as variables, and three
  variables that the contract does not store: `account_balance` (its native balance),
  `promises` (calls scheduled and not called back, with the pool's answer once there is one) and
  `incoming` (NEAR on its way to the contract), and the epoch. Helpers used by both halves: the
  price, the waiting period, the unstaking delay, the clearing sale. An account that was removed
  because it is empty is an account with the default fields, which is how the code reads it.
* **MetaPoolUsers**: one action per method that can take effect. `deposit` always panics
  (`lib.rs:331`). `stake`, `stake_all` and `withdraw_from_available` need NEAR *available* to a
  user, which `OnlyPoolHasAvailable` shows no user ever has; they are not actions. The
  `min_expected_near` of a liquid unstake only makes it panic. `LockupAccounts` are the users
  whose name ends with `.lockup.near`, to whom closeness does not apply.
* **MetaPoolHeartbeat**: the five methods and four callbacks, and the environment: a pool performs
  a call (`pool_performs`) or fails (`pool_fails`), which gives a stake's deposit back to the
  contract in a receipt; a withdrawal pays in a receipt; receipts arrive together
  (`transfer_arrives`), before or after the callback; epochs pass. `distribute_rewards`'s callback
  takes the pool's answer as a `#[callback]` argument and is two actions: entered, and not
  entered because the view failed, which panics before any lock is released. The choice among
  the pools is the code's: the first of those with the largest imbalance.
* **MetaPool** puts them together, with the type invariant and the safety properties.
* **Custody** has seven kinds of step (deposit, clear, pay, unstake, withdraw, reward, tick) over
  eight variables. The refinement mapping (`Promised` in `MetaPool`) maps NEAR in custody to
  what the contract's records say it holds: its balance less a stake that left, plus what is
  staked, waits, or is being unstaked. Every heartbeat call, failure and callback is a stutter.
* **MetaPoolPunctual** restricts the schedule (section 5) and keeps, as a history, how much was
  unstaked in each epoch. **MetaPoolWaiting** restricts nothing and keeps the epoch in which the
  latest call was sent. No guard reads either. **MetaPoolLive** adds fairness to it.
* **StNear** adds `transfers`, the transfer calls in flight, one per receipt id, and the token's
  methods. A plain transfer reads both accounts before it saves either, as the code does, so its
  assertion that they differ matters; a refund saves the receiver before it reads the sender.
* **MetaPoolOperator** adds the operator's methods to the core, and gives the pools books of their
  own (`held_at`): a pool may unstake a unit more or less than it was asked for, and fails a call
  for more than it has. `sent_to` remembers which account an open call went to, `by_hand` and
  `unmade` what unstaking by hand took out of the orders: both are kept by the model, to state what a
  callback should find. The operator is trusted and several of its methods check less than they
  rely on, so `OperatorCall` puts beside each the precaution its caller has to take:
  - a pool is removed only when no call or query in flight carries the index of a later pool
    (`no_later_index`); `remove_staking_pool` checks only the pool's own lock;
  - orders are rewritten (`undo_end_of_epoch`) only to drop those that a failed unstake by hand left
    behind (`only_unmade_orders`); rewritten after a clearing or before a manual unstake is
    completed, the same NEAR is in the reserve and ordered again;
  - `complete_manual_unstake` is called with what was unstaked; the method takes any amount the
    reserve covers;
  - a lock is released only when no call holds it (`free_of_calls`).

  The code enforces none of them. What holds in the run `operator`, and what is proved of
  `OperatorSpec`, holds with these precautions only. `unchecked_removal` is the first method without
  its own, and the run `removed` shows what then breaks; what breaks without the second is the last
  item of section 7.
  There is one assumption on the runtime: what one pool answers arrives in the order it answered
  (`no_answer_from`). Otherwise the answer to a synchronization, given before a retrieval and
  applied after it, records NEAR as unstaked that has left.
  What is called beside the heartbeat, and in which order, comes from an *agenda*, one of a small
  set of sequences; when each call of it happens is free.
* **MetaToken**: balances, the vesting record of an account, and transfer calls by receipt. Only
  `internal_transfer` looks at the record. A method of the owner is an action of the
  owner; who that is, is left out.
* **MetaHarvest** adds the meters to the core and the META token to both. The user's methods of
  `MetaPoolUsers` are used as they are, with what they do to META beside them. Percentages of
  multipliers are the code's: 10 is once. `withdraw`, the heartbeat and its callbacks touch no META
  but the estimate for stakers (`beside_meta`). Of the token only `mint` is seen by the meta-pool;
  `minting_fails` also stands for a minter that was removed or gas that did not last.

Comments starting with "Mutant of" mark operators no module uses: each is the mapped definition
after it with a plausible bug, and shows that a property notices.

## 4. What is checked

Amounts are small because only their order, their sums and their truncations matter; percentages are
tenths (`BasisPoints = 10`). All runs have (at least) three pools that stake, of weights 4, 3, 3:
`set_staking_pools` refuses a pool of half the weight or more, so three is the least there can be,
and three parts of 10 truncate differently. The thresholds of the code (10 NEAR to deposit, 1 to
stake, 10 to re-stake, 5000 to leave no remainder) keep their order where a run is about them, and
are set apart where both sides of one have to be reached.

| Run | States | Asks |
|---|---|---|
| `heartbeat` | 113 838 | do the books agree at every instant, whatever fails, is late or is overtaken, and is all that was ordered done in the end? |
| `users` | 596 956 | do users, liquidity providers, clearing and a contract locked for good ever cost anyone more than a truncation? |
| `punctual` | 728 281 | if the operator does its work, how long does NEAR that was unstaked stay out of the reserve? |
| `st_near` | 281 239 | do token transfers stay invisible to all that, and complete? |
| `operator` | 47 140 | which equations survive the operator's methods, with the precautions of section 3? |
| `token` | 310 320 | is META neither minted nor freed by transfer calls, vesting and accounts that leave? |
| `meta` | 350 448 | is META that was granted minted once, however many harvests are in flight? |

**heartbeat.** One user with up to 20 NEAR, in deposits of 10, unstakes all, any number of times,
and withdraws 5 or all, over three epochs, with a waiting period of two. The heartbeat is called by
anyone in any order, a call may fail again and again, and an epoch may end while one is open. Two
deposits are enough for a second order to arrive while the first is in flight, for a re-stake after
a retrieved or failed unstake and for opposite orders to be cleared. `MinRestakeAmount` is 4,
between what the pools of 40% and 30% come to hold of one deposit: one is re-staked, and to another,
which still waits, more is staked and unstaked again. `OneCallInFlight`, `CashBacked`,
`ClaimsBacked`, `OrdersMatchDelta` and `BalanceMatches` are the equations the simulation tests
assert between calls (`sim_contract_state.rs`), extended by what is in flight so that they hold in
every state. `CallbacksNeverPanic` says that no subtraction in a callback can underflow, which would
leave the locks taken; `PoolsAddUp` that the pools' records are the totals; `ReservePayable` that a
claim the reserve covers is covered at any instant by the recorded balance too, and by the native
balance together with the NEAR on its way to it: a payment may have to wait for a receipt, never for
more. `WaitNotProlonged`: the epoch from which NEAR waits in a pool, while it waits, is moved only
by as many epochs as passed between the call to unstake more and its callback. The case of the TODO
at `internal.rs:530` is reached: without the term for the open call the property is violated.
`BusyReleased`, `StakeOrdersServed` and `UnstakeOrdersServed` are about the end, under the fairness
of section 5; no view is asked here, as one that fails keeps the locks (section 7).

**users.** One user stakes, unstakes all, sells 8 stNEAR, provides and removes liquidity, and
withdraws all, with a reward of 10 (so that the price leaves 1), fees of 3/10 and 2/10, and a
discount between 2/10 and 5/10. The view of a pool's balance may fail; nothing releases the contract
then, and users go on. One user suffices: the liquidity pool, the operator, the treasury and the
developers are the other parties, and their shares are not in step with the user's. `AccountsAddUp`
(totals are sums), `Solvent` (owed is held), `PriceHolds` (the price falls by at most the truncation
of one share, and only in the two steps that burn), `LiquidityValueHolds` (what a liquidity share is
worth falls only in a delayed unstake, by less than one stNEAR's worth and a unit over the whole
pool, and in a removal, by one share and a unit: nothing a swap, a clearing, a reward or another
provider's deposit does), `OnlyPoolHasAvailable`, `StakingFindsAPool` (if enough waits to be staked,
some pool requires it; this needs `MinStakeAmount` of at least 3, the most three truncations can
hide, where the code has 1 NEAR in yoctoNEAR), `ReservePayable`, now with withdrawals from a
contract that is locked, and `ImplementsCustody`, the refinement.

**punctual.** One user with 20 NEAR, who unstakes 5 or all, in any epoch; a waiting period of two
epochs, so that pools that unstaked in one epoch are blocked in the next; six epochs; every
heartbeat call done every epoch, retrieving before unstaking, no failures. `ReservedInTime`: of what
was unstaked, what is not in the reserve yet was asked for in the last two waiting periods, which is
what the code says of a claim (`internal.rs:186`). Waits beyond one period occur: with one period in
place of two TLC finds it violated at these bounds, as orders find their pools blocked. That pools
are not put in waiting again and again is what its mutant breaks. It is a statement about the sum of
all claims. It says nothing of *one* claim: who pays first takes from the reserve what was unstaked
for another, and a claim whose epoch has come may find the reserve drained by one made later. How
long that may go on has no bound here; with other users unstaking all the time there is none.

**st_near.** Two holders, two transfer calls in flight, a receiver that uses half, sends back more
than it got, or fails, unstaking a part, about all (a tolerance of 1) or all in between; a pool that
reports a unit less than is recorded, which corrects its record and not the totals, as the code
does; and a view that fails and locks the contract for good.
`AccountsAddUp` and `ImplementsCustody` again, over the larger system; `StNearTypeOK`, whose
content is that no refund takes more than there is; `TransfersResolved`.

**operator.** Three pools that stake and a fourth without weight, a fifth account to be added; one
deposit of 10 and seven agendas: two calls by hand at once; a removal while a call is in flight; a
pool staked and unstaked by hand, synchronized, ordered back and removed; a failed manual unstake
and the rewriting of orders; a removal, an addition and new weights; an override of the lock and a
call. One unstake may be rounded, by a unit, either way; unstakes and views may fail.
`OneCallPerPool` is what is left of `OneCallInFlight` when staking by hand may start beside any
call. `CashStaysBacked`, `ClaimsStayBacked`, `BalanceStillMatches` are the books again with several
calls in flight; a rounding up is all that is ever reserved beyond what is owed.
`RecordsMatchPools`: what is recorded of a pool, staked and unstaked together, is what the pool
holds. All of these rest on the precautions of section 3. `OnlyViewsPanic`: with the re-stake
switched off (`MinRestakeAmount`), no callback panics; section 7 shows what happens with it.
`LocksRecovered`: whatever lock a failed view leaves, `set_busy` and `sp_busy` release it.

**token.** Two holders (symmetric), a minter, two transfer calls in flight, two schedules (half of
the amount locked at time 1 in one, all of it until then in the other), transfers of 2 and 4, a
receiver who sends back more than it got or fails, owners who end a vesting, accounts that unregister
by force and come back. `SupplyIsBalances`, and `LockedKept`: what is locked leaves its holder only
by a refund, with its account, or burned by the owner. `TokenTypeOK` says besides types that
`vested_count` is the number of vesting records; `internal_transfer` looks for a record only when it
is positive, so counting one too few would free what is locked.

**meta.** One user who stakes, adds liquidity, sells 8 stNEAR and removes liquidity, rewards of 10,
two settings of the multipliers (the higher one damped, as its maximum is reached by the first
sale), two harvests in flight (symmetric), each of which may fail. The bound is on META granted
(`MaxMeta`), low enough to end and high enough for two harvests of something to overlap and for a
harvest to fail after more was realized. `MetaMintedOnce`: granted META is realized, being minted or
minted, in one place; what leaves these places is the odd unit of a halved cut, and what
`after_minting_meta` overwrites (section 7).

Deadlock checking is off in all of them: the bounds `MaxNear`, `MaxEpoch` and `MaxRewards` stop
the environment, and a pool of users who have nothing more to do is a legal end. The initial
epoch is one waiting period after 0 and the initial balance is what storage requires: an old
chain and a funded contract, as deployed.

## 5. Fairness and schedules

`MetaPoolLive` assumes what the runtime and the operator give and nothing of users:

* `WF` of `Callback`, of a pool answering and of `transfer_arrives`: the runtime executes every
  receipt it accepted.
* `SF` of *some call is performed*: a pool that is called again and again does not fail for
  ever. Without it an order cannot be promised to be served.
* `SF` of `distribute_staking` and `distribute_unstaking`: the operator's cron calls them again and
  again. Strong, because the contract is busy with other calls again and again, and the operator
  repeats until it finds it free. Nothing is assumed of the other heartbeat methods: these
  properties do not need them.
* `WF` of `next_epoch`: time passes, up to the bound.

`StNear` assumes weak fairness of a receiver's answer (gas bounds what it does) and of the
resolution, and nothing of the heartbeat.

`MetaPoolOperator` assumes weak fairness of the callback of, and of the answer to, the call of each
pool on its own (the runtime executes receipts of different accounts independently; one fairness
for all would let a loop of synchronizations starve a pool), of synchronizations once sent, and of
an operator that releases a lock no call holds (`release_by_hand`).

`MetaPoolPunctual` is a restriction instead: an epoch ends only when no heartbeat call is enabled
and nothing is in flight, and, if `RetrieveFirst`, no unstaking starts while some pool has NEAR to
retrieve. The methods are open to anyone and the documentation does not say which of the two comes
first, so `RetrieveFirst` is a precaution of whoever runs the heartbeat, which a caller who is not
the operator can defeat. It matters: the run `retrieved_late` is the same schedule without it, and
finds that `ReservedInTime` fails (section 7).

`MetaPoolWaiting` has no schedule and no fairness of its own.

## 6. What is proved

For every finite set of users, every list of pools and weights, every fee, threshold and amount,
with any number of calls, failures and epochs; the assumptions are those the modules state of their
constants (`AccountsAssumption`, `ParametersAssumption`, `InputsAssumption`,
`EnvironmentAssumption`, `PoolMathAssumption`, `TransfersAssumption`, `TokenAssumption`,
`OperatorAssumption`, `MetaAssumption`): amounts are naturals, the pools of
the list are different, the special accounts are different from each other and from the users, the
discount is at most 100%. `RewardFeesAssumption` says that the two fees on rewards are together at
most 100%; the code keeps both together below a tenth (`lib.rs:452-457`).

| Theorem | Module | States |
|---|---|---|
| `TypeCorrect` | `MetaPoolTypeProofs` | `Spec => []TypeOK`: no total or account goes below zero |
| `NothingLeftAvailable` | `MetaPoolBookProofs` | `Spec => []OnlyPoolHasAvailable` |
| `TotalsAreSums` | `MetaPoolBookProofs` | `Spec => []AccountsAddUp`: the totals are sums over all accounts |
| `CallsExcludeEachOther` | `MetaPoolBookProofs` | `Spec => []OneCallInFlight` |
| `BooksKept` | `MetaPoolBookProofs` | `Spec => []Books`, the inductive invariant |
| `CashIsBacked`, `ClaimsAreBacked`, `OrdersAreTheDelta`, `BalancesMatch` | `MetaPoolBookProofs` | the four equations of the books |
| `PoolIsSolvent` | `MetaPoolBookProofs` | `Spec => []Solvent`: what is owed is what is held |
| `ReserveIsPayable` | `MetaPoolBookProofs` | `Spec => []ReservePayable` |
| `CallsStayCovered` | `MetaPoolBookProofs` | `Spec => []CallsCovered`: what a callback subtracts is still there |
| `CallbacksComplete` | `MetaPoolBookProofs` | `Spec => []CallbacksNeverPanic`, if no view fails |
| `StakeIsCounted` | `MetaPoolBookProofs` | `Spec => []PoolsHoldNoMore`, whatever pools report |
| `TotalsAreInPools` | `MetaPoolBookProofs` | `Spec => []PoolsAddUp`, if no pool reports less than its record |
| `SomePoolRequiresStake` | `MetaPoolBookProofs` | `Spec => []StakingFindsAPool`, for weights of 100% together |
| `PriceNeverBelowOne` | `MetaPoolCustodyProofs` | `Spec => []PriceAtLeastOne` |
| `StNearKeepsItsPrice` | `MetaPoolCustodyProofs` | `Spec => PriceHolds` |
| `LiquidityKeepsItsValue` | `MetaPoolCustodyProofs` | `Spec => LiquidityValueHolds` |
| `CustodyIsImplemented` | `MetaPoolCustodyProofs` | `Spec => ImplementsCustody`, the refinement |
| `TransfersCorrect` | `StNearProofs` | `StNearSpec => []StNearTypeOK` |
| `TransfersKeepTotals` | `StNearProofs` | `StNearSpec => []AccountsAddUp` |
| `TransfersAreNotCustody` | `StNearProofs` | `StNearSpec => ImplementsCustody` |
| `WaitsAreKept` | `MetaPoolWaitingProofs` | `WaitingSpec => WaitNotProlonged`, under no schedule |
| `PlacedAlways` | `MetaPoolOperatorProofs` | `OperatorSpec => []Placed`, the inductive invariant |
| `OperatorTypesKept` | `MetaPoolOperatorProofs` | `OperatorSpec => []OperatorTypeOK` |
| `PoolsCalledOnce` | `MetaPoolOperatorProofs` | `OperatorSpec => []OneCallPerPool` |
| `CashStays`, `BalanceStaysMatched`, `ClaimsStayMet` | `MetaPoolOperatorProofs` | `CashStaysBacked`, `BalanceStillMatches`, `ClaimsStayBacked`: the books, with any number of calls |
| `RecordsStayTrue` | `MetaPoolOperatorProofs` | `OperatorSpec => []RecordsMatchPools` |
| `OnlyViewsCanPanic` | `MetaPoolOperatorProofs` | `OperatorSpec => [](rounded = 0 => OnlyViewsPanic)` |
| `TokenTypeCorrect` | `MetaHarvestProofs` | `TokenSpec => []TokenTypeOK` |
| `LockedStays` | `MetaHarvestProofs` | `TokenSpec => LockedKept` |
| `SupplyIsTheSum` | `MetaHarvestProofs` | `TokenSpec => []SupplyIsBalances` |
| `MintedOnce` | `MetaHarvestProofs` | `MetaSpec => MetaMintedOnce` |
| `HarvestsKeepTheToken` | `MetaHarvestProofs` | `MetaSpec => [](TokenTypeOK /\ SupplyIsBalances)` |

Four theorems have a hypothesis on the environment or the configuration beside those.
`CallbacksComplete` needs that the view a rewards call makes does not fail (`"rewards" \notin
FailingCalls`): if it does the callback is not entered and the locks stay, which is the first half
of section 7. `TotalsAreInPools` needs that a pool reports at least what is recorded of it
(`RewardReplies \subseteq Nat`): the code corrects the pool's record when it reports less, and not
the totals. `SomePoolRequiresStake` needs weights that add up to 100%, which `set_staking_pools`
checks (`owner.rs:110-127`), and one unit of the minimum stake per pool, as each pool's part of the
total is truncated by less than a unit. `OnlyViewsCanPanic` speaks of the states before a pool has
unstaked a unit more or less than it was asked for; after that it is false, which is the first item
of section 7. The theorems about `OperatorSpec` hold with the precautions of `OperatorCall` (section
3).

*Types.* `TypeOK` is inductive by itself, because every subtraction is guarded. What is work is
arithmetic: a proportion of a natural is a natural, a percentage of at most 100% takes at most all
(the first lemmas of `MetaPoolTypeProofs`), so a fee never exceeds the amount it is taken from; the
sale of a clearing never exceeds the orders. Each user method is shown to be a `Balanced` step: it
moves amounts between what is available, the stake orders, the reserve and the unstake orders, and
everything else follows from these four. The lemma is used twice, for the types and for the books.

*One call.* `OneCallInFlight` says that at most one promise is open and that both locks are held
while one is. It is inductive beside `TypeOK`, and it is what makes the books provable: what the
books hold for the calls in flight is the amount of that call, or nothing.

*Books.* The four equations are not inductive: the callback of a retrieval reads the amount from
the pool's record and subtracts it, saturating, from a total. If the record had changed, or the
total were smaller, the reserve would be credited with NEAR that was not taken from anywhere. So
`Books` adds `RetrievesAll` (the pool a retrieval was sent to still has the amount it was sent
for; the lock keeps everyone else out) and `UnstakedAddsUp` (what waits in the pools is the sum of their
records, so that the subtraction never saturates). Then there is a lemma per action, and `Solvent`
follows by adding up the equations. `ReservePayable` is read from the books too: the reserve is
a part of the claims by one, of the recorded balance by another, of the native one by the third.

*Sums.* A sum is a fold over a finite set, and what a fold computes would take an induction.
`SumProofs` does it once, without a predicate to instantiate: the subsets of which something holds
are a *set* of subsets, and if a set has the empty one, and any that it has with an element less,
then it has all (`SubsetInduction`, from the size of a smallest exception; `FoldDefined` shows on
the way that the fold is well defined). What the other modules cite is that a sum of naturals is a
natural and bounds each term, that changing up to five terms changes the sum by the differences, and
that terms with a bound each have one together (`SumBound`).

*Callbacks.* `CallsCovered` says, of each call in flight, that the total and the pool's record still
hold what its callback will subtract. Users may meanwhile order and withdraw; they do not write a
pool's record or what is staked. It is inductive beside `TypeOK` and `OneCallInFlight`, and with
`Books`, which bounds what waits in one pool by what waits in all, no callback underflows.

*Pools.* `not_in_pools` is the difference between what the totals count as staked and what the
records say, adjusted for the call in flight. Every step leaves it alone, but a report below the
record, which raises it (`StakedStep`). So it is never negative (`StakeIsCounted`) and is 0 if no
such report comes (`TotalsAreInPools`). From the first follows `StakingFindsAPool`: were every pool
at its share or over, the shares, truncated by less than a unit each, would together leave less to
stake than the minimum (`SumBound`). The first of the largest imbalances exists because a finite set
of naturals has a largest element (`FirstLargest`).

*Totals.* A method writes one user's account and at most those of the liquidity pool, the treasury, the
operator and the developers. `UserTotals` and `FeeTotals` turn the changes of these into the change of
the sums; for each method there is a lemma that what it adds to the accounts it adds to the totals.

*Price.* With F the NEAR behind stNEAR and T the shares, a step is told by `PriceMoves`: F·T' ≤
F'·T, or F·T' ≤ F'·T + F where a truncated number of shares is burned. At a price below one a
clearing sale could burn shares that are worth nothing and move no NEAR, so `PriceAtLeastOne` is
proved along: whatever a deposit, an unstake, a sale or a reward adds or takes, it leaves T ≤ F.
`PriceHolds` is then the same lemma per action, read as an action property.

*Liquidity.* The pool's value is its NEAR plus its stNEAR at the price. Its stNEAR is a part of all there
is (`AccountsAddUp`), so the truncation of an unstake takes from it less than one share's worth,
rounded (`UnstakeCosts`). A clearing sale is different: it lowers the price by a truncation as well, but
the pool is who burned too few shares, and what it keeps pays for what the price takes from it
(`ClearingKeepsWorth`). In a swap the cuts are at most a part of the fee, and
the fee stays (`SellKeepsWorth`). Who adds liquidity gets truncated shares, and who removes it
truncated NEAR and stNEAR; both fall to those who stay, but the share a removal may burn too few.

*Refinement.* `held` is a sum of the contract's records, and `Solvent`, in both states of a step,
replaces it by what is owed; then a heartbeat call, its answer or its callback changes nothing that
is owed, and is a stutter, whichever equations it goes through inside. What is left is one lemma per
user method, one for the clearing and one for rewards, each of which names the `Custody` step. The
price part of each is `PriceMoves`, which needs `PriceAtLeastOne` to be kept; that a withdrawal is
not early is the method's assertion, and that a claim is not promised early a bound on the delay.

*Transfers.* Whatever `TransferStep` does to the contract is `Moved`: n shares of one holder become
another's. A call in flight is between two different accounts (`TransfersTyped`), for otherwise the
refund, which writes one account after the other, would not move but make shares. The refund is bounded
by what the receiver has when the callback runs. `Moved` keeps each part of the invariant of
the core (`StNearInv`), changes no sum and maps to a stutter of `Custody`. The lemmas about
`Next` are used as they are: they say what one step does, not what a behaviour of `Spec` does.

*Nothing available.* `OnlyPoolHasAvailable` is inductive beside `TypeOK`. Each user method adds an
amount to what its caller has available and takes it again; `take_from_available` may take more
than it was asked (it leaves no remainder below a threshold), and what the lemma says of it is that it
takes all when all is asked for. The other accounts only change by the fee cuts, the clearing and
the sale, which do not touch what is available.

*The META token.* The set of accounts, of records and of receipts is any finite set and any times.
`TokenTypeOK` carries `vested_count = Cardinality(DOMAIN vested)`, which needs the cardinality of a
set with one element added or removed for minting, terminating and the transfer that ends a record,
and is what makes the shortcut `vested_count > 0` sound. `LockedKept` is an action property proved
from it: one lemma for `internal_transfer`, which compares what is left with what is locked, one for
each action that takes from a balance otherwise. What is locked is a natural because a schedule
whose end is not after its start is over before the division (`LockedNat`). `SupplyIsBalances` goes
with `CallsAreBetweenTwo`, that a transfer call is between two accounts, for the same reason as for
stNEAR; each action changes one balance and the supply, or two balances.

*The operator.* A state of `MetaPoolOperator` has a call per pool, indexes that move and a list that
grows and shrinks. `Placed` says of each call that its pool is in the list, locked, at the index the
call carries, and that the pool's record still has what the call asks for. `EveryMove` reduces the
steps to nine moves (a call sent, called back or answered; a pool added or removed; NEAR unstaked by
hand ordered back, orders rewritten; a synchronization; and what leaves all this alone), which tell
what happens to the list, the calls and eight amounts of the books, and each part of the invariant
is then kept by each move, not by each of thirty actions. A removal is the move that needs an
argument: the pools behind it move down one place, and it is the operator's precaution that there is
no call or query for one of those.

*Sums over calls.* The books of several calls are sums over sets of calls. `Amounts` gives what a
move adds to each of the four sums (staking, unstaking, paid back, deposited) and to what was
unstaked by hand; the cash, the balance and the orders follow by adding up (`FlowKeepsBooks`).

*Claims and rounding.* A retrieval adds to the reserve what the pool held, and takes from what waits
only what is there. That this never reserves more than was unstaked is not visible in the totals.
The invariant `Claims` therefore keeps, existentially, for each pool a natural w of what was
unstaked there and not yet reserved: it covers what the pool holds, and the w together are within
`rounded` of what waits and is being unstaked. Each move says how w changes at the one pool it is
of.

*Records.* A pool's books, staked and unstaked together, are its record, but for a deposit taken or a
retrieval paid whose callback is to come. Rounding moves a unit between the two parts of both, and a
late answer to a synchronization moves the same between the parts of the record; that answers are taken
in the order given is what makes them true when taken (`RepliesTrue`).

*Panics.* While nothing was rounded the records are what pools hold part by part, and the totals their
sums (`Totals`, again with a witness per pool: what is recorded unstaked, and what is
recorded staked and not being unstaked). So a total has what any callback takes from it.

*Waiting.* A callback sets the epoch of its pool anew, whatever the pool holds unstaked. The
invariant relates it to the call: an unstaking under way was sent in `called_in` either when its
pool's waiting period was over or in the epoch the wait began (`SentInTime`), and no pool's epoch is
ahead of now (`NoneAhead`). It is the locks that keep it: until the callback no other call changes
the pool's epoch, and there is no other call (`OneCallInFlight`), while epochs may pass. So a pool
that still waits when its callback comes is one whose wait began in `called_in`. Every step is first
shown to be one of four (`WaitingStep`): a call is sent, no call is sent and no pool's epoch moves,
an epoch ends, a call is completed.

*META.* That nothing is minted twice is about four places META may be in: granted, realized, being
minted, minted. `Granted` is what a step grants beyond what it adds to the accounts, which is
nothing, or the odd unit of a sale; the sum over all accounts of a massive realization is the one
place that needs the sum of two functions (`SumOfBoth`). A harvest, its minting, its failure and its
callback each change one harvest (`HarvestIsSaid`), and the callback of a failure overwrites one
account, by what `overwritten` says. It is inductive with the types alone (`RewardsTyped`, in which
a meter may be negative): that what a harvest is to mint is a natural is what they say of it.
`PoolIsUndisturbed` (`MetaSpec => Spec`) carries what is proved of the pool over to it, and the
lemmas on `mint` what is proved of the token (`HarvestsKeepTheToken`), since a harvester is an
account that may hold META.

Only model-checked: `ReservedInTime` of `MetaPoolPunctual`, whose
schedule lets an epoch end when no call is ENABLED any more, from which nothing can be proved here;
`OnlyViewsPanic` in the runs whose pools round; the violations of section 7. So are the
liveness properties: `BusyReleased`, `StakeOrdersServed`, `UnstakeOrdersServed`,
`TransfersResolved`, `LocksRecovered`.

## 7. Where the code and its text disagree

Five runs check a sentence of the repository and find a behaviour that contradicts it.

* `synced` / `OnlyViewsPanic`. *"Busy locks must be saved false in the state, this method SHOULD
  NOT PANIC"* (`distribute.rs:155`). A pool unstakes a unit more than it was asked for;
  `sync_unstaked_balance` corrects the pool's record, and not `total_unstaked_and_waiting`, which
  is what was asked. If then all that the pool has unstaked is re-staked, and no other pool has
  NEAR waiting, the callback subtracts from the total more than it is
  (`distribute.rs:176`), panics, and leaves both locks taken after the pool has staked.
  A retrieval subtracts saturating and does not panic.
* `view_fails` / `BusyReleased`. *"Busy locks must be saved false in the state, this method SHOULD
  NOT PANIC"* (`distribute.rs:653`). `distribute_rewards` locks, its callback has a `#[callback]`
  argument, and when the view fails the callback is not entered: the contract stays busy until
  the operator overrides it. `distribute.rs:504` warns of exactly this.
* `four_epochs` / `ClaimsInTime`. *"…will be available for withdrawal in four epochs"*
  (`lib.rs:391`). The delay compares one request with what is free now, not with the orders already
  waiting; two requests of which each fits are both promised the short delay.
* `retrieved_late` / `ReservedInTime`. *"The user has a claim to this amount, 4-8 epochs form now"*
  (`internal.rs:186`), and a pool is asked to unstake *"if has not unstaked balance waiting for
  withdrawal, or wait started in this same epoch (no harm in unstaking more)"* (`internal.rs:529`).
  The condition asks whether the waiting period ended, and it also has when the NEAR was not
  retrieved yet. The callback restarts the wait for all of it (`distribute.rs:395`), which
  `start_manual_unstake` refuses *"because it will extend the waiting period"* (`distribute.rs:243`).
  With all heartbeat calls made every epoch and none failing, NEAR is out of the reserve for more
  than two waiting periods.
* `removed` / `OnlyViewsPanic`. *"Busy locks must be saved false in the state, this method SHOULD
  NOT PANIC"* (`distribute.rs:411`). `remove_staking_pool` (`owner.rs:63-71`) checks the pool it
  removes, and not whether a call to a later one is in flight, whose callback carries an index.
  After the removal that is the index of another pool, or of none: the callback of an unstaking
  subtracts from a pool that has less staked, panics, and both locks stay. Three more were seen
  while modelling and have no run of their own.

* *META that is overwritten.* `harvest_meta` takes all realized META out of the account, and if
  minting fails `after_minting_meta` writes the amount back (`lib.rs:931`) where the comment says
  "rollback" (`lib.rs:897`). What was realized in between, by a sale, a stake or a massive
  realization, is overwritten: granted, counted in `total_meta` and never minted. `MetaMintedOnce`
  allows this loss, and only this one; the state space of `meta` reaches it.
* *Transfers that are not rolled back.* `fungible_token_standard.rs:78` says that "if … `ft_on_transfer`
  fails, the transfer is rolled-back". Both tokens give back at most what the receiver still has.
* *Orders undone are not reserved.* Opposite orders "cancel each other […] but the NEAR received for
  staking must be now reserved" (`lib.rs:114-115`). `undo_end_of_epoch` (`internal.rs:327-335`) sets the
  orders to the difference of the totals, which cancels opposite ones, and reserves nothing: NEAR of
  the stake orders it drops is in no total any more. `only_unmade_orders` keeps this out of the model.

## 8. What is not modelled

* *Of administration*: roles, parameters and fees (constants, so nothing here speaks of a change of
  them while a call is in flight), `staking_paused` (set, and consulted nowhere), and
  `transfer_extra_balance_accumulated`, which pays the operator whatever the native balance has
  above the recorded one: between the arrival of a withdrawal and its callback that is the users'
  NEAR, as `BalanceMatches` shows.
* *Of META*: `set_max_meta_rewards` (a maximum of 0 divides by zero inside the rewards callback,
  which then leaves the locks; `MetaAssumption` excludes it), the estimate of pending META that
  views show, and the meters' part of a stNEAR transfer.
* *Of the META token*: who the owner is, metadata, and the NEAR paid for storage: `storage_unregister`
  returns the deposit only to an account whose balance was not 0 (`storage_nep_145.rs:97`).
* *A pool's own accounting*: in the core a pool performs exactly what it was asked, and its share
  rounding appears only as a report one unit short; in `MetaPoolOperator` it rounds what it
  unstakes. Its price and its rewards formula are not modelled.
* *Gas, storage cost, metadata, logs, views, migrations*: no state of their own, or one-time
  copies. `validator_loans.rs` is commented out.
* *Overflow*: not reachable below the supply of NEAR, see section 3.
