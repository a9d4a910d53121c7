-------------------------- MODULE MetaPoolOperator --------------------------
(***************************************************************************)
(* The owner and the operator: the list of staking pools and its weights,   *)
(* staking and unstaking by hand, the overrides of the locks, and the       *)
(* synchronization of what a pool holds unstaked with what is recorded.     *)
(*                                                                          *)
(* These methods are trusted, and several check less than they rely on.     *)
(* Each is first the code's; OperatorCall then lists, beside each, the      *)
(* precaution its caller has to take. They meet the heartbeat, which is     *)
(* open to anyone, in any order.                                            *)
(*                                                                          *)
(* A staking pool converts amounts to shares of its own and back, so what   *)
(* it has really unstaked may be a unit off what it was asked for: held_at  *)
(* is what the pools know, staking_pools what the contract recorded.        *)
(***************************************************************************)
EXTENDS MetaPool, SequencesExt

CONSTANTS
  PoolAccounts,    (* accounts of staking pools, the listed ones first      *)
  Weightings,      (* weights set_staking_pools is called with              *)
  ManualPools,     (* indexes manual_stake is called with                   *)
  ManualAmounts,   (* NEAR asked of manual_stake                            *)
  Roundings,       (* what a pool may unstake above what it was asked       *)
  MaxRoundings,    (* bound: unstakings that are rounded                    *)
  PlannedUnstakes, (* NEAR a user asks of unstake, when an agenda says so   *)
  Agendas          (* bound: what is called beside the heartbeat, in order  *)

PlannedMethod ==
  {"add_staking_pool", "remove_staking_pool", "set_staking_pools", "manual_stake",
   "start_manual_unstake", "complete_manual_unstake", "undo_end_of_epoch", "set_busy",
   "sync_unstaked_balance", "unstake"}

ASSUME OperatorAssumption ==
  /\ PoolAccounts \in Seq(Range(PoolAccounts)) /\ Len(Weights) <= Len(PoolAccounts)
  /\ \A i, j \in DOMAIN PoolAccounts : PoolAccounts[i] = PoolAccounts[j] => i = j
  /\ Weightings \subseteq Seq(Nat)
  /\ Roundings \subseteq {-1, 1}
  /\ ManualPools \subseteq Nat
  /\ ManualAmounts \subseteq Nat
  /\ PlannedUnstakes \subseteq Nat
  /\ MaxRoundings \in Nat
  /\ Agendas \subseteq Seq(PlannedMethod)

VARIABLES
  pool_accounts,  (* account_id of each pool in the list                    *)
  held_at,        (* what each pool really holds for the contract           *)
  sent_to,        (* by index: whom the last call went to, and if by hand   *)
  queries,        (* get_account_unstaked_balance calls in flight           *)
  by_hand,        (* by pool: NEAR unstaked by hand, not ordered back yet   *)
  unmade,         (* unstake orders left by unstakings by hand that failed  *)
  rounded,        (* unstakings rounded so far                              *)
  agenda          (* what is still to be called                             *)

list_vars   == <<staking_pools, pool_accounts>>
hand_vars   == <<by_hand, unmade>>
beside_vars == <<held_at, sent_to, queries, rounded>>
operator_vars ==
  <<vars, pool_accounts, beside_vars, hand_vars, agenda>>

Query == [sp : Nat, account : Range(PoolAccounts), status : {"sent", "ok"}, reply : Nat]

OperatorInit ==
  /\ Init
  /\ pool_accounts = SubSeq(PoolAccounts, 1, Len(Weights))
  /\ held_at = [a \in Range(PoolAccounts) |-> [staked |-> 0, unstaked |-> 0]]
  /\ sent_to = [i \in DOMAIN PoolAccounts |->
                  [account |-> PoolAccounts[i], manual |-> FALSE]]
  /\ queries = {}
  /\ by_hand = [a \in Range(PoolAccounts) |-> 0]
  /\ unmade = 0
  /\ rounded = 0
  /\ agenda \in Agendas

on_agenda(method) ==
  /\ agenda # <<>> /\ Head(agenda) = method
  /\ agenda' = Tail(agenda)

-----------------------------------------------------------------------------
(***************************************************************************)
(* The list of pools. A pool is known by its index, to the operator and to  *)
(* the callbacks of the calls in flight.                                    *)
(***************************************************************************)
list_only ==
  UNCHANGED <<user_vars, order_vars, stake_vars, claim_vars, contract_busy, promises,
              money_vars, accumulated_staked_rewards, epoch_height, beside_vars, hand_vars>>

add_staking_pool(account) ==
  /\ account \notin Range(pool_accounts)
  /\ staking_pools' = Append(staking_pools, NewStakingPool(0))
  /\ pool_accounts' = Append(pool_accounts, account)
  /\ list_only

(* Mutant of is_empty: nothing is recorded at the pool, a call may be under way. *)
is_empty_of_near(sp) ==
  sp.weight_basis_points = 0 /\ sp.staked = 0 /\ sp.unstaked = 0

is_empty(sp) ==
  ~sp.busy_lock /\ sp.weight_basis_points = 0 /\ sp.staked = 0 /\ sp.unstaked = 0

remove_staking_pool(i) ==
  /\ is_empty(staking_pools[i])
  /\ staking_pools' = RemoveAt(staking_pools, i)
  /\ pool_accounts' = RemoveAt(pool_accounts, i)
  /\ list_only

(* The list is passed whole and in order; only pools that are free change. *)
set_staking_pools(weighting) ==
  /\ DOMAIN weighting = DOMAIN staking_pools
  /\ \A i \in DOMAIN weighting :
       /\ 2 * weighting[i] < BasisPoints
       /\ staking_pools[i].busy_lock =>
            weighting[i] = staking_pools[i].weight_basis_points
  /\ MapThenSumSet(LAMBDA i : weighting[i], DOMAIN weighting) = BasisPoints
  /\ staking_pools' = [i \in DOMAIN staking_pools |->
       [staking_pools[i] EXCEPT !.weight_basis_points = weighting[i]]]
  /\ UNCHANGED pool_accounts
  /\ list_only

-----------------------------------------------------------------------------
(***************************************************************************)
(* By hand. manual_stake looks at the lock of the pool and not at the       *)
(* contract's, so a call may be in flight to each pool. Whom a call went to *)
(* is what its callback's index is to be compared with.                     *)
(***************************************************************************)
call_recorded(i, manual) ==
  sent_to' = [sent_to EXCEPT ![i] = [account |-> pool_accounts[i], manual |-> manual]]

(* Mutant of pool_is_free: no lock is looked at. *)
lock_ignored(i) == TRUE

pool_is_free(i) == ~staking_pools[i].busy_lock

manual_stake(i, amount) ==
  /\ epoch_stake_orders > MinStakeAmount
  /\ amount <= epoch_stake_orders
  /\ pool_is_free(i)
  /\ direct_stake(i, amount)
  /\ call_recorded(i, TRUE)
  /\ UNCHANGED <<user_vars, epoch_unstake_orders, total_for_staking, claim_vars,
                 contract_account_balance, incoming, accumulated_staked_rewards,
                 epoch_height, pool_accounts, held_at, queries, rounded, hand_vars>>

(* Mutant of unstaking_by_hand: it orders the NEAR unstaked on top. *)
order_kept(i, amount) ==
  /\ free_to_call(i)
  /\ lock_and_call(i, Call("unstake", i, amount))
  /\ total_actually_staked' = total_actually_staked - amount
  /\ epoch_unstake_orders' = epoch_unstake_orders + amount

(* The order is raised, for direct_unstake to lower it again. *)
unstaking_by_hand(i, amount) ==
  /\ free_to_call(i)
  /\ amount > 0
  /\ amount <= total_actually_staked
  /\ lock_and_call(i, Call("unstake", i, amount))
  /\ total_actually_staked' = total_actually_staked - amount
  /\ UNCHANGED epoch_unstake_orders

start_manual_unstake(i) ==
  LET amount == staking_pools[i].staked
  IN /\ staking_pools[i].weight_basis_points = 0
     /\ staking_pools[i].unstaked = 0
     /\ unstaking_by_hand(i, amount)
     /\ by_hand' = [by_hand EXCEPT ![pool_accounts[i]] = @ + amount]
     /\ call_recorded(i, TRUE)
     /\ UNCHANGED <<user_vars, epoch_stake_orders, total_for_staking, claim_vars, money_vars,
                    accumulated_staked_rewards, epoch_height, pool_accounts, held_at,
                    queries, rounded, unmade>>

(* Whose funds were retrieved, and so went to the reserve for claims. *)
funds_recovered(i) ==
  /\ staking_pools[i].weight_basis_points = 0
  /\ staking_pools[i].staked = 0 /\ staking_pools[i].unstaked = 0

(* Mutant of reserve_to_orders: the reserve keeps what is ordered again. *)
ordered_again(amount) ==
  /\ epoch_stake_orders' = epoch_stake_orders + amount
  /\ UNCHANGED reserve_for_unstake_claims

reserve_to_orders(amount) ==
  /\ amount <= reserve_for_unstake_claims
  /\ reserve_for_unstake_claims' = reserve_for_unstake_claims - amount
  /\ epoch_stake_orders' = epoch_stake_orders + amount

complete_manual_unstake(i, amount) ==
  /\ funds_recovered(i)
  /\ reserve_to_orders(amount)
  /\ by_hand' = [by_hand EXCEPT ![pool_accounts[i]] = @ - amount]
  /\ UNCHANGED <<user_vars, epoch_unstake_orders, stake_vars, total_unstaked_and_waiting,
                 total_unstake_claims, pool_vars, money_vars, accumulated_staked_rewards,
                 epoch_height, pool_accounts, beside_vars, unmade>>

(* Orders that are equal to what they should come to are left as they are. *)
undo_end_of_epoch ==
  /\ total_for_staking # total_actually_staked
  /\ epoch_stake_orders' = saturating_sub(total_for_staking, total_actually_staked)
  /\ epoch_unstake_orders' = saturating_sub(total_actually_staked, total_for_staking)
  /\ unmade' = 0
  /\ UNCHANGED <<user_vars, stake_vars, claim_vars, pool_vars, money_vars,
                 accumulated_staked_rewards, epoch_height, pool_accounts, beside_vars,
                 by_hand>>

-----------------------------------------------------------------------------
(* The overrides write a lock, whatever is in flight. *)
locks_only ==
  UNCHANGED <<user_vars, order_vars, stake_vars, claim_vars, promises, money_vars,
              accumulated_staked_rewards, epoch_height, pool_accounts, beside_vars,
              hand_vars>>

set_busy(value) ==
  /\ contract_busy' = value
  /\ UNCHANGED staking_pools
  /\ locks_only

(* Mutant of sp_busy: the record changed is a copy. *)
sp_busy_unsaved(i, value) ==
  /\ UNCHANGED <<contract_busy, staking_pools>>
  /\ locks_only

sp_busy(i, value) ==
  /\ staking_pools' = [staking_pools EXCEPT ![i].busy_lock = value]
  /\ UNCHANGED contract_busy
  /\ locks_only

-----------------------------------------------------------------------------
(***************************************************************************)
(* sync_unstaked_balance asks a pool that is free what it holds unstaked,   *)
(* and takes no lock; the answer is refused while any lock is taken, and    *)
(* applied however much happened in between.                                *)
(***************************************************************************)
sync_only ==
  UNCHANGED <<user_vars, order_vars, stake_vars, claim_vars, contract_busy, promises,
              money_vars, accumulated_staked_rewards, epoch_height, pool_accounts,
              held_at, sent_to, rounded, hand_vars>>

sync_unstaked_balance(i) ==
  /\ free_to_call(i)
  /\ queries' = queries \cup {[sp |-> i, account |-> pool_accounts[i], status |-> "sent", reply |-> 0]}
  /\ UNCHANGED staking_pools
  /\ sync_only

account_of(p) == sent_to[p.sp].account

(* Answers of a pool arrive in the order it gave them: the next is not given *)
(* before the last was taken.                                                *)
no_answer_from(account) ==
  /\ \A p \in promises : account_of(p) = account => p.status = "sent"
  /\ \A q \in queries : q.account = account => q.status = "sent"

pool_replies(q) ==
  /\ q \in queries /\ q.status = "sent"
  /\ no_answer_from(q.account)
  /\ queries' = (queries \ {q})
       \cup {[q EXCEPT !.status = "ok", !.reply = held_at[q.account].unstaked]}
  /\ UNCHANGED staking_pools
  /\ sync_only

(* Mutants of may_be_updated, and of synced: the stake is not corrected. *)
may_always_be_updated(sp) == TRUE

synced_unstaked_only(sp, real) == [sp EXCEPT !.unstaked = real]

may_be_updated(sp) == ~contract_busy /\ ~sp.busy_lock

(* What was not recorded as unstaked was recorded as staked, or the reverse. *)
synced(sp, real) ==
  [sp EXCEPT !.unstaked = real,
             !.staked = IF real > sp.unstaked
                        THEN saturating_sub(@, real - sp.unstaked)
                        ELSE @ + (sp.unstaked - real)]

applicable(q) ==
  /\ q.status = "ok"
  /\ q.sp \in DOMAIN staking_pools
  /\ may_be_updated(staking_pools[q.sp])

(* A view that failed does not enter the callback: no lock was taken. *)
on_get_sp_unstaked_balance(q) ==
  /\ q \in queries
  /\ queries' = queries \ {q}
  /\ \/ /\ applicable(q)
        /\ staking_pools' = [staking_pools EXCEPT ![q.sp] = synced(@, q.reply)]
     \/ /\ ~applicable(q)
        /\ UNCHANGED staking_pools
  /\ sync_only

-----------------------------------------------------------------------------
(***************************************************************************)
(* The pools, with what they really hold. Asked for more than that, a pool  *)
(* fails; it rounds what it unstakes.                                       *)
(***************************************************************************)
short_of(p) ==
  LET held == held_at[account_of(p)]
  IN \/ p.op \in {"retrieve", "restake"} /\ held.unstaked < p.amount
     \/ p.op = "unstake" /\ held.staked < p.amount

pool_moves(p, to_staked, to_unstaked) ==
  held_at' = [held_at EXCEPT ![account_of(p)] =
    [staked |-> @.staked + to_staked, unstaked |-> @.unstaked + to_unstaked]]

pool_converts(p) ==
  \/ /\ p.op = "stake" /\ pool_moves(p, p.amount, 0)
     /\ UNCHANGED rounded
  \/ /\ p.op = "restake" /\ pool_moves(p, p.amount, -p.amount)
     /\ UNCHANGED rounded
  \/ /\ p.op = "retrieve" /\ pool_moves(p, 0, -p.amount)
     /\ UNCHANGED rounded
  \/ /\ p.op = "unstake" /\ pool_moves(p, -p.amount, p.amount)
     /\ UNCHANGED rounded
  \/ /\ p.op = "unstake" /\ rounded < MaxRoundings
     /\ rounded' = rounded + 1
     /\ \E r \in Roundings :
          /\ held_at[account_of(p)].staked >= p.amount + r
          /\ pool_moves(p, -(p.amount + r), p.amount + r)

pool_is_short(p) ==
  /\ p \in promises /\ p.status = "sent"
  /\ short_of(p)
  /\ resolved(p, "failed", 0)
  /\ UNCHANGED <<user_vars, order_vars, stake_vars, claim_vars, contract_busy,
                 staking_pools, money_vars, accumulated_staked_rewards, epoch_height,
                 held_at, rounded>>

pool_answers(p) ==
  /\ no_answer_from(account_of(p))
  /\ \/ ~short_of(p) /\ pool_performs(p) /\ pool_converts(p)
     \/ pool_fails(p) /\ UNCHANGED <<held_at, rounded>>
     \/ pool_is_short(p)
  /\ UNCHANGED <<pool_accounts, sent_to, queries, hand_vars, agenda>>

-----------------------------------------------------------------------------
(* The heartbeat and the callbacks, beside what is only kept here. *)
heartbeat_call ==
  /\ HeartbeatCall
  /\ sent_to' = [i \in DOMAIN sent_to |->
       IF \E p \in promises' \ promises : p.sp = i
       THEN [account |-> pool_accounts[i], manual |-> FALSE] ELSE sent_to[i]]
  /\ UNCHANGED <<pool_accounts, held_at, queries, rounded, hand_vars, agenda>>

failed_by_hand(p) ==
  p.op = "unstake" /\ p.status = "failed" /\ sent_to[p.sp].manual

callback ==
  /\ Callback
  /\ LET failed == {p \in promises \ promises' : failed_by_hand(p)}
     IN /\ unmade' = unmade + amount_of(failed)
        /\ by_hand' = [a \in DOMAIN by_hand |->
             by_hand[a] - amount_of({p \in failed : account_of(p) = a})]
  /\ UNCHANGED <<pool_accounts, beside_vars, agenda>>

elsewhere ==
  /\ UserStep \/ transfer_arrives \/ next_epoch
  /\ UNCHANGED <<pool_accounts, beside_vars, hand_vars, agenda>>

synchronization ==
  /\ \E q \in queries : pool_replies(q) \/ on_get_sp_unstaked_balance(q)
  /\ UNCHANGED agenda

(***************************************************************************)
(* The operator's methods, each with the precaution the code leaves to it.  *)
(***************************************************************************)
free_of_calls(i) == \A p \in promises : p.sp # i

(* A pool is removed when no callback carries the index of a later one (nor, *)
(* as no lock tells of a query, its own).                                    *)
no_later_index(i) == (\A p \in promises : p.sp <= i) /\ (\A q \in queries : q.sp < i)

(* Orders are only rewritten to drop those an unstaking by hand left. *)
only_unmade_orders ==
  /\ promises = {}
  /\ \A a \in DOMAIN by_hand : by_hand[a] = 0
  /\ \/ epoch_unstake_orders = unmade
     \/ epoch_unstake_orders > unmade /\ epoch_stake_orders = 0

OperatorCall ==
  \/ /\ on_agenda("add_staking_pool")
     /\ \E account \in Range(PoolAccounts) : add_staking_pool(account)
  \/ /\ on_agenda("remove_staking_pool")
     /\ \E i \in DOMAIN staking_pools : no_later_index(i) /\ remove_staking_pool(i)
  \/ /\ on_agenda("set_staking_pools")
     /\ \E weighting \in Weightings : set_staking_pools(weighting)
  \/ /\ on_agenda("manual_stake")
     /\ \E i \in ManualPools \cap DOMAIN staking_pools, amount \in ManualAmounts :
          manual_stake(i, amount)
  \/ /\ on_agenda("start_manual_unstake")
     /\ \E i \in DOMAIN staking_pools : start_manual_unstake(i)
  \/ /\ on_agenda("complete_manual_unstake")
     /\ \E i \in DOMAIN staking_pools :
          /\ by_hand[pool_accounts[i]] > 0 /\ free_of_calls(i)
          /\ complete_manual_unstake(i, by_hand[pool_accounts[i]])
  \/ /\ on_agenda("undo_end_of_epoch")
     /\ only_unmade_orders /\ undo_end_of_epoch
  \/ /\ on_agenda("set_busy")
     /\ set_busy(TRUE)
  \/ /\ on_agenda("sync_unstaked_balance")
     /\ \E i \in DOMAIN staking_pools : sync_unstaked_balance(i)
  \/ /\ on_agenda("unstake")
     /\ \E u \in Users, amount \in PlannedUnstakes : unstake(u, amount)
     /\ UNCHANGED <<pool_accounts, beside_vars, hand_vars>>

(* A lock is released when no call holds it. *)
release_by_hand ==
  /\ \/ contract_busy /\ promises = {} /\ set_busy(FALSE)
     \/ \E i \in DOMAIN staking_pools :
          staking_pools[i].busy_lock /\ free_of_calls(i) /\ sp_busy(i, FALSE)
  /\ UNCHANGED agenda

OperatorNext ==
  \/ heartbeat_call \/ callback \/ elsewhere \/ synchronization
  \/ \E p \in promises : pool_answers(p)
  \/ OperatorCall \/ release_by_hand

(* The code alone, for a caller who takes no precaution. *)
unchecked_removal ==
  /\ on_agenda("remove_staking_pool")
  /\ \E i \in DOMAIN staking_pools : remove_staking_pool(i)

UncheckedSpec == OperatorInit /\ [][OperatorNext \/ unchecked_removal]_operator_vars

(* The chain runs every call and callback it accepted, those of one pool no  *)
(* later for those of the others; the operator releases what is stuck.       *)
called_back(i) == callback /\ \E p \in promises \ promises' : p.sp = i

answered(i) == \E p \in promises : p.sp = i /\ pool_answers(p)

OperatorSpec ==
  /\ OperatorInit /\ [][OperatorNext]_operator_vars
  /\ \A i \in DOMAIN PoolAccounts :
       WF_operator_vars(called_back(i)) /\ WF_operator_vars(answered(i))
  /\ WF_operator_vars(synchronization)
  /\ WF_operator_vars(release_by_hand)

-----------------------------------------------------------------------------
(* The list, what is kept beside it and the orders have their types. *)
OperatorTypeOK ==
  /\ staking_pools \in Seq(StakingPoolInfo)
  /\ DOMAIN pool_accounts = DOMAIN staking_pools
  /\ \A a \in Range(PoolAccounts) : held_at[a].staked \in Nat /\ held_at[a].unstaked \in Nat
  /\ queries \subseteq Query
  /\ by_hand \in [Range(PoolAccounts) -> Nat]
  /\ unmade \in Nat
  /\ {epoch_stake_orders, epoch_unstake_orders, reserve_for_unstake_claims,
      total_unstaked_and_waiting, contract_account_balance, account_balance} \subseteq Nat

sum_of(calls) == SumFunction([p \in calls |-> p.amount])

all_in_flight(ops) == sum_of({p \in promises : p.op \in ops})

unstaked_by_hand == unmade + SumFunction(by_hand)

(***************************************************************************)
(* Staking by hand starts beside any other call, which gives up what        *)
(* lib.rs:101 says of the contract's lock ("Avoid re-entry when async-calls *)
(* are in-flight"). The pools' own locks still hold: at most one call is    *)
(* ever in flight to a pool, and the pool is locked.                        *)
(***************************************************************************)
OneCallPerPool ==
  \A p \in promises :
    /\ staking_pools[p.sp].busy_lock
    /\ \A q \in promises : q.sp = p.sp => q = p

(***************************************************************************)
(* A callback finds its pool by the index it was given when the call was    *)
(* sent (distribute.rs:147). As long as pools are only removed with the     *)
(* precaution no_later_index, that is the pool that was called; the code    *)
(* itself does not see to it.                                               *)
(***************************************************************************)
CallbackFindsItsPool ==
  /\ \A p \in promises :
       p.sp \in DOMAIN pool_accounts /\ pool_accounts[p.sp] = account_of(p)
  /\ \A q \in queries :
       q.sp \in DOMAIN pool_accounts /\ pool_accounts[q.sp] = q.account

(***************************************************************************)
(* With several calls in flight, orders rewritten and NEAR unstaked by hand *)
(* ordered back, the NEAR the contract believes it holds is still what is   *)
(* available, reserved or ordered to be staked, each unit once.             *)
(***************************************************************************)
CashStaysBacked ==
  contract_account_balance
    = total_available + reserve_for_unstake_claims + epoch_stake_orders
      + all_in_flight({"stake", "restake"})

(***************************************************************************)
(* Every claim is covered, and so is what was unstaked by hand and will be  *)
(* staked again: neither is taken for the other, whatever unstaking fails,  *)
(* and the units pools rounded up and synchronizing found are all that is   *)
(* ever reserved beyond.                                                    *)
(***************************************************************************)
ClaimsStayBacked ==
  LET owed == total_unstake_claims + unstaked_by_hand
      covered == reserve_for_unstake_claims + total_unstaked_and_waiting
                 + epoch_unstake_orders + all_in_flight({"unstake"})
  IN owed <= covered /\ covered <= owed + rounded

(***************************************************************************)
(* "It should match env::balance()" (lib.rs:110), also when what a pool     *)
(* holds unstaked is synchronized: the callback of a retrieval records what *)
(* the pool was asked for, the record not having changed under it.          *)
(***************************************************************************)
retrieved_not_recorded ==
  sum_of({p \in promises : p.op = "retrieve" /\ p.status = "ok"})

staked_not_deducted ==
  sum_of({p \in promises : p.op = "stake" /\ p.status \in {"sent", "ok"}})

BalanceStillMatches ==
  account_balance + incoming + staked_not_deducted
    = MinBalanceForStorage + contract_account_balance + retrieved_not_recorded

(***************************************************************************)
(* Of a pool no call is in flight to, the contract records together, staked *)
(* and unstaked, exactly what the pool holds: rounding only moves between   *)
(* the two, and so does synchronizing, however late its answer.             *)
(***************************************************************************)
RecordsMatchPools ==
  \A i \in DOMAIN staking_pools :
    LET sp == staking_pools[i]
        held == held_at[pool_accounts[i]]
    IN free_of_calls(i) => sp.staked + sp.unstaked = held.staked + held.unstaked

(***************************************************************************)
(* But for views that failed, no callback panics, whatever the operator     *)
(* does to the pools, indexes and orders a call in flight relies on.        *)
(***************************************************************************)
OnlyViewsPanic ==
  \A p \in promises :
    /\ p.sp \in DOMAIN staking_pools
    /\ p.op # "rewards" => callback_completes(p)

(***************************************************************************)
(* "The entire contract will be locked until the owner calls make non-busy" *)
(* (distribute.rs:505), and no longer: with the overrides every lock a      *)
(* failed view leaves, the contract's and a pool's, is released, while the  *)
(* heartbeat, synchronizations and staking by hand go on.                   *)
(***************************************************************************)
LocksRecovered ==
  /\ contract_busy ~> ~contract_busy
  /\ \A a \in Range(PoolAccounts) :
       LET locked == \E i \in DOMAIN staking_pools :
                       pool_accounts[i] = a /\ staking_pools[i].busy_lock
       IN locked ~> ~locked
=============================================================================
