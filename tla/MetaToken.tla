------------------------------ MODULE MetaToken ------------------------------
(***************************************************************************)
(* The META token: a NEP-141 contract of its own, with minters, vesting and *)
(* the registration of accounts (NEP-145).                                  *)
(*                                                                          *)
(* META that is vested stays in the balance of its holder, and a record     *)
(* says how much of the balance is locked for now. Only internal_transfer   *)
(* looks at the record: what a transfer call gives back, and what is burned *)
(* with an account that is unregistered, is taken wherever it is.           *)
(*                                                                          *)
(* Left out: the metadata, the yocto attached, the NEAR paid for storage    *)
(* and returned, and who the owner is: its methods are called by the owner. *)
(***************************************************************************)
EXTENDS Integers, FiniteSets, Functions

CONSTANTS
  TokenHolders,    (* the accounts that may hold META                       *)
  Minters,         (* the accounts the owner may add to the minters         *)
  FirstMinter,     (* owner_id, the minter the contract starts with         *)
  MinTransfer,     (* a transfer is above it, or of the whole balance       *)
  TokenReceipts,   (* bound: transfer calls in flight, by their receipt     *)
  MetaAmounts,     (* META asked of transfers                               *)
  UnusedMeta,      (* what ft_on_transfer may answer                        *)
  MintedAmounts,   (* META asked of mint                                    *)
  VestedAmounts,   (* META asked of mint_vested                             *)
  Schedules,       (* the dates mint_vested is called with                  *)
  LockDates,       (* dates set_locked_until is called with                 *)
  MaxSupply,       (* bound: the supply the minters here bring it to        *)
  MaxTime          (* bound: the last block_timestamp                       *)

Schedule == [locked_until : Nat, linear_start : Nat, linear_end : Nat]

ASSUME TokenAssumption ==
  /\ IsFiniteSet(TokenHolders)
  /\ FirstMinter \in Minters
  /\ MinTransfer \in Nat
  /\ MetaAmounts \cup UnusedMeta \cup MintedAmounts \cup VestedAmounts \cup LockDates
       \subseteq Nat
  /\ Schedules \subseteq Schedule
  /\ MaxSupply \in Nat /\ MaxTime \in Nat

VARIABLES
  balances,           (* accounts: the balance of each registered account   *)
  minters,
  total_supply,
  locked_until_nano,  (* transfers are locked until this moment             *)
  vested,             (* the vesting record of each account that has one    *)
  vested_count,
  token_calls,        (* ft_transfer_call of each receipt, if in flight     *)
  block_timestamp

supply_vars == <<balances, total_supply>>
vesting_vars == <<vested, vested_count>>
token_vars ==
  <<supply_vars, minters, locked_until_nano, vesting_vars, token_calls, block_timestamp>>

VestingRecord == [amount : Nat \ {0}, schedule : Schedule]

TokenCall == [sender : TokenHolders, receiver : TokenHolders, amount : Nat,
              status : {"sent", "ok", "failed"}, unused : Nat]

no_call == [status |-> "none"]

TokenInit ==
  /\ balances = [a \in {} |-> 0]
  /\ minters = {FirstMinter}
  /\ total_supply = 0
  /\ locked_until_nano = 0
  /\ vested = [a \in {} |-> 0]
  /\ vested_count = 0
  /\ token_calls = [r \in TokenReceipts |-> no_call]
  /\ block_timestamp = 0

-----------------------------------------------------------------------------
(* A lookup map with a key inserted or updated, and with a key removed. *)
inserted(map, a, v) == [x \in DOMAIN map \cup {a} |-> IF x = a THEN v ELSE map[x]]

without(map, a) == [x \in DOMAIN map \ {a} |-> map[x]]

(* An account that is not registered has nothing. *)
balance_of(a) == IF a \in DOMAIN balances THEN balances[a] ELSE 0

(* What of the record is locked now: all, then less and less, then nothing. *)
compute_amount_locked(v) ==
  LET dates == v.schedule
  IN IF block_timestamp < dates.linear_start \/ block_timestamp < dates.locked_until
     THEN v.amount
     ELSE IF block_timestamp >= dates.linear_end THEN 0
     ELSE (v.amount * (dates.linear_end - block_timestamp))
            \div (dates.linear_end - dates.linear_start)

get_locked_amount(a) ==
  IF a \in DOMAIN vested THEN compute_amount_locked(vested[a]) ELSE 0

-----------------------------------------------------------------------------
mint_into(a, amount) ==
  /\ balances' = inserted(balances, a, balance_of(a) + amount)
  /\ total_supply' = total_supply + amount

mint(minter, a, amount) ==
  /\ minter \in minters
  /\ mint_into(a, amount)
  /\ UNCHANGED <<minters, locked_until_nano, vesting_vars, token_calls, block_timestamp>>

new_record(amount, schedule) ==
  /\ amount > 0
  /\ schedule.linear_start <= schedule.linear_end
  /\ schedule.locked_until < schedule.linear_end

(* Mutant of vesting_inserted: each record counts, one that replaces too. *)
inserted_and_counted(a, record) ==
  /\ vested' = inserted(vested, a, record)
  /\ vested_count' = vested_count + 1

(* A record that is over may be replaced, and was counted already. *)
vesting_inserted(a, record) ==
  /\ get_locked_amount(a) = 0
  /\ vested' = inserted(vested, a, record)
  /\ vested_count' = IF a \in DOMAIN vested THEN vested_count ELSE vested_count + 1

mint_vested(minter, a, amount, schedule) ==
  /\ minter \in minters
  /\ mint_into(a, amount)
  /\ new_record(amount, schedule)
  /\ vesting_inserted(a, [amount |-> amount, schedule |-> schedule])
  /\ UNCHANGED <<minters, locked_until_nano, token_calls, block_timestamp>>

vesting_removed(a) ==
  /\ vested' = without(vested, a)
  /\ vested_count' = vested_count - 1

(* What is locked is burned, if the holder still has it. *)
terminate_vesting(a) ==
  LET locked_amount == get_locked_amount(a)
  IN /\ a \in DOMAIN vested
     /\ locked_amount > 0
     /\ balance_of(a) >= locked_amount
     /\ balances' = inserted(balances, a, balance_of(a) - locked_amount)
     /\ total_supply >= locked_amount
     /\ total_supply' = total_supply - locked_amount
     /\ vesting_removed(a)
     /\ UNCHANGED <<minters, locked_until_nano, token_calls, block_timestamp>>

add_minter(m) ==
  /\ m \notin minters
  /\ minters' = minters \cup {m}
  /\ UNCHANGED <<supply_vars, locked_until_nano, vesting_vars, token_calls, block_timestamp>>

remove_minter(m) ==
  /\ m \in minters
  /\ minters' = minters \ {m}
  /\ UNCHANGED <<supply_vars, locked_until_nano, vesting_vars, token_calls, block_timestamp>>

set_locked_until(date) ==
  /\ locked_until_nano' = date
  /\ UNCHANGED <<supply_vars, minters, vesting_vars, token_calls, block_timestamp>>

-----------------------------------------------------------------------------
(* Mutant of vesting_checked: the balance before the transfer is compared. *)
vesting_checked_before(sender, balance_left) ==
  /\ get_locked_amount(sender) > 0 => balance_of(sender) >= get_locked_amount(sender)
  /\ UNCHANGED vesting_vars

(* A record that is over is removed, one that is not bounds what may be left. *)
vesting_checked(sender, balance_left) ==
  \/ /\ vested_count > 0 /\ sender \in DOMAIN vested
     /\ get_locked_amount(sender) = 0
     /\ vesting_removed(sender)
  \/ /\ vested_count > 0 /\ sender \in DOMAIN vested
     /\ get_locked_amount(sender) > 0
     /\ balance_left >= get_locked_amount(sender)
     /\ UNCHANGED vesting_vars
  \/ /\ vested_count = 0 \/ sender \notin DOMAIN vested
     /\ UNCHANGED vesting_vars

internal_transfer(sender, receiver, amount) ==
  LET balance_left == balance_of(sender) - amount
      taken == inserted(balances, sender, balance_left)
  IN /\ sender # receiver
     /\ block_timestamp >= locked_until_nano
     /\ amount = balance_of(sender) \/ amount > MinTransfer
     /\ amount <= balance_of(sender)
     /\ vesting_checked(sender, balance_left)
     /\ balances' = inserted(taken, receiver, balance_of(receiver) + amount)
     /\ UNCHANGED <<minters, total_supply, locked_until_nano, block_timestamp>>

ft_transfer(sender, receiver, amount) ==
  /\ internal_transfer(sender, receiver, amount)
  /\ UNCHANGED token_calls

ft_transfer_call(r, sender, receiver, amount) ==
  /\ token_calls[r] = no_call
  /\ internal_transfer(sender, receiver, amount)
  /\ token_calls' = [token_calls EXCEPT ![r] =
       [sender |-> sender, receiver |-> receiver, amount |-> amount,
        status |-> "sent", unused |-> 0]]

ft_on_transfer(r) ==
  /\ token_calls[r].status = "sent"
  /\ \/ \E unused \in UnusedMeta :
          token_calls' = [token_calls EXCEPT ![r].status = "ok", ![r].unused = unused]
     \/ token_calls' = [token_calls EXCEPT ![r].status = "failed"]
  /\ UNCHANGED <<supply_vars, minters, locked_until_nano, vesting_vars, block_timestamp>>

(* A receiver that failed has used nothing. *)
unused_amount(call) ==
  IF call.status = "ok" /\ call.unused < call.amount THEN call.unused ELSE call.amount

refund_amount(call) ==
  IF balance_of(call.receiver) < unused_amount(call)
  THEN balance_of(call.receiver) ELSE unused_amount(call)

(* Mutant of refund_or_burn: what a sender who left gave is not burned. *)
refund_or_nothing(call, amount) ==
  LET taken == inserted(balances, call.receiver, balance_of(call.receiver) - amount)
  IN /\ balances' =
          IF amount = 0 THEN balances
          ELSE IF call.sender \in DOMAIN balances
               THEN inserted(taken, call.sender, balances[call.sender] + amount)
               ELSE taken
     /\ UNCHANGED total_supply

(* Back to the sender, or burned when the sender is not registered any more. *)
refund_or_burn(call, amount) ==
  LET taken == inserted(balances, call.receiver, balance_of(call.receiver) - amount)
  IN \/ /\ amount = 0
        /\ UNCHANGED supply_vars
     \/ /\ amount > 0 /\ call.sender \in DOMAIN balances
        /\ balances' = inserted(taken, call.sender, balances[call.sender] + amount)
        /\ UNCHANGED total_supply
     \/ /\ amount > 0 /\ call.sender \notin DOMAIN balances
        /\ balances' = taken
        /\ total_supply' = total_supply - amount

ft_resolve_transfer(r) ==
  /\ token_calls[r].status \in {"ok", "failed"}
  /\ refund_or_burn(token_calls[r], refund_amount(token_calls[r]))
  /\ token_calls' = [token_calls EXCEPT ![r] = no_call]
  /\ UNCHANGED <<minters, locked_until_nano, vesting_vars, block_timestamp>>

-----------------------------------------------------------------------------
storage_deposit(a) ==
  /\ a \notin DOMAIN balances
  /\ balances' = inserted(balances, a, 0)
  /\ UNCHANGED <<total_supply, minters, locked_until_nano, vesting_vars, token_calls,
                 block_timestamp>>

(* By force, what the account has is burned; its vesting record stays. *)
storage_unregister(a, force) ==
  /\ a \in DOMAIN balances
  /\ balances[a] = 0 \/ force
  /\ balances' = without(balances, a)
  /\ total_supply' = total_supply - balances[a]
  /\ UNCHANGED <<minters, locked_until_nano, vesting_vars, token_calls, block_timestamp>>

next_block ==
  /\ block_timestamp < MaxTime
  /\ block_timestamp' = block_timestamp + 1
  /\ UNCHANGED <<supply_vars, minters, locked_until_nano, vesting_vars, token_calls>>

-----------------------------------------------------------------------------
OwnerStep ==
  \/ \E m \in Minters : add_minter(m) \/ remove_minter(m)
  \/ \E date \in LockDates : set_locked_until(date)
  \/ \E a \in TokenHolders : terminate_vesting(a)

MintStep ==
  \E m \in Minters, a \in TokenHolders :
    \/ \E n \in MintedAmounts : total_supply + n <= MaxSupply /\ mint(m, a, n)
    \/ \E n \in VestedAmounts, s \in Schedules :
         total_supply + n <= MaxSupply /\ mint_vested(m, a, n, s)

HolderStep ==
  \/ \E a, b \in TokenHolders, n \in MetaAmounts :
       \/ ft_transfer(a, b, n)
       \/ \E r \in TokenReceipts : ft_transfer_call(r, a, b, n)
  \/ \E r \in TokenReceipts : ft_on_transfer(r) \/ ft_resolve_transfer(r)
  \/ \E a \in TokenHolders :
       storage_deposit(a) \/ \E force \in BOOLEAN : storage_unregister(a, force)

TokenNext == OwnerStep \/ MintStep \/ HolderStep \/ next_block

TokenSpec == TokenInit /\ [][TokenNext]_token_vars

-----------------------------------------------------------------------------
(* No balance is ever negative, and there are as many vesting records as    *)
(* are counted, which is what internal_transfer looks at before it looks    *)
(* for a record (internal.rs:91): an undercount would free what is locked.  *)
TokenTypeOK ==
  /\ DOMAIN balances \subseteq TokenHolders
  /\ balances \in [DOMAIN balances -> Nat]
  /\ total_supply \in Int
  /\ minters \subseteq Minters
  /\ locked_until_nano \in Nat /\ block_timestamp \in Nat
  /\ DOMAIN vested \subseteq TokenHolders
  /\ vested \in [DOMAIN vested -> VestingRecord]
  /\ vested_count = Cardinality(DOMAIN vested)
  /\ token_calls \in [TokenReceipts -> TokenCall \cup {no_call}]

(***************************************************************************)
(* The supply is what the holders have, whatever is refunded to, or burned  *)
(* for, an account that left while its transfer call was in flight.         *)
(***************************************************************************)
SupplyIsBalances == total_supply = SumFunction(balances)

(***************************************************************************)
(* What is locked leaves its holder only by the resolution of a transfer    *)
(* call it received, with its account, or burned by the owner; and a record *)
(* ends only when nothing is locked any more, or with what is.              *)
(***************************************************************************)
gave_back(a) ==
  \E r \in TokenReceipts :
    /\ token_calls[r] # no_call /\ token_calls'[r] = no_call
    /\ token_calls[r].receiver = a

locked_kept(a) ==
  LET locked == get_locked_amount(a)
      left == a \in DOMAIN balances /\ a \notin DOMAIN balances'
      burned == a \notin DOMAIN vested' /\ total_supply' = total_supply - locked
  IN /\ balance_of(a)' < balance_of(a) =>
           balance_of(a)' >= locked \/ left \/ gave_back(a) \/ burned
     /\ a \notin DOMAIN vested' => locked = 0 \/ burned

LockedKept == [][\A a \in DOMAIN vested : locked_kept(a)]_token_vars
=============================================================================
