------------------------- MODULE MetaHarvestProofs -------------------------
(***************************************************************************)
(* The META token and the rewards that have it minted.                      *)
(*                                                                          *)
(* The token, for every set of holders and minters, every schedule and any  *)
(* number of transfer calls in flight: balances stay natural numbers, the   *)
(* vesting records are counted exactly, what is locked leaves its holder    *)
(* only in the ways LockedKept names, and the supply is the sum of the      *)
(* balances, whoever registers or leaves while a call is in flight.         *)
(*                                                                          *)
(* The rewards, for every multiplier and any number of harvests in flight:  *)
(* no META that was granted once is minted twice or lost but as said, and   *)
(* neither the meta-pool nor the token is disturbed by the harvests.        *)
(***************************************************************************)
EXTENDS MetaHarvest, MetaPoolBookProofs

-----------------------------------------------------------------------------
(* A lookup map after an insertion, and after a removal. *)
LEMMA InsertedMap ==
  ASSUME NEW map, NEW S, NEW a, NEW v, map \in [DOMAIN map -> S], v \in S
  PROVE  /\ DOMAIN inserted(map, a, v) = DOMAIN map \cup {a}
         /\ inserted(map, a, v) \in [DOMAIN map \cup {a} -> S]
         /\ inserted(map, a, v)[a] = v
         /\ \A x \in DOMAIN map : x # a => inserted(map, a, v)[x] = map[x]
  BY DEF inserted

LEMMA MapWithout ==
  ASSUME NEW map, NEW S, NEW a, map \in [DOMAIN map -> S]
  PROVE  /\ DOMAIN without(map, a) = DOMAIN map \ {a}
         /\ without(map, a) \in [DOMAIN map \ {a} -> S]
         /\ \A x \in DOMAIN map : x # a => without(map, a)[x] = map[x]
  BY DEF without

LEMMA BalanceNat ==
  ASSUME TokenTypeOK, NEW a
  PROVE  balance_of(a) \in Nat
  BY DEF TokenTypeOK, balance_of

(* vesting.rs:63. What is locked is an amount, whatever the schedule. *)
LEMMA LockedNat ==
  ASSUME TokenTypeOK, NEW a
  PROVE  get_locked_amount(a) \in Nat
  <1>1. CASE a \notin DOMAIN vested
    BY <1>1 DEF get_locked_amount
  <1>2. CASE a \in DOMAIN vested
    <2> DEFINE v == vested[a]
               left == v.schedule.linear_end - block_timestamp
               total == v.schedule.linear_end - v.schedule.linear_start
    <2>1. /\ v.amount \in Nat /\ v.schedule.linear_start \in Nat
          /\ v.schedule.linear_end \in Nat /\ v.schedule.locked_until \in Nat
          /\ block_timestamp \in Nat
      BY <1>2 DEF TokenTypeOK, VestingRecord, Schedule
    <2>2. ASSUME block_timestamp >= v.schedule.linear_start,
                 block_timestamp < v.schedule.linear_end
          PROVE  (v.amount * left) \div total \in Nat
      <3>1. left \in Nat /\ total \in Nat \ {0}
        BY <2>1, <2>2
      <3>2. v.amount * left \in Nat
        <4> HIDE DEF left
        <4> QED BY <2>1, <3>1
      <3>3. \A n \in Nat, d \in Nat \ {0} : n \div d \in Nat
        OBVIOUS
      <3> HIDE DEF left, total
      <3> QED BY <3>1, <3>2, <3>3
    <2>3. compute_amount_locked(v) \in Nat
      BY <2>1, <2>2 DEF compute_amount_locked
    <2> QED
      BY <1>2, <2>3 DEF get_locked_amount
  <1> QED
    BY <1>1, <1>2

LEMMA VestedFinite ==
  ASSUME TokenTypeOK
  PROVE  IsFiniteSet(DOMAIN vested) /\ Cardinality(DOMAIN vested) \in Nat
  BY TokenAssumption, FS_Subset, FS_CardinalityType DEF TokenTypeOK

(* The vesting records and their count, after one is inserted or removed. *)
VestedTypeOK ==
  /\ DOMAIN vested \subseteq TokenHolders
  /\ vested \in [DOMAIN vested -> VestingRecord]
  /\ vested_count = Cardinality(DOMAIN vested)

LEMMA RecordInserted ==
  ASSUME TokenTypeOK, NEW a \in TokenHolders, NEW record \in VestingRecord,
         vesting_inserted(a, record)
  PROVE  VestedTypeOK'
  <1>0. vested \in [DOMAIN vested -> VestingRecord]
    BY DEF TokenTypeOK
  <1>1. /\ DOMAIN vested' = DOMAIN vested \cup {a}
        /\ vested' \in [DOMAIN vested' -> VestingRecord]
    <2>1. vested' = inserted(vested, a, record)
      BY DEF vesting_inserted
    <2>2. /\ DOMAIN inserted(vested, a, record) = DOMAIN vested \cup {a}
          /\ inserted(vested, a, record) \in [DOMAIN vested \cup {a} -> VestingRecord]
      BY <1>0 DEF inserted
    <2> QED
      BY <2>1, <2>2
  <1>2. vested_count' = Cardinality(DOMAIN vested')
    BY <1>1, VestedFinite, FS_AddElement DEF vesting_inserted, TokenTypeOK
  <1> QED
    BY <1>1, <1>2 DEF VestedTypeOK, TokenTypeOK

LEMMA RecordRemoved ==
  ASSUME TokenTypeOK, NEW a \in DOMAIN vested, vesting_removed(a)
  PROVE  /\ VestedTypeOK'
         /\ DOMAIN vested' = DOMAIN vested \ {a}
  <1>1. /\ DOMAIN vested' = DOMAIN vested \ {a}
        /\ vested' \in [DOMAIN vested' -> VestingRecord]
    BY MapWithout DEF vesting_removed, TokenTypeOK
  <1>2. vested_count' = Cardinality(DOMAIN vested')
    BY <1>1, VestedFinite, FS_RemoveElement DEF vesting_removed, TokenTypeOK
  <1> QED
    BY <1>1, <1>2 DEF VestedTypeOK, TokenTypeOK
-----------------------------------------------------------------------------
(* The balances, after one is written, two are written, or one is removed. *)
Balances(map) == DOMAIN map \subseteq TokenHolders /\ map \in [DOMAIN map -> Nat]

LEMMA BalanceWritten ==
  ASSUME NEW map, Balances(map), NEW a \in TokenHolders, NEW n \in Nat
  PROVE  Balances(inserted(map, a, n))
  BY DEF Balances, inserted

LEMMA BalanceRemoved ==
  ASSUME NEW map, Balances(map), NEW a
  PROVE  Balances(without(map, a))
  BY DEF Balances, without

LEMMA BalancesNow ==
  ASSUME TokenTypeOK
  PROVE  Balances(balances)
  BY DEF TokenTypeOK, Balances

(* What a step that leaves the vesting records alone has to show. *)
LEMMA TypeFromParts ==
  ASSUME TokenTypeOK, Balances(balances'), total_supply' \in Int,
         VestedTypeOK' \/ UNCHANGED vesting_vars,
         minters' \subseteq Minters,
         locked_until_nano' \in Nat, block_timestamp' \in Nat,
         token_calls' \in [TokenReceipts -> TokenCall \cup {no_call}]
  PROVE  TokenTypeOK'
  <1>1. CASE VestedTypeOK'
    BY <1>1 DEF TokenTypeOK, Balances, VestedTypeOK
  <1>2. CASE UNCHANGED vesting_vars
    BY <1>2 DEF TokenTypeOK, Balances, vesting_vars
  <1> QED
    BY <1>1, <1>2

LEMMA MintType ==
  ASSUME TokenTypeOK, NEW m, NEW a \in TokenHolders, NEW n \in Nat, mint_into(a, n)
  PROVE  Balances(balances') /\ total_supply' \in Int
  <1>1. balance_of(a) + n \in Nat
    BY BalanceNat
  <1> QED
    BY <1>1, BalancesNow, BalanceWritten DEF mint_into, TokenTypeOK

LEMMA TransferType ==
  ASSUME TokenTypeOK, NEW a \in TokenHolders, NEW b \in TokenHolders, NEW n \in Nat,
         internal_transfer(a, b, n)
  PROVE  /\ Balances(balances')
         /\ VestedTypeOK' \/ UNCHANGED vesting_vars
  <1> DEFINE left == balance_of(a) - n
             taken == inserted(balances, a, left)
  <1>1. left \in Nat /\ balance_of(b) + n \in Nat
    BY BalanceNat DEF internal_transfer
  <1>2. Balances(taken)
    BY <1>1, BalancesNow, BalanceWritten
  <1>3. balances' = inserted(taken, b, balance_of(b) + n)
    BY DEF internal_transfer
  <1>4. Balances(balances')
    <2> HIDE DEF taken
    <2> QED BY <1>1, <1>2, <1>3, BalanceWritten
  <1>5. VestedTypeOK' \/ UNCHANGED vesting_vars
    BY RecordRemoved DEF internal_transfer, vesting_checked
  <1> QED
    BY <1>4, <1>5

(* What is given back is at most what the receiver has. *)
LEMMA RefundBounds ==
  ASSUME TokenTypeOK, NEW r \in TokenReceipts, token_calls[r] # no_call
  PROVE  /\ token_calls[r] \in TokenCall
         /\ refund_amount(token_calls[r]) \in Nat
         /\ refund_amount(token_calls[r]) <= balance_of(token_calls[r].receiver)
  <1>1. token_calls[r] \in TokenCall
    BY DEF TokenTypeOK
  <1>2. unused_amount(token_calls[r]) \in Nat
    BY <1>1 DEF unused_amount, TokenCall
  <1>3. balance_of(token_calls[r].receiver) \in Nat
    BY BalanceNat
  <1> QED
    BY <1>1, <1>2, <1>3 DEF refund_amount

LEMMA ResolveType ==
  ASSUME TokenTypeOK, NEW r \in TokenReceipts, ft_resolve_transfer(r)
  PROVE  TokenTypeOK'
  <1> DEFINE call == token_calls[r]
             n == refund_amount(call)
             left == balance_of(call.receiver) - n
             taken == inserted(balances, call.receiver, left)
  <1>1. call # no_call
    BY DEF ft_resolve_transfer, no_call
  <1>2. call \in TokenCall /\ n \in Nat /\ left \in Nat
    BY <1>1, RefundBounds, BalanceNat
  <1>3. call.receiver \in TokenHolders /\ call.sender \in TokenHolders
    BY <1>2 DEF TokenCall
  <1>4. Balances(taken)
    BY <1>2, <1>3, BalancesNow, BalanceWritten
  <1>5. Balances(balances') /\ total_supply' \in Int
    <2>1. CASE n = 0
      BY <2>1, BalancesNow DEF ft_resolve_transfer, refund_or_burn, supply_vars, TokenTypeOK
    <2>2. CASE n > 0 /\ call.sender \in DOMAIN balances
      <3>1. balances[call.sender] + n \in Nat
        BY <1>2, <2>2 DEF TokenTypeOK
      <3>2. /\ balances' = inserted(taken, call.sender, balances[call.sender] + n)
            /\ total_supply' = total_supply
        BY <2>2 DEF ft_resolve_transfer, refund_or_burn
      <3> HIDE DEF taken
      <3> QED BY <1>3, <1>4, <3>1, <3>2, BalanceWritten DEF TokenTypeOK
    <2>3. CASE n > 0 /\ call.sender \notin DOMAIN balances
      <3>1. balances' = taken /\ total_supply' = total_supply - n
        BY <2>3 DEF ft_resolve_transfer, refund_or_burn
      <3> HIDE DEF taken
      <3> QED BY <1>2, <1>4, <3>1 DEF TokenTypeOK
    <2> QED
      BY <1>2, <2>1, <2>2, <2>3
  <1>6. token_calls' \in [TokenReceipts -> TokenCall \cup {no_call}]
    BY DEF ft_resolve_transfer, TokenTypeOK
  <1> QED
    BY <1>5, <1>6, TypeFromParts DEF ft_resolve_transfer, TokenTypeOK
-----------------------------------------------------------------------------
(* Type correctness, one step per method. *)
LEMMA OwnerType ==
  ASSUME TokenTypeOK, OwnerStep
  PROVE  TokenTypeOK'
  <1>1. ASSUME NEW m \in Minters, add_minter(m)
        PROVE  TokenTypeOK'
    BY <1>1 DEF add_minter, TokenTypeOK, supply_vars, vesting_vars
  <1>2. ASSUME NEW m \in Minters, remove_minter(m)
        PROVE  TokenTypeOK'
    BY <1>2 DEF remove_minter, TokenTypeOK, supply_vars, vesting_vars
  <1>3. ASSUME NEW date \in LockDates, set_locked_until(date)
        PROVE  TokenTypeOK'
    BY <1>3, TokenAssumption DEF set_locked_until, TokenTypeOK, supply_vars, vesting_vars
  <1>4. ASSUME NEW a \in TokenHolders, terminate_vesting(a)
        PROVE  TokenTypeOK'
    <2> DEFINE left == balance_of(a) - get_locked_amount(a)
    <2>1. left \in Nat /\ get_locked_amount(a) \in Nat
      BY <1>4, BalanceNat, LockedNat DEF terminate_vesting
    <2>2. Balances(balances') /\ total_supply' \in Int
      <3>1. balances' = inserted(balances, a, left)
        BY <1>4 DEF terminate_vesting
      <3>2. Balances(inserted(balances, a, left))
        BY <2>1, BalancesNow, BalanceWritten
      <3>3. total_supply' = total_supply - get_locked_amount(a)
        BY <1>4 DEF terminate_vesting
      <3> QED BY <2>1, <3>1, <3>2, <3>3 DEF TokenTypeOK
    <2>3. VestedTypeOK'
      BY <1>4, RecordRemoved DEF terminate_vesting
    <2> QED
      BY <1>4, <2>2, <2>3, TypeFromParts DEF terminate_vesting, TokenTypeOK
  <1> QED
    BY <1>1, <1>2, <1>3, <1>4 DEF OwnerStep

LEMMA MintStepType ==
  ASSUME TokenTypeOK, MintStep
  PROVE  TokenTypeOK'
  <1>1. ASSUME NEW m \in Minters, NEW a \in TokenHolders, NEW n \in MintedAmounts,
               mint(m, a, n)
        PROVE  TokenTypeOK'
    <2>1. n \in Nat
      BY TokenAssumption
    <2>2. Balances(balances') /\ total_supply' \in Int
      BY <1>1, <2>1, MintType DEF mint
    <2> QED
      BY <1>1, <2>2, TypeFromParts DEF mint, TokenTypeOK
  <1>2. ASSUME NEW m \in Minters, NEW a \in TokenHolders, NEW n \in VestedAmounts,
               NEW s \in Schedules, mint_vested(m, a, n, s)
        PROVE  TokenTypeOK'
    <2>1. n \in Nat /\ s \in Schedule
      BY TokenAssumption
    <2>2. Balances(balances') /\ total_supply' \in Int
      BY <1>2, <2>1, MintType DEF mint_vested
    <2>3. [amount |-> n, schedule |-> s] \in VestingRecord
      BY <1>2, <2>1 DEF mint_vested, new_record, VestingRecord
    <2>4. VestedTypeOK'
      BY <1>2, <2>3, RecordInserted DEF mint_vested
    <2> QED
      BY <1>2, <2>2, <2>4, TypeFromParts DEF mint_vested, TokenTypeOK
  <1> QED
    BY <1>1, <1>2 DEF MintStep

LEMMA HolderType ==
  ASSUME TokenTypeOK, HolderStep
  PROVE  TokenTypeOK'
  <1>1. ASSUME NEW a \in TokenHolders, NEW b \in TokenHolders, NEW n \in MetaAmounts,
               ft_transfer(a, b, n)
        PROVE  TokenTypeOK'
    <2>1. n \in Nat
      BY TokenAssumption
    <2>2. Balances(balances') /\ (VestedTypeOK' \/ UNCHANGED vesting_vars)
      BY <1>1, <2>1, TransferType DEF ft_transfer
    <2> QED
      BY <1>1, <2>2, TypeFromParts DEF ft_transfer, internal_transfer, TokenTypeOK
  <1>2. ASSUME NEW a \in TokenHolders, NEW b \in TokenHolders, NEW n \in MetaAmounts,
               NEW r \in TokenReceipts, ft_transfer_call(r, a, b, n)
        PROVE  TokenTypeOK'
    <2>1. n \in Nat
      BY TokenAssumption
    <2>2. Balances(balances') /\ (VestedTypeOK' \/ UNCHANGED vesting_vars)
      BY <1>2, <2>1, TransferType DEF ft_transfer_call
    <2>3. token_calls' \in [TokenReceipts -> TokenCall \cup {no_call}]
      BY <1>2, <2>1 DEF ft_transfer_call, TokenTypeOK, TokenCall
    <2> QED
      BY <1>2, <2>2, <2>3, TypeFromParts DEF ft_transfer_call, internal_transfer, TokenTypeOK
  <1>3. ASSUME NEW r \in TokenReceipts, ft_on_transfer(r)
        PROVE  TokenTypeOK'
    <2>1. token_calls[r] \in TokenCall
      BY <1>3 DEF ft_on_transfer, TokenTypeOK, no_call
    <2>2. UnusedMeta \subseteq Nat
      BY TokenAssumption
    <2>3. token_calls' \in [TokenReceipts -> TokenCall \cup {no_call}]
      BY <1>3, <2>1, <2>2 DEF ft_on_transfer, TokenTypeOK, TokenCall
    <2> QED
      BY <1>3, <2>3 DEF ft_on_transfer, TokenTypeOK, supply_vars, vesting_vars
  <1>4. ASSUME NEW r \in TokenReceipts, ft_resolve_transfer(r)
        PROVE  TokenTypeOK'
    BY <1>4, ResolveType
  <1>5. ASSUME NEW a \in TokenHolders, storage_deposit(a)
        PROVE  TokenTypeOK'
    <2>1. Balances(balances')
      BY <1>5, BalancesNow, BalanceWritten DEF storage_deposit
    <2> QED
      BY <1>5, <2>1, TypeFromParts DEF storage_deposit, TokenTypeOK
  <1>6. ASSUME NEW a \in TokenHolders, NEW force \in BOOLEAN, storage_unregister(a, force)
        PROVE  TokenTypeOK'
    <2>1. Balances(balances') /\ total_supply' \in Int
      BY <1>6, BalancesNow, BalanceRemoved DEF storage_unregister, TokenTypeOK
    <2> QED
      BY <1>6, <2>1, TypeFromParts DEF storage_unregister, TokenTypeOK
  <1> QED
    BY <1>1, <1>2, <1>3, <1>4, <1>5, <1>6 DEF HolderStep

(***************************************************************************)
(* No balance is ever negative and the vesting records are counted exactly, *)
(* whatever is minted, transferred, refunded, terminated or unregistered,   *)
(* and in whatever order transfer calls are resolved.                       *)
(***************************************************************************)
THEOREM TokenTypeCorrect == TokenSpec => []TokenTypeOK
  <1>1. TokenInit => TokenTypeOK
    BY TokenAssumption, FS_EmptySet DEF TokenInit, TokenTypeOK
  <1>2. TokenTypeOK /\ [TokenNext]_token_vars => TokenTypeOK'
    <2> SUFFICES ASSUME TokenTypeOK, [TokenNext]_token_vars
                 PROVE  TokenTypeOK'
      OBVIOUS
    <2>1. CASE next_block
      BY <2>1 DEF next_block, TokenTypeOK, supply_vars, vesting_vars
    <2>2. CASE UNCHANGED token_vars
      BY <2>2 DEF token_vars, supply_vars, vesting_vars, TokenTypeOK
    <2> QED
      BY <2>1, <2>2, OwnerType, MintStepType, HolderType DEF TokenNext
  <1> QED
    BY <1>1, <1>2, PTL DEF TokenSpec
-----------------------------------------------------------------------------
(* A step that takes from nobody and ends no record keeps what is locked. *)
LEMMA NothingTaken ==
  ASSUME TokenTypeOK, NEW a \in DOMAIN vested, a \in DOMAIN vested',
         balance_of(a)' >= balance_of(a), balance_of(a)' \in Nat
  PROVE  locked_kept(a)
  BY BalanceNat DEF locked_kept

(* What a holder has after one balance was written. *)
LEMMA BalanceAfterWrite ==
  ASSUME TokenTypeOK, NEW a, NEW b, NEW n \in Nat,
         balances' = inserted(balances, b, n)
  PROVE  balance_of(a)' = IF a = b THEN n ELSE balance_of(a)
  BY DEF balance_of, inserted

LEMMA MintKeeps ==
  ASSUME TokenTypeOK, NEW a \in DOMAIN vested, NEW b, NEW n \in Nat,
         mint_into(b, n), DOMAIN vested \subseteq DOMAIN vested'
  PROVE  locked_kept(a)
  <1>1. balance_of(b) + n \in Nat
    BY BalanceNat
  <1>2. balance_of(a)' = IF a = b THEN balance_of(b) + n ELSE balance_of(a)
    BY <1>1, BalanceAfterWrite DEF mint_into
  <1> QED
    BY <1>1, <1>2, NothingTaken, BalanceNat

LEMMA TransferKeeps ==
  ASSUME TokenTypeOK, NEW s \in TokenHolders, NEW b \in TokenHolders, NEW n \in Nat,
         internal_transfer(s, b, n), NEW a \in DOMAIN vested
  PROVE  locked_kept(a)
  <1> DEFINE left == balance_of(s) - n
  <1>1. left \in Nat /\ balance_of(a) \in Nat /\ balance_of(b) + n \in Nat
    BY BalanceNat DEF internal_transfer
  <1>2. balance_of(a)' = IF a = b THEN balance_of(b) + n
                         ELSE IF a = s THEN left ELSE balance_of(a)
    BY DEF internal_transfer, balance_of, inserted
  <1>3. vested_count > 0
    <2>1. Cardinality(DOMAIN vested) # 0
      BY VestedFinite, FS_EmptySet
    <2> QED
      BY <2>1, VestedFinite DEF TokenTypeOK
  <1>4. CASE a # s
    <2>1. a \in DOMAIN vested'
      BY <1>4, RecordRemoved DEF internal_transfer, vesting_checked, vesting_vars
    <2>2. balance_of(a)' >= balance_of(a) /\ balance_of(a)' \in Nat
      BY <1>1, <1>2, <1>4
    <2> QED
      BY <2>1, <2>2, NothingTaken
  <1>5. CASE a = s
    <2>1. balance_of(a)' = left
      BY <1>2, <1>5 DEF internal_transfer
    <2>2. \/ get_locked_amount(a) = 0
          \/ left >= get_locked_amount(a) /\ UNCHANGED vesting_vars
      BY <1>3, <1>5 DEF internal_transfer, vesting_checked
    <2> HIDE DEF left
    <2> QED
      BY <1>1, <2>1, <2>2, LockedNat DEF locked_kept, vesting_vars
  <1> QED
    BY <1>4, <1>5

LEMMA TerminationKeeps ==
  ASSUME TokenTypeOK, NEW b \in TokenHolders, terminate_vesting(b),
         NEW a \in DOMAIN vested
  PROVE  locked_kept(a)
  <1>1. CASE a = b
    <2>1. a \notin DOMAIN vested' /\ total_supply' = total_supply - get_locked_amount(a)
      BY <1>1, RecordRemoved DEF terminate_vesting
    <2> QED
      BY <2>1 DEF locked_kept
  <1>2. CASE a # b
    <2>1. a \in DOMAIN vested'
      BY <1>2, RecordRemoved DEF terminate_vesting
    <2>2. balance_of(a)' = balance_of(a)
      BY <1>2 DEF terminate_vesting, balance_of, inserted
    <2> QED
      BY <2>1, <2>2, NothingTaken, BalanceNat
  <1> QED
    BY <1>1, <1>2

LEMMA ResolutionKeeps ==
  ASSUME TokenTypeOK, NEW r \in TokenReceipts, ft_resolve_transfer(r),
         NEW a \in DOMAIN vested
  PROVE  locked_kept(a)
  <1> DEFINE call == token_calls[r]
             n == refund_amount(call)
  <1>1. call # no_call /\ token_calls'[r] = no_call
    BY DEF ft_resolve_transfer, no_call, TokenTypeOK
  <1>2. UNCHANGED vested
    BY DEF ft_resolve_transfer, vesting_vars
  <1>3. CASE a = call.receiver
    <2>1. gave_back(a)
      BY <1>1, <1>3 DEF gave_back
    <2> QED
      BY <1>2, <2>1 DEF locked_kept
  <1>4. CASE a # call.receiver
    <2>1. n \in Nat
      BY <1>1, RefundBounds
    <2>2. balance_of(a)' >= balance_of(a) /\ balance_of(a)' \in Nat
      <3>1. CASE n = 0
        BY <3>1, BalanceNat DEF ft_resolve_transfer, refund_or_burn, supply_vars, balance_of
      <3>2. CASE n > 0 /\ call.sender \in DOMAIN balances
        <4> DEFINE taken == inserted(balances, call.receiver, balance_of(call.receiver) - n)
        <4>1. balances' = inserted(taken, call.sender, balances[call.sender] + n)
          BY <3>2 DEF ft_resolve_transfer, refund_or_burn
        <4>2. balance_of(a)' = IF a = call.sender THEN balance_of(a) + n ELSE balance_of(a)
          BY <1>4, <3>2, <4>1 DEF balance_of, inserted
        <4> QED
          BY <2>1, <4>2, BalanceNat
      <3>3. CASE n > 0 /\ call.sender \notin DOMAIN balances
        <4>1. balances' = inserted(balances, call.receiver, balance_of(call.receiver) - n)
          BY <3>3 DEF ft_resolve_transfer, refund_or_burn
        <4>2. balance_of(a)' = balance_of(a)
          BY <1>4, <4>1 DEF balance_of, inserted
        <4> QED
          BY <4>2, BalanceNat
      <3> QED
        BY <2>1, <3>1, <3>2, <3>3
    <2> QED
      BY <1>2, <2>2, NothingTaken
  <1> QED
    BY <1>3, <1>4

LEMMA AccountStepKeeps ==
  ASSUME TokenTypeOK, NEW b \in TokenHolders, NEW a \in DOMAIN vested,
         storage_deposit(b) \/ \E force \in BOOLEAN : storage_unregister(b, force)
  PROVE  locked_kept(a)
  <1>1. UNCHANGED vested
    BY DEF storage_deposit, storage_unregister, vesting_vars
  <1>2. CASE storage_deposit(b)
    <2>1. balance_of(a)' = balance_of(a)
      BY <1>2 DEF storage_deposit, balance_of, inserted
    <2> QED
      BY <1>1, <2>1, NothingTaken, BalanceNat
  <1>3. CASE \E force \in BOOLEAN : storage_unregister(b, force)
    <2>1. CASE a = b
      <3>1. a \in DOMAIN balances /\ a \notin DOMAIN balances'
        BY <1>3, <2>1 DEF storage_unregister, without
      <3> QED
        BY <1>1, <3>1 DEF locked_kept
    <2>2. CASE a # b
      <3>1. balance_of(a)' = balance_of(a)
        BY <1>3, <2>2 DEF storage_unregister, balance_of, without
      <3> QED
        BY <1>1, <3>1, NothingTaken, BalanceNat
    <2> QED
      BY <2>1, <2>2
  <1> QED
    BY <1>2, <1>3

LEMMA NoBalanceStepKeeps ==
  ASSUME TokenTypeOK, UNCHANGED <<balances, vested>>, NEW a \in DOMAIN vested
  PROVE  locked_kept(a)
  <1>1. balance_of(a)' = balance_of(a)
    BY DEF balance_of
  <1> QED
    BY <1>1, NothingTaken, BalanceNat

LEMMA TokenStepKeeps ==
  ASSUME TokenTypeOK, TokenNext, NEW a \in DOMAIN vested
  PROVE  locked_kept(a)
  <1>1. CASE OwnerStep
    <2>1. ASSUME NEW m \in Minters, add_minter(m) \/ remove_minter(m)
          PROVE  locked_kept(a)
      BY <2>1, NoBalanceStepKeeps DEF add_minter, remove_minter, supply_vars, vesting_vars
    <2>2. ASSUME NEW date \in LockDates, set_locked_until(date)
          PROVE  locked_kept(a)
      BY <2>2, NoBalanceStepKeeps DEF set_locked_until, supply_vars, vesting_vars
    <2> QED
      BY <1>1, <2>1, <2>2, TerminationKeeps DEF OwnerStep
  <1>2. CASE MintStep
    <2>1. ASSUME NEW m \in Minters, NEW b \in TokenHolders, NEW n \in MintedAmounts,
                 mint(m, b, n)
          PROVE  locked_kept(a)
      BY <2>1, TokenAssumption, MintKeeps DEF mint, vesting_vars
    <2>2. ASSUME NEW m \in Minters, NEW b \in TokenHolders, NEW n \in VestedAmounts,
                 NEW s \in Schedules, mint_vested(m, b, n, s)
          PROVE  locked_kept(a)
      <3>1. DOMAIN vested \subseteq DOMAIN vested'
        BY <2>2 DEF mint_vested, vesting_inserted, inserted
      <3> QED
        BY <2>2, <3>1, TokenAssumption, MintKeeps DEF mint_vested
    <2> QED
      BY <1>2, <2>1, <2>2 DEF MintStep
  <1>3. CASE HolderStep
    <2>1. ASSUME NEW s \in TokenHolders, NEW b \in TokenHolders, NEW n \in MetaAmounts,
                 ft_transfer(s, b, n) \/ \E r \in TokenReceipts : ft_transfer_call(r, s, b, n)
          PROVE  locked_kept(a)
      BY <2>1, TokenAssumption, TransferKeeps DEF ft_transfer, ft_transfer_call
    <2>2. ASSUME NEW r \in TokenReceipts, ft_on_transfer(r)
          PROVE  locked_kept(a)
      BY <2>2, NoBalanceStepKeeps DEF ft_on_transfer, supply_vars, vesting_vars
    <2> QED
      BY <1>3, <2>1, <2>2, ResolutionKeeps, AccountStepKeeps DEF HolderStep
  <1>4. CASE next_block
    BY <1>4, NoBalanceStepKeeps DEF next_block, supply_vars, vesting_vars
  <1> QED
    BY <1>1, <1>2, <1>3, <1>4 DEF TokenNext

(***************************************************************************)
(* What is locked stays with its holder: no transfer takes it, whichever    *)
(* record is checked when, and no record ends while it still locks META but *)
(* with that META burned.                                                   *)
(***************************************************************************)
THEOREM LockedStays == TokenSpec => LockedKept
  <1>1. TokenTypeOK /\ [TokenNext]_token_vars
          => [\A a \in DOMAIN vested : locked_kept(a)]_token_vars
    BY TokenStepKeeps
  <1> QED
    BY <1>1, TokenTypeCorrect, PTL DEF TokenSpec, LockedKept
-----------------------------------------------------------------------------
(* The sum of the balances, after one is written, and after one is removed. *)
LEMMA SumAfterWrite ==
  ASSUME NEW map, Balances(map), NEW a \in TokenHolders, NEW n \in Nat
  PROVE  /\ SumFunction(map) \in Int
         /\ SumFunction(inserted(map, a, n))
              = SumFunction(map) + (n - (IF a \in DOMAIN map THEN map[a] ELSE 0))
  <1> DEFINE S == DOMAIN map
             h == inserted(map, a, n)
  <1>1. IsFiniteSet(S) /\ IsFiniteSet(S \cup {a})
    BY TokenAssumption, FS_Subset DEF Balances
  <1>2. /\ DOMAIN h = S \cup {a} /\ h[a] = n
        /\ \A x \in S : map[x] \in Int
        /\ \A x \in S \cup {a} : h[x] \in Int
        /\ \A x \in S \ {a} : h[x] = map[x]
    BY DEF Balances, inserted
  <1>3. SumFunction(map) \in Int
    BY <1>1, <1>2, SumInt DEF SumFunction
  <1>4. CASE a \in S
    <2> HIDE DEF h
    <2>1. S \cup {a} = S
      BY <1>4
    <2>2. SumFunctionOnSet(h, S) = SumFunctionOnSet(map, S) + (h[a] - map[a])
      <3>1. /\ IsFiniteSet(S) /\ a \in S
            /\ \A x \in S : map[x] \in Int /\ h[x] \in Int
            /\ \A x \in S \ {a} : h[x] = map[x]
        BY <1>1, <1>2, <1>4
      <3> HIDE DEF S
      <3> QED BY <3>1, SumOfOneChange
    <2>3. SumFunction(h) = SumFunctionOnSet(h, S)
      BY <1>2, <2>1 DEF SumFunction
    <2>4. SumFunction(map) = SumFunctionOnSet(map, S)
      BY DEF SumFunction
    <2> QED
      BY <1>2, <1>3, <1>4, <2>2, <2>3, <2>4 DEF h
  <1>5. CASE a \notin S
    <2> HIDE DEF h
    <2>1. SumFunctionOnSet(h, S \cup {a}) = h[a] + SumFunctionOnSet(h, (S \cup {a}) \ {a})
      <3> DEFINE T == S \cup {a}
      <3>1. IsFiniteSet(T) /\ a \in T /\ \A x \in T : h[x] \in Int
        BY <1>1, <1>2
      <3> HIDE DEF T
      <3>2. SumFunctionOnSet(h, T) = h[a] + SumFunctionOnSet(h, T \ {a})
        BY <3>1, SumWithElement
      <3> QED BY <3>2 DEF T
    <2>2. (S \cup {a}) \ {a} = S
      BY <1>5
    <2>3. SumFunctionOnSet(h, S) = SumFunctionOnSet(map, S)
      <3>1. /\ IsFiniteSet(S) /\ a \notin S
            /\ \A x \in S : map[x] \in Int /\ h[x] \in Int
            /\ \A x \in S \ {a} : h[x] = map[x]
            /\ SumFunctionOnSet(map, S) \in Int
        BY <1>1, <1>2, <1>3, <1>5 DEF SumFunction
      <3> HIDE DEF S
      <3>2. SumFunctionOnSet(h, S)
              = SumFunctionOnSet(map, S) + (IF a \in S THEN h[a] - map[a] ELSE 0)
        BY <3>1, SumChanges
      <3> QED BY <3>1, <3>2
    <2>4. SumFunction(h) = n + SumFunction(map)
      BY <1>2, <2>1, <2>2, <2>3 DEF SumFunction
    <2> QED
      BY <1>3, <1>5, <2>4 DEF h
  <1> QED
    BY <1>3, <1>4, <1>5

LEMMA SumAfterRemoval ==
  ASSUME NEW map, Balances(map), NEW a \in DOMAIN map
  PROVE  /\ SumFunction(map) \in Int
         /\ SumFunction(without(map, a)) = SumFunction(map) - map[a]
  <1> DEFINE S == DOMAIN map
             T == S \ {a}
             h == without(map, a)
  <1>1. IsFiniteSet(S) /\ IsFiniteSet(T)
    BY TokenAssumption, FS_Subset DEF Balances
  <1>2. /\ DOMAIN h = T
        /\ \A x \in S : map[x] \in Int
        /\ \A x \in T : h[x] \in Int /\ h[x] = map[x]
    BY DEF Balances, without
  <1>3. SumFunctionOnSet(map, S) = map[a] + SumFunctionOnSet(map, T)
    <2> HIDE DEF S
    <2> QED BY <1>1, <1>2, SumWithElement DEF S
  <1>4. SumFunctionOnSet(map, T) \in Int
    <2>1. \A x \in T : map[x] \in Int
      BY <1>2
    <2> HIDE DEF T
    <2> QED BY <1>1, <2>1, SumInt
  <1>5. SumFunctionOnSet(h, T) = SumFunctionOnSet(map, T)
    <2>1. /\ IsFiniteSet(T) /\ a \notin T
          /\ \A x \in T : map[x] \in Int /\ h[x] \in Int
          /\ \A x \in T \ {a} : h[x] = map[x]
      BY <1>1, <1>2
    <2> HIDE DEF T, h
    <2>2. SumFunctionOnSet(h, T)
            = SumFunctionOnSet(map, T) + (IF a \in T THEN h[a] - map[a] ELSE 0)
      BY <2>1, SumChanges
    <2> QED BY <1>4, <2>1, <2>2
  <1>6. SumFunction(h) = SumFunctionOnSet(h, T) /\ SumFunction(map) = SumFunctionOnSet(map, S)
    BY <1>2 DEF SumFunction
  <1> HIDE DEF T, h
  <1> QED
    BY <1>2, <1>3, <1>4, <1>5, <1>6 DEF h

LEMMA WriteKeepsSupply ==
  ASSUME TokenTypeOK, SupplyIsBalances, NEW a \in TokenHolders, NEW n \in Nat,
         balances' = inserted(balances, a, n),
         total_supply' = total_supply + (n - balance_of(a))
  PROVE  SupplyIsBalances'
  <1>1. SumFunction(inserted(balances, a, n))
          = SumFunction(balances) + (n - (IF a \in DOMAIN balances THEN balances[a] ELSE 0))
    BY BalancesNow, SumAfterWrite
  <1> QED
    BY <1>1 DEF SupplyIsBalances, balance_of

(* The two balances of a transfer, or of a refund, of accounts that differ. *)
LEMMA MoveKeepsSupply ==
  ASSUME TokenTypeOK, SupplyIsBalances, NEW a \in TokenHolders, NEW b \in TokenHolders,
         a # b, NEW n \in Nat, n <= balance_of(a),
         balances' = inserted(inserted(balances, a, balance_of(a) - n), b, balance_of(b) + n),
         UNCHANGED total_supply
  PROVE  SupplyIsBalances'
  <1> DEFINE x == balance_of(a)
             y == balance_of(b)
             taken == inserted(balances, a, x - n)
             there == IF b \in DOMAIN taken THEN taken[b] ELSE 0
  <1>1. x \in Nat /\ y \in Nat /\ x - n \in Nat /\ y + n \in Nat
    BY BalanceNat
  <1>2. Balances(taken)
    <2> HIDE DEF x
    <2> QED BY <1>1, BalancesNow, BalanceWritten
  <1>3. there = y
    BY DEF inserted, balance_of
  <1>4. SumFunction(balances) \in Int
        /\ SumFunction(taken) = SumFunction(balances) + ((x - n) - x)
    <2>1. x = IF a \in DOMAIN balances THEN balances[a] ELSE 0
      BY DEF balance_of
    <2> HIDE DEF x
    <2> QED BY <1>1, <2>1, BalancesNow, SumAfterWrite
  <1>5. SumFunction(inserted(taken, b, y + n)) = SumFunction(taken) + ((y + n) - there)
    <2> HIDE DEF taken, y
    <2> QED BY <1>1, <1>2, SumAfterWrite
  <1>6. SumFunction(inserted(taken, b, y + n)) = SumFunction(balances)
    <2> HIDE DEF taken, x, y, there
    <2> QED BY <1>1, <1>3, <1>4, <1>5
  <1> QED
    BY <1>6 DEF SupplyIsBalances

LEMMA SupplyUntouched ==
  ASSUME SupplyIsBalances, UNCHANGED supply_vars
  PROVE  SupplyIsBalances'
  BY DEF SupplyIsBalances, supply_vars

LEMMA MintKeepsSupply ==
  ASSUME TokenTypeOK, SupplyIsBalances, NEW a \in TokenHolders, NEW n \in Nat,
         mint_into(a, n)
  PROVE  SupplyIsBalances'
  <1> DEFINE x == balance_of(a)
  <1>1. x \in Nat /\ x + n \in Nat /\ (x + n) - x = n
    BY BalanceNat
  <1>2. balances' = inserted(balances, a, x + n) /\ total_supply' = total_supply + n
    BY DEF mint_into
  <1>3. total_supply' = total_supply + ((x + n) - balance_of(a))
    BY <1>1, <1>2
  <1> HIDE DEF x
  <1> QED
    BY <1>1, <1>2, <1>3, WriteKeepsSupply

LEMMA TransferKeepsSupply ==
  ASSUME TokenTypeOK, SupplyIsBalances, NEW a \in TokenHolders, NEW b \in TokenHolders,
         NEW n \in Nat, internal_transfer(a, b, n)
  PROVE  SupplyIsBalances'
  BY MoveKeepsSupply DEF internal_transfer

LEMMA TerminationKeepsSupply ==
  ASSUME TokenTypeOK, SupplyIsBalances, NEW a \in TokenHolders, terminate_vesting(a)
  PROVE  SupplyIsBalances'
  <1> DEFINE x == balance_of(a)
             n == get_locked_amount(a)
  <1>1. /\ balances' = inserted(balances, a, x - n)
        /\ total_supply' = total_supply - n
        /\ x >= n
    BY DEF terminate_vesting
  <1>2. x \in Nat /\ n \in Nat /\ total_supply \in Int
    BY BalanceNat, LockedNat DEF TokenTypeOK
  <1> HIDE DEF n
  <1>3. x - n \in Nat /\ total_supply' = total_supply + ((x - n) - x)
    <2> HIDE DEF x
    <2> QED BY <1>1, <1>2
  <1> QED
    BY <1>1, <1>3, WriteKeepsSupply

(***************************************************************************)
(* A transfer call is between two accounts: a refund that wrote the balance *)
(* of one account twice would leave META in it that nobody minted.          *)
(***************************************************************************)
CallsAreBetweenTwo ==
  \A r \in TokenReceipts :
    token_calls[r] # no_call => token_calls[r].sender # token_calls[r].receiver

LEMMA ResolutionKeepsSupply ==
  ASSUME TokenTypeOK, SupplyIsBalances, CallsAreBetweenTwo,
         NEW r \in TokenReceipts, ft_resolve_transfer(r)
  PROVE  SupplyIsBalances'
  <1> DEFINE call == token_calls[r]
             n == refund_amount(call)
             from == call.receiver
             to == call.sender
             x == balance_of(from)
  <1>1. call # no_call
    BY DEF ft_resolve_transfer, no_call
  <1>2. /\ n \in Nat /\ n <= x /\ x \in Nat /\ total_supply \in Int
        /\ from \in TokenHolders /\ to \in TokenHolders /\ from # to
    BY <1>1, RefundBounds, BalanceNat DEF TokenCall, CallsAreBetweenTwo, TokenTypeOK
  <1>3. CASE n = 0
    BY <1>3, SupplyUntouched DEF ft_resolve_transfer, refund_or_burn, supply_vars
  <1>4. CASE n > 0 /\ to \in DOMAIN balances
    <2>1. /\ balances' = inserted(inserted(balances, from, balance_of(from) - n), to,
                                  balances[to] + n)
          /\ UNCHANGED total_supply
      BY <1>4 DEF ft_resolve_transfer, refund_or_burn
    <2>2. balances[to] = balance_of(to)
      BY <1>4 DEF balance_of
    <2> HIDE DEF n, from, to, call
    <2> QED
      BY <1>2, <2>1, <2>2, MoveKeepsSupply
  <1>5. CASE n > 0 /\ to \notin DOMAIN balances
    <2>1. balances' = inserted(balances, from, x - n) /\ total_supply' = total_supply - n
      BY <1>5 DEF ft_resolve_transfer, refund_or_burn
    <2> HIDE DEF n, from, to, call
    <2>2. x - n \in Nat /\ total_supply' = total_supply + ((x - n) - x)
      <3> HIDE DEF x
      <3> QED BY <1>2, <2>1
    <2> QED
      BY <1>2, <2>1, <2>2, WriteKeepsSupply
  <1> QED
    BY <1>2, <1>3, <1>4, <1>5

LEMMA RegistrationKeepsSupply ==
  ASSUME TokenTypeOK, SupplyIsBalances, NEW a \in TokenHolders,
         storage_deposit(a) \/ \E force \in BOOLEAN : storage_unregister(a, force)
  PROVE  SupplyIsBalances'
  <1>1. CASE storage_deposit(a)
    <2>1. /\ balances' = inserted(balances, a, 0)
          /\ total_supply' = total_supply /\ balance_of(a) = 0
      BY <1>1 DEF storage_deposit, balance_of
    <2>2. total_supply' = total_supply + (0 - balance_of(a))
      BY <2>1 DEF TokenTypeOK
    <2> QED
      BY <2>1, <2>2, WriteKeepsSupply
  <1>2. CASE \E force \in BOOLEAN : storage_unregister(a, force)
    <2>1. /\ a \in DOMAIN balances
          /\ balances' = without(balances, a)
          /\ total_supply' = total_supply - balances[a]
      BY <1>2 DEF storage_unregister
    <2>2. SumFunction(without(balances, a)) = SumFunction(balances) - balances[a]
      BY <2>1, BalancesNow, SumAfterRemoval
    <2> QED
      BY <2>1, <2>2 DEF SupplyIsBalances
  <1> QED
    BY <1>1, <1>2

LEMMA CallsStayBetweenTwo ==
  ASSUME TokenTypeOK, CallsAreBetweenTwo, [TokenNext]_token_vars
  PROVE  CallsAreBetweenTwo'
  <1>1. CASE UNCHANGED token_calls
    BY <1>1 DEF CallsAreBetweenTwo
  <1>2. ASSUME NEW a \in TokenHolders, NEW b \in TokenHolders, NEW n \in MetaAmounts,
               NEW r \in TokenReceipts, ft_transfer_call(r, a, b, n)
        PROVE  CallsAreBetweenTwo'
    <2>1. a # b
      BY <1>2 DEF ft_transfer_call, internal_transfer
    <2>2. token_calls' = [token_calls EXCEPT ![r] =
            [sender |-> a, receiver |-> b, amount |-> n, status |-> "sent", unused |-> 0]]
      BY <1>2 DEF ft_transfer_call
    <2>3. DOMAIN token_calls = TokenReceipts
      BY DEF TokenTypeOK
    <2> QED
      BY <2>1, <2>2, <2>3 DEF CallsAreBetweenTwo
  <1>3. ASSUME NEW r \in TokenReceipts, ft_on_transfer(r)
        PROVE  CallsAreBetweenTwo'
    <2>1. token_calls[r] \in TokenCall /\ token_calls[r] # no_call
      BY <1>3 DEF ft_on_transfer, TokenTypeOK, no_call
    <2>2. /\ token_calls'[r].sender = token_calls[r].sender
          /\ token_calls'[r].receiver = token_calls[r].receiver
          /\ \A x \in TokenReceipts \ {r} : token_calls'[x] = token_calls[x]
      BY <1>3, <2>1 DEF ft_on_transfer, TokenTypeOK, TokenCall
    <2> QED
      BY <2>1, <2>2 DEF CallsAreBetweenTwo
  <1>4. ASSUME NEW r \in TokenReceipts, ft_resolve_transfer(r)
        PROVE  CallsAreBetweenTwo'
    BY <1>4 DEF ft_resolve_transfer, TokenTypeOK, CallsAreBetweenTwo
  <1> QED
    BY <1>1, <1>2, <1>3, <1>4
    DEF TokenNext, token_vars, OwnerStep, MintStep, HolderStep, add_minter, remove_minter,
        set_locked_until, terminate_vesting, mint, mint_vested, ft_transfer,
        storage_deposit, storage_unregister, next_block

LEMMA TokenStepKeepsSupply ==
  ASSUME TokenTypeOK, SupplyIsBalances, CallsAreBetweenTwo, [TokenNext]_token_vars
  PROVE  SupplyIsBalances'
  <1>1. CASE UNCHANGED supply_vars
    BY <1>1, SupplyUntouched
  <1>2. ASSUME NEW a \in TokenHolders, terminate_vesting(a)
        PROVE  SupplyIsBalances'
    BY <1>2, TerminationKeepsSupply
  <1>3. CASE MintStep
    BY <1>3, TokenAssumption, MintKeepsSupply DEF MintStep, mint, mint_vested
  <1>4. ASSUME NEW a \in TokenHolders, NEW b \in TokenHolders, NEW n \in MetaAmounts,
               internal_transfer(a, b, n)
        PROVE  SupplyIsBalances'
    BY <1>4, TokenAssumption, TransferKeepsSupply
  <1>5. ASSUME NEW r \in TokenReceipts, ft_resolve_transfer(r)
        PROVE  SupplyIsBalances'
    BY <1>5, ResolutionKeepsSupply
  <1>6. CASE OwnerStep
    BY <1>1, <1>2, <1>6 DEF OwnerStep, add_minter, remove_minter, set_locked_until
  <1>7. CASE HolderStep
    BY <1>1, <1>4, <1>5, <1>7, RegistrationKeepsSupply
    DEF HolderStep, ft_transfer, ft_transfer_call, ft_on_transfer
  <1> QED
    BY <1>1, <1>3, <1>6, <1>7 DEF TokenNext, token_vars, next_block

LEMMA TokenStarts == TokenInit => TokenTypeOK /\ SupplyIsBalances /\ CallsAreBetweenTwo
  <1> SUFFICES ASSUME TokenInit PROVE TokenTypeOK /\ SupplyIsBalances /\ CallsAreBetweenTwo
    OBVIOUS
  <1>1. SumFunctionOnSet(balances, {}) = 0
    BY FS_EmptySet, SumZero
  <1>2. DOMAIN balances = {}
    BY DEF TokenInit
  <1>3. TokenTypeOK
    BY TokenAssumption, FS_EmptySet DEF TokenInit, TokenTypeOK
  <1> QED
    BY <1>1, <1>2, <1>3 DEF TokenInit, SupplyIsBalances, SumFunction, CallsAreBetweenTwo

(***************************************************************************)
(* The supply is the sum of the balances, in whatever order transfer calls  *)
(* are answered and resolved, and whoever registered, left or received      *)
(* while they were in flight: a refund gives no more than its receiver has, *)
(* and burns it if its sender left.                                         *)
(***************************************************************************)
THEOREM SupplyIsTheSum == TokenSpec => []SupplyIsBalances
  <1>1. TokenInit => SupplyIsBalances /\ CallsAreBetweenTwo
    BY TokenStarts
  <1>2. TokenTypeOK /\ SupplyIsBalances /\ CallsAreBetweenTwo /\ [TokenNext]_token_vars
          => (SupplyIsBalances /\ CallsAreBetweenTwo)'
    BY TokenStepKeepsSupply, CallsStayBetweenTwo
  <1> QED
    BY <1>1, <1>2, TokenTypeCorrect, PTL DEF TokenSpec

-----------------------------------------------------------------------------
(* The rewards. What is granted, realized and being minted are amounts; a   *)
(* meter may be negative, as its i128 is.                                   *)
RewardsTyped ==
  /\ staking_meter \in [Harvester -> Int] /\ lp_meter \in [Harvester -> Int]
  /\ realized_meta \in [Harvester -> Nat] /\ total_meta \in Nat
  /\ est_meta_rewards \in [Reward -> Int] /\ mult_pct \in [Reward -> Nat]
  /\ harvests \in [HarvestReceipts -> Harvest \cup {no_call}]
  /\ harvested \in Nat

LEMMA Harvesters ==
  /\ Users \subseteq Harvester /\ Operator \in Harvester /\ Developers \in Harvester
  /\ Harvester \subseteq Accounts /\ IsFiniteSet(Harvester)
  /\ HarvestCallers \subseteq Harvester
  BY AccountsFinite, AccountsAssumption, AccountNames, MetaAssumption DEF Harvester

(* utils.rs:67. What is left of a multiplier is a multiplier. *)
LEMMA DampedNat ==
  ASSUME NEW multiplier \in Nat, NEW distributed \in Int, NEW max \in Nat, max >= 2
  PROVE  damped(multiplier, distributed, max) \in Nat
  <1> DEFINE half == max \div 2
             excess == distributed - max
             left == multiplier - proportional(multiplier, excess, half)
  <1>1. half \in Nat \ {0} /\ excess \in Int
    OBVIOUS
  <1> HIDE DEF half, excess
  <1>2. CASE multiplier <= 10 \/ distributed < max
    BY <1>2 DEF damped
  <1>3. CASE ~(multiplier <= 10 \/ distributed < max) /\ excess > half
    BY <1>3 DEF damped, half, excess
  <1>4. CASE ~(multiplier <= 10 \/ distributed < max) /\ ~(excess > half)
    <2>1. excess \in Nat
      BY <1>4 DEF excess
    <2>2. proportional(multiplier, excess, half) \in Nat
      BY <1>1, <2>1, ProportionalNat
    <2>3. left \in Int
      <3> HIDE DEF half
      <3> QED BY <2>2
    <2>4. damped(multiplier, distributed, max) = IF left < 10 THEN 10 ELSE left
      BY <1>4 DEF damped, left, half, excess
    <2> HIDE DEF left
    <2> QED
      BY <2>3, <2>4
  <1> QED
    BY <1>2, <1>3, <1>4

LEMMA MultipliedNat ==
  ASSUME NEW amount \in Nat, NEW percentage \in Nat
  PROVE  apply_multiplier(amount, percentage) \in Nat
  <1>1. amount * (percentage * 10) \in Nat
    BY ProductNat
  <1> QED
    BY <1>1, DivisionBounds DEF apply_multiplier

LEMMA RewardNat ==
  ASSUME RewardsTyped, NEW w \in Reward
  PROVE  /\ damped(mult_pct[w], est_meta_rewards[w], MaxMetaRewards[w]) \in Nat
         /\ \A d \in Int : damped(mult_pct[w], d, MaxMetaRewards[w]) \in Nat
         /\ \A n \in Nat : damp_multiplier(n, w) \in Nat
         /\ \A n \in Int : damp_multiplier(n, w) \in Int
  <1>1. /\ mult_pct[w] \in Nat /\ est_meta_rewards[w] \in Int
        /\ MaxMetaRewards[w] \in Nat /\ MaxMetaRewards[w] >= 2
    BY MetaAssumption DEF RewardsTyped
  <1>2. \A d \in Int : damped(mult_pct[w], d, MaxMetaRewards[w]) \in Nat
    BY <1>1, DampedNat
  <1>3. \A n \in Int, m \in Nat : apply_multiplier(n, m) \in Int
    <2> TAKE n \in Int, m \in Nat
    <2>1. n * (m * 10) \in Int
      BY ProductDistributes
    <2> QED
      BY <2>1 DEF apply_multiplier
  <1> QED
    BY <1>1, <1>2, <1>3, MultipliedNat DEF damp_multiplier

LEMMA RewardsNat ==
  ASSUME RewardsTyped, NEW valued \in Nat, NEW meter \in Int, NEW w \in Reward
  PROVE  compute_rewards(valued, meter, w) \in Nat
  <1>1. ~(meter < 0 \/ meter >= valued) => valued - meter \in Nat
    OBVIOUS
  <1> QED
    BY <1>1, RewardNat DEF compute_rewards

LEMMA PendingNat ==
  ASSUME TypeOK, RewardsTyped, NEW a \in Harvester
  PROVE  /\ valued_stake(a) \in Nat /\ valued_lp(a) \in Nat
         /\ staking_pending(a) \in Nat /\ lp_pending(a) \in Nat /\ all_pending(a) \in Nat
  <1>1. accounts[a].stake_shares \in Nat /\ accounts[a].nslp_shares \in Nat
    BY Harvesters DEF TypeOK, Account
  <1>2. valued_stake(a) \in Nat /\ valued_lp(a) \in Nat
    BY <1>1, ValuesNat DEF valued_stake, valued_lp
  <1>3. staking_meter[a] \in Int /\ lp_meter[a] \in Int
    BY DEF RewardsTyped
  <1>4. staking_pending(a) \in Nat /\ lp_pending(a) \in Nat
    BY <1>2, <1>3, RewardsNat DEF staking_pending, lp_pending, Reward
  <1> QED
    BY <1>2, <1>4 DEF all_pending


-----------------------------------------------------------------------------
(* META that is granted to one account, and what the sale grants to three.   *)
Total(amounts) == SumFunctionOnSet(amounts, Harvester)

(* So much more is granted than realized; harvests are as they were. *)
Granted(unrealized) ==
  /\ realized_meta' \in [Harvester -> Nat] /\ total_meta' \in Nat
  /\ (total_meta' - Total(realized_meta')) - (total_meta - Total(realized_meta)) = unrealized

LEMMA RealizedSum ==
  ASSUME NEW f, f \in [Harvester -> Nat]
  PROVE  SumFunction(f) = Total(f) /\ Total(f) \in Nat
  BY Harvesters, SumNat DEF SumFunction, Total

LEMMA TotalOfOne ==
  ASSUME NEW f \in [Harvester -> Nat], NEW h \in [Harvester -> Nat], NEW z \in Harvester,
         \A x \in Harvester \ {z} : h[x] = f[x]
  PROVE  Total(h) = Total(f) + (h[z] - f[z])
  <1>1. \A x \in Harvester : f[x] \in Int /\ h[x] \in Int
    OBVIOUS
  <1> QED
    BY <1>1, Harvesters, SumOfOneChange DEF Total

LEMMA GrantedToOne ==
  ASSUME RewardsTyped, NEW a \in Harvester, NEW n \in Nat, granted(a, n)
  PROVE  Granted(0)
  <1>1. /\ realized_meta \in [Harvester -> Nat] /\ total_meta \in Nat
        /\ realized_meta' = [realized_meta EXCEPT ![a] = @ + n]
        /\ total_meta' = total_meta + n
    BY DEF RewardsTyped, granted
  <1>2. realized_meta' \in [Harvester -> Nat]
    BY <1>1
  <1>3. Total(realized_meta') = Total(realized_meta) + (realized_meta'[a] - realized_meta[a])
    BY <1>1, <1>2, TotalOfOne
  <1>4. realized_meta'[a] - realized_meta[a] = n
    BY <1>1
  <1>5. Total(realized_meta) \in Nat /\ Total(realized_meta') \in Nat
    BY <1>1, <1>2, RealizedSum
  <1> QED
    BY <1>1, <1>2, <1>3, <1>4, <1>5 DEF Granted

(* Half of it each: a unit may be left, if there is any to be halved. *)
LEMMA HalvesLeft ==
  ASSUME NEW n \in Nat
  PROVE  /\ n \div 2 \in Nat
         /\ n - ((n \div 2) + (n \div 2)) \in 0..1
         /\ n = 0 => n \div 2 = 0
  <1>1. n \div 2 \in Nat /\ 2 * (n \div 2) <= n /\ n < 2 * (n \div 2) + 2
    BY DivisionBounds
  <1> DEFINE h == n \div 2
  <1>2. h \in Nat /\ 2 * h <= n /\ n < 2 * h + 2
    BY <1>1
  <1> HIDE DEF h
  <1>3. n - (h + h) \in 0..1 /\ (n = 0 => h = 0)
    BY <1>2
  <1> QED
    BY <1>2, <1>3 DEF h

LEMMA GrantedBySale ==
  ASSUME RewardsTyped, TypeOK, NEW u \in Users, NEW fee \in Nat, NEW cuts \in Nat,
         meta_of_sale(u, fee, cuts)
  PROVE  /\ \E odd \in 0..1 : Granted(odd) /\ (cuts = 0 => odd = 0)
         /\ est_meta_rewards' \in [Reward -> Int]
  <1> DEFINE fee_in_st_near == stake_shares_from_amount(fee)
             est_lp == est_meta_rewards["lp"] + damp_multiplier(fee, "lp")
             pct == damped(mult_pct["lp"], est_lp, MaxMetaRewards["lp"])
             n == apply_multiplier(cuts, pct)
             half == n \div 2
             to_seller == damp_multiplier(fee_in_st_near, "lu")
  <1>1. /\ realized_meta \in [Harvester -> Nat] /\ total_meta \in Nat
        /\ est_meta_rewards \in [Reward -> Int]
        /\ "lp" \in Reward /\ "lu" \in Reward
    BY DEF RewardsTyped, Reward
  <1>2. to_seller \in Nat
    BY <1>1, ValuesNat, RewardNat
  <1>3. est_lp \in Int
    BY <1>1, RewardNat
  <1>4. n \in Nat /\ (cuts = 0 => n = 0)
    <2>1. pct \in Nat
      BY <1>1, <1>3, RewardNat
    <2> HIDE DEF pct
    <2>2. cuts = 0 => n = 0
      BY <2>1 DEF apply_multiplier
    <2> QED
      BY <2>1, <2>2, MultipliedNat
  <1>5. /\ total_meta' = total_meta + n + to_seller
        /\ realized_meta' = [realized_meta EXCEPT ![Operator] = @ + half,
                               ![Developers] = @ + half, ![u] = @ + to_seller]
        /\ est_meta_rewards' = [est_meta_rewards EXCEPT !["lp"] = est_lp, !["lu"] = @ + to_seller]
    BY DEF meta_of_sale
  <1> HIDE DEF n, to_seller, est_lp
  <1>6. half \in Nat /\ n - (half + half) \in 0..1 /\ (cuts = 0 => n - (half + half) = 0)
    BY <1>4, HalvesLeft
  <1> HIDE DEF half
  <1>7. /\ u \in Harvester /\ Operator \in Harvester /\ Developers \in Harvester
        /\ u # Operator /\ u # Developers /\ Operator # Developers
    BY Harvesters, AccountsAssumption
  <1>8. /\ realized_meta' \in [Harvester -> Nat]
        /\ realized_meta'[Operator] = realized_meta[Operator] + half
        /\ realized_meta'[Developers] = realized_meta[Developers] + half
        /\ realized_meta'[u] = realized_meta[u] + to_seller
        /\ \A x \in Harvester \ {u, Operator, Developers} : realized_meta'[x] = realized_meta[x]
    BY <1>1, <1>2, <1>5, <1>6, <1>7
  <1>9. Total(realized_meta') = Total(realized_meta) + to_seller + half + half
    <2> DEFINE one == [realized_meta EXCEPT ![u] = @ + to_seller]
               two == [one EXCEPT ![Operator] = @ + half]
    <2>1. /\ one \in [Harvester -> Nat] /\ one[u] = realized_meta[u] + to_seller
          /\ \A x \in Harvester \ {u} : one[x] = realized_meta[x]
      BY <1>1, <1>2, <1>7
    <2> HIDE DEF one
    <2>2. /\ two \in [Harvester -> Nat] /\ two[Operator] = one[Operator] + half
          /\ \A x \in Harvester \ {Operator} : two[x] = one[x]
      BY <2>1, <1>6, <1>7
    <2> HIDE DEF two
    <2>3. /\ realized_meta'[Developers] = two[Developers] + half
          /\ \A x \in Harvester \ {Developers} : realized_meta'[x] = two[x]
      BY <1>7, <1>8, <2>1, <2>2
    <2>4. realized_meta' \in [Harvester -> Nat]
      BY <1>8
    <2>5. Total(one) = Total(realized_meta) + (one[u] - realized_meta[u])
      BY <1>1, <1>7, <2>1, TotalOfOne
    <2>6. Total(two) = Total(one) + (two[Operator] - one[Operator])
      BY <1>7, <2>1, <2>2, TotalOfOne
    <2>7. Total(realized_meta') = Total(two) + (realized_meta'[Developers] - two[Developers])
      BY <1>7, <2>2, <2>3, <2>4, TotalOfOne
    <2>8. /\ one[u] - realized_meta[u] = to_seller /\ two[Operator] - one[Operator] = half
          /\ realized_meta'[Developers] - two[Developers] = half
      <3>1. realized_meta[u] \in Nat /\ one[Operator] \in Nat /\ two[Developers] \in Nat
        BY <1>1, <1>7, <2>1, <2>2
      <3> QED
        BY <3>1, <1>2, <1>6, <2>1, <2>2, <2>3
    <2>9. Total(realized_meta) \in Nat
      BY <1>1, RealizedSum
    <2> QED
      BY <1>2, <1>6, <2>5, <2>6, <2>7, <2>8, <2>9
  <1>10. Total(realized_meta) \in Nat
    BY <1>1, RealizedSum
  <1>11. Granted(n - (half + half))
    <2>1. total_meta' \in Nat
      BY <1>1, <1>2, <1>4, <1>5
    <2>2. (total_meta' - Total(realized_meta')) - (total_meta - Total(realized_meta))
            = n - (half + half)
      BY <1>1, <1>2, <1>4, <1>5, <1>6, <1>9, <1>10
    <2> QED
      BY <1>8, <2>1, <2>2 DEF Granted
  <1>12. est_meta_rewards' \in [Reward -> Int]
    BY <1>1, <1>2, <1>3, <1>5
  <1> QED
    BY <1>6, <1>11, <1>12


LEMMA GrantedToAll ==
  ASSUME TypeOK, RewardsTyped, realize_meta_massive
  PROVE  Granted(0)
  <1> DEFINE pending == [a \in Harvester |-> all_pending(a)]
  <1>1. /\ realized_meta \in [Harvester -> Nat] /\ total_meta \in Nat
        /\ pending \in [Harvester -> Nat]
        /\ \A a \in Harvester : all_pending(a) \in Nat
    BY PendingNat DEF RewardsTyped
  <1>2. /\ total_meta' = total_meta + SumFunction(pending)
        /\ realized_meta' = [a \in Harvester |-> realized_meta[a] + all_pending(a)]
    BY DEF realize_meta_massive
  <1>3. /\ realized_meta' \in [Harvester -> Nat]
        /\ \A a \in Harvester : realized_meta'[a] = realized_meta[a] + pending[a]
    BY <1>1, <1>2
  <1> HIDE DEF pending
  <1>4. Total(realized_meta') = Total(realized_meta) + Total(pending)
    <2>1. \A a \in Harvester : /\ realized_meta[a] \in Int /\ pending[a] \in Int
                               /\ realized_meta'[a] = realized_meta[a] + pending[a]
      BY <1>1, <1>3
    <2> QED
      BY <2>1, Harvesters, SumOfBoth DEF Total
  <1>5. /\ Total(realized_meta) \in Nat /\ Total(pending) \in Nat
        /\ SumFunction(pending) = Total(pending)
    BY <1>1, RealizedSum
  <1> QED
    BY <1>1, <1>2, <1>3, <1>4, <1>5 DEF Granted

-----------------------------------------------------------------------------
(* What the harvests in flight hold, and what of it a step may overwrite.    *)
Minting == [r \in HarvestReceipts |-> being_minted(r)]

Discarded == [r \in HarvestReceipts |-> overwritten(r)]

LEMMA HarvestParts ==
  ASSUME RewardsTyped, NEW r \in HarvestReceipts
  PROVE  /\ harvests[r] # no_call =>
              /\ harvests[r] \in Harvest /\ harvests[r].account \in Harvester
              /\ harvests[r].to_mint \in Nat
              /\ harvests[r].status \in {"sent", "ok", "failed"}
         /\ harvests[r] = no_call => harvests[r].status = "none"
         /\ being_minted(r) \in Nat
  BY DEF RewardsTyped, Harvest, being_minted, no_call

LEMMA LostParts ==
  ASSUME RewardsTyped
  PROVE  /\ lost = total_meta - (harvested + Total(realized_meta) + SumFunction(Minting))
         /\ SumFunction(Minting) = SumFunctionOnSet(Minting, HarvestReceipts)
         /\ SumFunction(Minting) \in Int
  <1>1. SumFunction(realized_meta) = Total(realized_meta)
    BY RealizedSum DEF RewardsTyped
  <1>2. \A r \in HarvestReceipts : Minting[r] \in Int
    BY HarvestParts DEF Minting
  <1>3. SumFunction(Minting) = SumFunctionOnSet(Minting, HarvestReceipts)
    BY DEF Minting, SumFunction
  <1> QED
    BY <1>1, <1>2, <1>3, SumInt, MetaAssumption DEF lost, accounted_for, Minting

(* Of one harvest only, what is being minted changes. *)
LEMMA MintingOfOne ==
  ASSUME RewardsTyped, RewardsTyped', NEW r \in HarvestReceipts, NEW h,
         harvests' = [harvests EXCEPT ![r] = h]
  PROVE  SumFunction(Minting)' = SumFunction(Minting) + (being_minted(r)' - being_minted(r))
  <1>1. \A x \in HarvestReceipts : Minting[x] \in Int /\ Minting'[x] \in Int
    <2>1. \A x \in HarvestReceipts : being_minted(x) \in Nat
      BY HarvestParts
    <2>2. \A x \in HarvestReceipts : being_minted(x)' \in Nat
      BY HarvestParts DEF RewardsTyped, Harvest, being_minted, no_call
    <2> QED
      BY <2>1, <2>2 DEF Minting
  <1>2. \A x \in HarvestReceipts \ {r} : Minting'[x] = Minting[x]
    BY DEF Minting, being_minted, RewardsTyped
  <1>3. SumFunctionOnSet(Minting', HarvestReceipts)
          = SumFunctionOnSet(Minting, HarvestReceipts) + (Minting'[r] - Minting[r])
    BY <1>1, <1>2, MetaAssumption, SumOfOneChange
  <1>4. DOMAIN Minting = HarvestReceipts /\ DOMAIN Minting' = HarvestReceipts
    BY DEF Minting
  <1>5. Minting[r] = being_minted(r) /\ Minting'[r] = being_minted(r)'
    BY DEF Minting
  <1> QED
    BY <1>3, <1>4, <1>5 DEF SumFunction

(* No harvest that failed is called back. *)
LEMMA NothingDiscarded ==
  ASSUME RewardsTyped,
         \A r \in HarvestReceipts : harvests[r].status = "failed" => harvests'[r] # no_call
  PROVE  SumFunction(Discarded) = 0
  <1>1. \A r \in HarvestReceipts : Discarded[r] = 0
    BY DEF Discarded, overwritten
  <1>2. DOMAIN Discarded = HarvestReceipts
    BY DEF Discarded
  <1> QED
    BY <1>1, <1>2, SumZero, MetaAssumption DEF SumFunction

LEMMA LostIsSaid ==
  ASSUME NEW n \in 0..(IF accounts' = accounts THEN 0 ELSE 1),
         lost' - lost = SumFunction(Discarded) + n
  PROVE  lost_as_said
  BY DEF lost_as_said, Discarded

(* A step that leaves the harvests alone loses what it grants to nobody. *)
LEMMA GrantsAreSaid ==
  ASSUME RewardsTyped, RewardsTyped', UNCHANGED <<harvests, harvested>>,
         NEW n \in 0..(IF accounts' = accounts THEN 0 ELSE 1), Granted(n)
  PROVE  lost_as_said
  <1>1. Minting' = Minting
    BY DEF Minting, being_minted
  <1>2. SumFunction(Discarded) = 0
    <2>1. \A r \in HarvestReceipts : harvests[r].status = "failed" => harvests'[r] # no_call
      BY HarvestParts
    <2> QED
      BY <2>1, NothingDiscarded
  <1>3. /\ lost = total_meta - (harvested + Total(realized_meta) + SumFunction(Minting))
        /\ lost' = total_meta' - (harvested' + Total(realized_meta') + SumFunction(Minting'))
    <2>1. lost' = total_meta' - (harvested' + Total(realized_meta') + SumFunction(Minting'))
      BY RealizedSum DEF RewardsTyped, lost, accounted_for, Minting
    <2> QED
      BY <2>1, LostParts
  <1>4. /\ SumFunction(Minting) \in Int /\ Total(realized_meta) \in Nat
        /\ Total(realized_meta') \in Nat /\ total_meta \in Nat /\ total_meta' \in Nat
        /\ harvested \in Nat /\ harvested' = harvested
    BY LostParts, RealizedSum DEF RewardsTyped, Granted
  <1>5. lost' - lost = n
    BY <1>1, <1>3, <1>4 DEF Granted
  <1> QED
    BY <1>2, <1>5, LostIsSaid


-----------------------------------------------------------------------------
(* The META beside a method leaves what the method does as it is.           *)
LEMMA RewardsLeaveThePool ==
  [MetaNext]_all_vars => [Next]_vars
  <1>1. CASE UserMetaStep
    <2>1. UserStep
      <3> SUFFICES ASSUME NEW u \in Users,
                          \/ \E d \in Deposits : stake_and_realize(u, d)
                          \/ \E a \in UnstakeAmounts \cup {valued_stake(u)} :
                               unstake_and_realize(u, a)
                          \/ \E s \in SellAmounts : liquid_unstake_with_meta(u, s)
                          \/ \E d \in LiquidityDeposits : add_liquidity_and_realize(u, d)
                          \/ \E a \in RemoveAmounts : remove_liquidity_and_realize(u, a)
                   PROVE  UserStep
        BY <1>1 DEF UserMetaStep
      <3>1. ASSUME NEW a, unstake_and_realize(u, a), a \in UnstakeAmounts \cup {valued_stake(u)}
            PROVE  UserStep
        BY <3>1 DEF unstake_and_realize, UserStep, unstake_all, valued_stake
      <3>2. ASSUME NEW d \in Deposits, stake_and_realize(u, d) PROVE UserStep
        BY <3>2 DEF stake_and_realize, UserStep
      <3>3. ASSUME NEW s \in SellAmounts, liquid_unstake_with_meta(u, s) PROVE UserStep
        BY <3>3 DEF liquid_unstake_with_meta, UserStep
      <3>4. ASSUME NEW d \in LiquidityDeposits, add_liquidity_and_realize(u, d) PROVE UserStep
        BY <3>4 DEF add_liquidity_and_realize, UserStep
      <3>5. ASSUME NEW a \in RemoveAmounts, remove_liquidity_and_realize(u, a) PROVE UserStep
        BY <3>5 DEF remove_liquidity_and_realize, UserStep
      <3> QED
        BY <3>1, <3>2, <3>3, <3>4, <3>5
    <2> QED
      BY <2>1 DEF Next
  <1>2. CASE beside_meta
    BY <1>2 DEF beside_meta, withdrawal, Next, UserStep
  <1>3. CASE MetaStep
    BY <1>3 DEF MetaStep, set_reward_multipliers, realize_meta, realize_meta_massive,
                harvest_meta, minted, minting_fails, minting_resolved, after_minting_meta
  <1>4. CASE UNCHANGED all_vars
    BY <1>4 DEF all_vars
  <1> QED
    BY <1>1, <1>2, <1>3, <1>4 DEF MetaNext

(* A share more or less has a worth, more or less. *)
LEMMA WorthInt ==
  ASSUME TypeOK, NEW n \in Int
  PROVE  amount_from_stake_shares(n) \in Int
  <1>1. total_for_staking \in Nat /\ total_stake_shares \in Nat
    BY DEF TypeOK
  <1>2. n * total_for_staking \in Int
    BY <1>1, ProductDistributes
  <1> QED
    BY <1>1, <1>2 DEF amount_from_stake_shares, amount_from_shares, proportional

LEMMA AccountAmounts ==
  ASSUME TypeOK, NEW a \in Accounts
  PROVE  /\ accounts[a].available \in Nat /\ accounts[a].stake_shares \in Nat
         /\ accounts[a].unstaked \in Nat /\ accounts[a].nslp_shares \in Nat
  BY DEF TypeOK, Account

(* What a step does to the meters, which are integers whatever it is.        *)
MetersTyped ==
  staking_meter \in [Harvester -> Int] /\ lp_meter \in [Harvester -> Int]

LEMMA TypedAfterGrant ==
  ASSUME RewardsTyped, MetersTyped', NEW n, Granted(n), est_meta_rewards' \in [Reward -> Int],
         UNCHANGED <<mult_pct, harvests, harvested>>
  PROVE  RewardsTyped'
  BY DEF RewardsTyped, MetersTyped, Granted

(* What a sale pays for: shares are sold, and the cuts are shares given.     *)
LEMMA SaleAmounts ==
  ASSUME TypeOK, NEW u \in Users, NEW s \in SellAmounts, liquid_unstake(u, s)
  PROVE  /\ accounts[u].stake_shares - accounts'[u].stake_shares \in Nat
         /\ \A a \in {Treasury, Operator, Developers} :
              accounts'[a].stake_shares - accounts[a].stake_shares \in Nat
  <1> DEFINE acc == accounts[u]
             lp == accounts[NSLP]
             to_sell == IF is_close(s, acc.stake_shares) THEN acc.stake_shares ELSE s
             nears_out == amount_from_stake_shares(to_sell)
             fee == apply_pct(swap_fee_basis_points(lp.available, nears_out), nears_out)
             near == nears_out - fee
             amount == take_from_available(u, near, acc.available + near)
             fee_in_st_near == stake_shares_from_amount(fee)
             treasury_cut == apply_pct(TreasurySwapCut, fee_in_st_near)
             operator_cut == apply_pct(OperatorSwapCut, fee_in_st_near)
             developers_cut == apply_pct(DevelopersSwapCut, fee_in_st_near)
             cuts == treasury_cut + operator_cut + developers_cut
             left == st_near_to_liq_pool(to_sell, cuts)
             seller == [acc EXCEPT !.stake_shares = @ - to_sell,
                                   !.available = (acc.available + near) - amount]
             buyer == [lp EXCEPT !.available = @ - near, !.stake_shares = @ + left]
  <1>1. /\ u \in Accounts /\ NSLP \in Accounts
        /\ Treasury \in Accounts /\ Operator \in Accounts /\ Developers \in Accounts
        /\ u \notin {NSLP, Treasury, Operator, Developers}
        /\ NSLP # Treasury /\ NSLP # Operator /\ NSLP # Developers
        /\ Treasury # Operator /\ Treasury # Developers /\ Operator # Developers
        /\ accounts \in [Accounts -> Account]
        /\ \A a \in Accounts : accounts[a] \in Account
        /\ acc.stake_shares \in Nat /\ lp.available \in Nat /\ s \in Nat
    BY Inputs, AccountNames, AccountsAssumption DEF TypeOK, Account
  <1>2. to_sell \in Nat
    BY <1>1
  <1>3. accounts' = [accounts EXCEPT
             ![u] = seller, ![NSLP] = buyer,
             ![Treasury].stake_shares = @ + treasury_cut,
             ![Operator].stake_shares = @ + operator_cut,
             ![Developers].stake_shares = @ + developers_cut]
    BY DEF liquid_unstake
  <1> HIDE DEF to_sell
  <1>4. nears_out \in Nat
    BY <1>2, ValuesNat
  <1> HIDE DEF nears_out
  <1>5. fee \in Nat
    BY <1>1, <1>4, SwapFeeNat
  <1> HIDE DEF fee
  <1>6. fee_in_st_near \in Nat
    BY <1>5, ValuesNat
  <1> HIDE DEF fee_in_st_near
  <1>7. treasury_cut \in Nat /\ operator_cut \in Nat /\ developers_cut \in Nat
    BY <1>6, Constants, ApplyPctNat
  <1> HIDE DEF near, amount, treasury_cut, operator_cut, developers_cut, cuts, left
  <1>8. /\ seller.stake_shares = acc.stake_shares - to_sell
    BY <1>1 DEF Account
  <1> HIDE DEF seller, buyer
  <1>9. /\ accounts'[u] = seller
        /\ accounts'[Treasury] = [accounts[Treasury] EXCEPT !.stake_shares = @ + treasury_cut]
        /\ accounts'[Operator] = [accounts[Operator] EXCEPT !.stake_shares = @ + operator_cut]
        /\ accounts'[Developers]
             = [accounts[Developers] EXCEPT !.stake_shares = @ + developers_cut]
    BY <1>1, <1>3
  <1>10. /\ accounts'[Treasury].stake_shares = accounts[Treasury].stake_shares + treasury_cut
         /\ accounts'[Operator].stake_shares = accounts[Operator].stake_shares + operator_cut
         /\ accounts'[Developers].stake_shares
              = accounts[Developers].stake_shares + developers_cut
    BY <1>1, <1>9 DEF Account
  <1>11. /\ accounts[Treasury].stake_shares \in Nat /\ accounts[Operator].stake_shares \in Nat
         /\ accounts[Developers].stake_shares \in Nat
    BY <1>1, AccountAmounts
  <1>12. accounts[u].stake_shares - accounts'[u].stake_shares = to_sell
    BY <1>1, <1>2, <1>8, <1>9
  <1>13. /\ accounts'[Treasury].stake_shares - accounts[Treasury].stake_shares = treasury_cut
         /\ accounts'[Operator].stake_shares - accounts[Operator].stake_shares = operator_cut
         /\ accounts'[Developers].stake_shares - accounts[Developers].stake_shares
              = developers_cut
    BY <1>7, <1>10, <1>11
  <1> QED
    BY <1>2, <1>7, <1>12, <1>13


(* A method beside META: what it leaves of the rewards and of the lost META. *)
LEMMA MethodKeeps ==
  ASSUME RewardsTyped, TypeOK, TypeOK', UserMetaStep
  PROVE  RewardsTyped' /\ lost_as_said /\ UNCHANGED token_vars
  <1> SUFFICES ASSUME NEW u \in Users,
                      \/ \E d \in Deposits : stake_and_realize(u, d)
                      \/ \E a \in UnstakeAmounts \cup {valued_stake(u)} :
                           unstake_and_realize(u, a)
                      \/ \E s \in SellAmounts : liquid_unstake_with_meta(u, s)
                      \/ \E d \in LiquidityDeposits : add_liquidity_and_realize(u, d)
                      \/ \E a \in RemoveAmounts : remove_liquidity_and_realize(u, a)
               PROVE  RewardsTyped' /\ lost_as_said /\ UNCHANGED token_vars
    BY DEF UserMetaStep
  <1>1. /\ u \in Harvester /\ u \in Accounts /\ NSLP \in Accounts
        /\ staking_meter \in [Harvester -> Int] /\ lp_meter \in [Harvester -> Int]
        /\ est_meta_rewards \in [Reward -> Int]
        /\ accounts[u].available \in Nat /\ accounts[u].unstaked \in Nat
        /\ accounts'[u].unstaked \in Nat
        /\ valued_stake(u) \in Nat /\ valued_lp(u) \in Nat
        /\ staking_pending(u) \in Nat /\ lp_pending(u) \in Nat
    <2>1. accounts'[u].unstaked \in Nat
      BY Harvesters DEF TypeOK, Account
    <2> QED
      BY <2>1, Harvesters, AccountNames, AccountAmounts, PendingNat DEF RewardsTyped
  <1>2. ASSUME MetersTyped', Granted(0), est_meta_rewards' = est_meta_rewards,
               UNCHANGED <<mult_pct, harvests, harvested>>
        PROVE  RewardsTyped' /\ lost_as_said
    <2>1. RewardsTyped'
      BY <1>1, <1>2, TypedAfterGrant
    <2> QED
      BY <1>2, <2>1, GrantsAreSaid
  <1>3. ASSUME NEW d \in Deposits, stake_and_realize(u, d)
        PROVE  RewardsTyped' /\ lost_as_said /\ UNCHANGED token_vars
    <2> DEFINE amount == take_from_available(u, d, accounts[u].available + d)
    <2>1. amount \in Nat
      BY <1>1, Inputs, TakeNat
    <2>2. /\ granted(u, staking_pending(u)) /\ UNCHANGED lp_meter /\ only_meters
          /\ staking_meter' = [staking_meter EXCEPT ![u] = valued_stake(u) + amount]
      BY <1>3 DEF stake_and_realize
    <2> HIDE DEF amount
    <2>3. MetersTyped'
      BY <1>1, <2>1, <2>2 DEF MetersTyped
    <2>4. Granted(0)
      BY <1>1, <2>2, GrantedToOne
    <2> QED
      BY <1>2, <2>2, <2>3, <2>4 DEF only_meters
  <1>4. ASSUME NEW a, unstake_and_realize(u, a)
        PROVE  RewardsTyped' /\ lost_as_said /\ UNCHANGED token_vars
    <2> DEFINE unstaked == accounts'[u].unstaked - accounts[u].unstaked
    <2>1. unstaked \in Int
      BY <1>1
    <2>2. /\ granted(u, staking_pending(u)) /\ UNCHANGED lp_meter /\ only_meters
          /\ staking_meter' = [staking_meter EXCEPT ![u] = valued_stake(u) - unstaked]
      BY <1>4 DEF unstake_and_realize
    <2> HIDE DEF unstaked
    <2>3. MetersTyped'
      BY <1>1, <2>1, <2>2 DEF MetersTyped
    <2>4. Granted(0)
      BY <1>1, <2>2, GrantedToOne
    <2> QED
      BY <1>2, <2>2, <2>3, <2>4 DEF only_meters
  <1>5. ASSUME NEW d \in LiquidityDeposits, add_liquidity_and_realize(u, d)
        PROVE  RewardsTyped' /\ lost_as_said /\ UNCHANGED token_vars
    <2> DEFINE amount == take_from_available(u, d, accounts[u].available + d)
    <2>1. amount \in Nat
      BY <1>1, Inputs, TakeNat
    <2>2. /\ granted(u, lp_pending(u)) /\ UNCHANGED staking_meter /\ only_meters
          /\ lp_meter' = [lp_meter EXCEPT ![u] = valued_lp(u) + amount]
      BY <1>5 DEF add_liquidity_and_realize
    <2> HIDE DEF amount
    <2>3. MetersTyped'
      BY <1>1, <2>1, <2>2 DEF MetersTyped
    <2>4. Granted(0)
      BY <1>1, <2>2, GrantedToOne
    <2> QED
      BY <1>2, <2>2, <2>3, <2>4 DEF only_meters
  <1>6. ASSUME NEW a \in RemoveAmounts, remove_liquidity_and_realize(u, a)
        PROVE  RewardsTyped' /\ lost_as_said /\ UNCHANGED token_vars
    <2> DEFINE st_near == accounts[NSLP].stake_shares - accounts'[NSLP].stake_shares
               near == accounts[NSLP].available - accounts'[NSLP].available
               value == amount_from_stake_shares(st_near)
    <2>1. st_near \in Int /\ near \in Int
      <3>1. /\ accounts[NSLP].stake_shares \in Nat /\ accounts[NSLP].available \in Nat
            /\ accounts'[NSLP].stake_shares \in Nat /\ accounts'[NSLP].available \in Nat
        BY <1>1 DEF TypeOK, Account
      <3> QED BY <3>1
    <2>2. value \in Int
      BY <2>1, WorthInt
    <2>3. /\ granted(u, lp_pending(u)) /\ only_meters
          /\ lp_meter' = [lp_meter EXCEPT ![u] = valued_lp(u) - (near + value)]
          /\ staking_meter' = [staking_meter EXCEPT ![u] = @ + value]
      BY <1>6 DEF remove_liquidity_and_realize
    <2> HIDE DEF st_near, near, value
    <2>4. MetersTyped'
      BY <1>1, <2>1, <2>2, <2>3 DEF MetersTyped
    <2>5. Granted(0)
      BY <1>1, <2>3, GrantedToOne
    <2> QED
      BY <1>2, <2>3, <2>4, <2>5 DEF only_meters
  <1>7. ASSUME NEW s \in SellAmounts, liquid_unstake_with_meta(u, s)
        PROVE  RewardsTyped' /\ lost_as_said /\ UNCHANGED token_vars
    <2> DEFINE sold == accounts[u].stake_shares - accounts'[u].stake_shares
               nears_out == amount_from_stake_shares(sold)
               fee == apply_pct(swap_fee_basis_points(accounts[NSLP].available, nears_out),
                                nears_out)
               cut(a) == accounts'[a].stake_shares - accounts[a].stake_shares
               cuts == cut(Treasury) + cut(Operator) + cut(Developers)
    <2>1. liquid_unstake(u, s)
      BY <1>7 DEF liquid_unstake_with_meta
    <2>2. /\ sold \in Nat
          /\ cut(Treasury) \in Nat /\ cut(Operator) \in Nat /\ cut(Developers) \in Nat
      BY <2>1, SaleAmounts
    <2>3. nears_out \in Nat
      BY <2>2, ValuesNat
    <2>4. fee \in Nat
      BY <1>1, <2>3, AccountAmounts, SwapFeeNat
    <2>5. cuts \in Nat /\ (accounts' = accounts => cuts = 0)
      <3>1. accounts' = accounts => cut(Treasury) = 0 /\ cut(Operator) = 0 /\ cut(Developers) = 0
        <4>1. /\ accounts[Treasury].stake_shares \in Nat /\ accounts[Operator].stake_shares \in Nat
              /\ accounts[Developers].stake_shares \in Nat
          BY AccountNames, AccountAmounts
        <4> QED BY <4>1
      <3> HIDE DEF cut
      <3> QED BY <2>2, <3>1
    <2>6. /\ meta_of_sale(u, fee, cuts)
          /\ staking_meter' = [a \in Harvester |->
               staking_meter[a] + (IF a = u THEN -nears_out
                                   ELSE amount_from_stake_shares(cut(a)))]
          /\ UNCHANGED <<lp_meter, mult_pct, harvests, harvested, token_vars>>
      BY <1>7 DEF liquid_unstake_with_meta
    <2>7. MetersTyped'
      <3>1. \A a \in Harvester : amount_from_stake_shares(cut(a)) \in Int
        <4> TAKE a \in Harvester
        <4>1. accounts[a].stake_shares \in Nat /\ accounts'[a].stake_shares \in Nat
          BY Harvesters DEF TypeOK, Account
        <4> QED
          BY <4>1, WorthInt
      <3> HIDE DEF cut, nears_out
      <3> QED
        BY <1>1, <2>3, <2>6, <3>1 DEF MetersTyped
    <2> HIDE DEF cuts, fee, nears_out
    <2>8. /\ \E odd \in 0..1 : Granted(odd) /\ (cuts = 0 => odd = 0)
          /\ est_meta_rewards' \in [Reward -> Int]
      BY <2>4, <2>5, <2>6, GrantedBySale
    <2>9. PICK odd \in 0..1 : Granted(odd) /\ (cuts = 0 => odd = 0)
      BY <2>8
    <2>10. odd \in 0..(IF accounts' = accounts THEN 0 ELSE 1)
      BY <2>5, <2>9
    <2>11. RewardsTyped'
      BY <2>6, <2>7, <2>8, <2>9, TypedAfterGrant
    <2> QED
      BY <2>6, <2>9, <2>10, <2>11, GrantsAreSaid
  <1> QED
    BY <1>3, <1>4, <1>5, <1>6, <1>7


(* Withdrawals, the heartbeat, callbacks and the pools grant nothing.        *)
LEMMA OthersKeep ==
  ASSUME RewardsTyped, TypeOK, TypeOK', beside_meta
  PROVE  RewardsTyped' /\ lost_as_said /\ UNCHANGED token_vars
  <1> DEFINE rewards == accumulated_staked_rewards' - accumulated_staked_rewards
  <1>1. /\ est_meta_rewards' = [est_meta_rewards EXCEPT
             !["stakers"] = @ + damp_multiplier(rewards, "stakers")]
        /\ UNCHANGED <<meter_vars, realized_meta, total_meta, mult_pct, harvests, harvested,
                       token_vars>>
    BY DEF beside_meta
  <1>2. rewards \in Int
    BY DEF TypeOK
  <1> HIDE DEF rewards
  <1>3. est_meta_rewards' \in [Reward -> Int]
    <2>1. "stakers" \in Reward /\ est_meta_rewards \in [Reward -> Int]
      BY DEF RewardsTyped, Reward
    <2>2. damp_multiplier(rewards, "stakers") \in Int
      BY <1>2, <2>1, RewardNat
    <2> QED
      BY <1>1, <2>1, <2>2
  <1>4. Granted(0)
    <2>1. Total(realized_meta) \in Nat /\ total_meta \in Nat
      BY RealizedSum DEF RewardsTyped
    <2> QED
      BY <1>1, <2>1 DEF Granted, RewardsTyped
  <1>5. RewardsTyped'
    BY <1>1, <1>3 DEF RewardsTyped, meter_vars
  <1> QED
    BY <1>1, <1>4, <1>5, GrantsAreSaid

LEMMA RealizedMeters ==
  ASSUME TypeOK, RewardsTyped, NEW S, realized_meters(S)
  PROVE  MetersTyped'
  <1>1. \A a \in Harvester : valued_stake(a) \in Nat /\ valued_lp(a) \in Nat
    BY PendingNat
  <1> QED
    BY <1>1 DEF realized_meters, MetersTyped, RewardsTyped

(* What is said of a step that changes one harvest. *)
LEMMA HarvestIsSaid ==
  ASSUME RewardsTyped, RewardsTyped', UNCHANGED accounts,
         NEW r \in HarvestReceipts, NEW h, harvests' = [harvests EXCEPT ![r] = h],
         total_meta' - total_meta
           = (harvested' - harvested) + (Total(realized_meta') - Total(realized_meta))
             + (being_minted(r)' - being_minted(r)) + SumFunction(Discarded),
         SumFunction(Discarded) \in Int
  PROVE  lost_as_said
  <1>1. /\ lost = total_meta - (harvested + Total(realized_meta) + SumFunction(Minting))
        /\ SumFunction(Minting) \in Int
    BY LostParts
  <1>2. lost' = total_meta' - (harvested' + Total(realized_meta') + SumFunction(Minting)')
    BY RealizedSum DEF RewardsTyped, lost, accounted_for, Minting
  <1>3. SumFunction(Minting)' = SumFunction(Minting) + (being_minted(r)' - being_minted(r))
    BY MintingOfOne
  <1>4. /\ being_minted(r) \in Nat /\ being_minted(r)' \in Nat
        /\ Total(realized_meta) \in Nat /\ Total(realized_meta') \in Nat
        /\ total_meta \in Nat /\ total_meta' \in Nat /\ harvested \in Nat /\ harvested' \in Nat
    <2>1. being_minted(r)' \in Nat
      BY DEF RewardsTyped, Harvest, being_minted, no_call
    <2> QED
      BY <2>1, HarvestParts, RealizedSum DEF RewardsTyped
  <1>5. lost' - lost = SumFunction(Discarded) + 0
    <2> DEFINE b == being_minted(r)
               c == being_minted(r)'
               m == SumFunction(Minting)
               d == SumFunction(Discarded)
    <2>1. b \in Nat /\ c \in Nat /\ m \in Int /\ d \in Int
      BY <1>1, <1>4
    <2>2. /\ lost = total_meta - (harvested + Total(realized_meta) + m)
          /\ lost' = total_meta' - (harvested' + Total(realized_meta') + (m + (c - b)))
          /\ total_meta' - total_meta
               = (harvested' - harvested) + (Total(realized_meta') - Total(realized_meta))
                 + (c - b) + d
      BY <1>1, <1>2, <1>3
    <2> HIDE DEF b, c, m, d
    <2>3. lost' - lost = d + 0
      BY <1>4, <2>1, <2>2
    <2> QED
      BY <2>3 DEF d
  <1>6. 0 \in 0..(IF accounts' = accounts THEN 0 ELSE 1)
    OBVIOUS
  <1> QED
    BY <1>5, <1>6, LostIsSaid

LEMMA TotalOfWrite ==
  ASSUME NEW f \in [Harvester -> Nat], NEW a \in Harvester, NEW n \in Nat
  PROVE  /\ [f EXCEPT ![a] = n] \in [Harvester -> Nat]
         /\ Total([f EXCEPT ![a] = n]) - Total(f) = n - f[a]
  <1> DEFINE h == [f EXCEPT ![a] = n]
  <1>1. h \in [Harvester -> Nat] /\ h[a] = n /\ \A x \in Harvester \ {a} : h[x] = f[x]
    OBVIOUS
  <1> HIDE DEF h
  <1>2. Total(h) = Total(f) + (h[a] - f[a])
    BY <1>1, TotalOfOne
  <1>3. Total(h) \in Nat /\ Total(f) \in Nat /\ f[a] \in Nat
    BY <1>1, RealizedSum
  <1>4. Total(h) - Total(f) = n - f[a]
    BY <1>1, <1>2, <1>3
  <1> QED
    BY <1>1, <1>4 DEF h

(* lib.rs:898. All that is realized is taken before the token is called. *)
LEMMA HarvestKeeps ==
  ASSUME RewardsTyped, TypeOK, NEW r \in HarvestReceipts, NEW a \in Harvester, harvest_meta(r, a)
  PROVE  RewardsTyped' /\ lost_as_said
  <1> DEFINE n == all_pending(a)
             h == [account |-> a, to_mint |-> realized_meta[a] + n, status |-> "sent"]
  <1>1. /\ harvests[r] = no_call
        /\ total_meta' = total_meta + n
        /\ realized_meters({a}) /\ realized_meta' = [realized_meta EXCEPT ![a] = 0]
        /\ harvests' = [harvests EXCEPT ![r] = h]
        /\ UNCHANGED <<vars, est_meta_rewards, mult_pct, harvested>>
    BY DEF harvest_meta, taken_for_minting
  <1>2. /\ n \in Nat /\ realized_meta \in [Harvester -> Nat] /\ realized_meta[a] \in Nat
        /\ total_meta \in Nat /\ harvested \in Nat
        /\ harvests \in [HarvestReceipts -> Harvest \cup {no_call}]
    BY PendingNat DEF RewardsTyped
  <1> HIDE DEF n
  <1>3. h \in Harvest /\ h # no_call /\ h.status = "sent" /\ h.to_mint = realized_meta[a] + n
    <2>1. realized_meta[a] + n \in Nat
      BY <1>2
    <2>2. h.status # no_call.status
      BY DEF no_call
    <2> QED
      BY <2>1, <2>2 DEF Harvest
  <1> HIDE DEF h
  <1>4. /\ realized_meta' \in [Harvester -> Nat]
        /\ Total(realized_meta') - Total(realized_meta) = 0 - realized_meta[a]
    BY <1>1, <1>2, TotalOfWrite
  <1>5. MetersTyped'
    BY <1>1, RealizedMeters
  <1>6. harvests'[r] = h /\ harvests' \in [HarvestReceipts -> Harvest \cup {no_call}]
    BY <1>1, <1>2, <1>3
  <1>7. RewardsTyped'
    BY <1>1, <1>2, <1>4, <1>5, <1>6 DEF RewardsTyped, MetersTyped
  <1>8. being_minted(r) = 0 /\ being_minted(r)' = realized_meta[a] + n
    BY <1>1, <1>3, <1>6, HarvestParts DEF being_minted
  <1>9. SumFunction(Discarded) = 0
    <2>1. \A x \in HarvestReceipts : harvests[x].status = "failed" => harvests'[x] # no_call
      BY <1>1, <1>2, <1>3, <1>6, HarvestParts
    <2> QED
      BY <2>1, NothingDiscarded
  <1>10. accounts' = accounts
    BY <1>1 DEF vars, user_vars
  <1>11. total_meta' - total_meta
           = (harvested' - harvested) + (Total(realized_meta') - Total(realized_meta))
             + (being_minted(r)' - being_minted(r)) + SumFunction(Discarded)
    BY <1>1, <1>2, <1>4, <1>8, <1>9
  <1>12. /\ SumFunction(Discarded) \in Int /\ UNCHANGED accounts
         /\ harvests' = [harvests EXCEPT ![r] = h]
    BY <1>1, <1>9, <1>10
  <1>13. lost_as_said
    BY <1>7, <1>11, <1>12, HarvestIsSaid
  <1> QED
    BY <1>7, <1>13


(* The harvest at r is in the state h, and all else is kept by its step.     *)
LEMMA HarvestTyped ==
  ASSUME RewardsTyped, NEW r \in HarvestReceipts, NEW status \in {"sent", "ok", "failed"},
         harvests[r] # no_call, harvests' = [harvests EXCEPT ![r].status = status]
  PROVE  LET h == [harvests[r] EXCEPT !.status = status]
         IN /\ harvests' = [harvests EXCEPT ![r] = h]
            /\ harvests' \in [HarvestReceipts -> Harvest \cup {no_call}]
            /\ harvests'[r] = h /\ h # no_call
            /\ h.status = status /\ h.to_mint = harvests[r].to_mint
  <1> DEFINE h == [harvests[r] EXCEPT !.status = status]
  <1>1. harvests[r] \in Harvest /\ harvests \in [HarvestReceipts -> Harvest \cup {no_call}]
    BY HarvestParts DEF RewardsTyped
  <1>2. /\ h \in Harvest /\ h.status = status /\ h.to_mint = harvests[r].to_mint
    BY <1>1 DEF Harvest
  <1>3. h # no_call
    BY <1>2 DEF no_call
  <1>4. harvests' = [harvests EXCEPT ![r] = h]
    BY <1>1
  <1> HIDE DEF h
  <1>5. harvests' \in [HarvestReceipts -> Harvest \cup {no_call}] /\ harvests'[r] = h
    BY <1>1, <1>2, <1>4
  <1> QED
    BY <1>2, <1>3, <1>4, <1>5 DEF h

LEMMA MintedKeeps ==
  ASSUME RewardsTyped, NEW r \in HarvestReceipts, minted(r)
  PROVE  RewardsTyped' /\ lost_as_said
  <1> DEFINE n == harvests[r].to_mint
             h == [harvests[r] EXCEPT !.status = "ok"]
  <1>1. /\ harvests[r].status = "sent" /\ harvested' = harvested + n
        /\ harvests' = [harvests EXCEPT ![r].status = "ok"]
        /\ UNCHANGED <<vars, meter_vars, realized_meta, total_meta, est_meta_rewards, mult_pct>>
    BY DEF minted, minting_resolved
  <1>2. /\ harvests[r] # no_call /\ n \in Nat /\ harvested \in Nat /\ total_meta \in Nat
        /\ Total(realized_meta) \in Nat
    BY <1>1, HarvestParts, RealizedSum DEF RewardsTyped
  <1>3. /\ harvests' = [harvests EXCEPT ![r] = h]
        /\ harvests' \in [HarvestReceipts -> Harvest \cup {no_call}]
        /\ harvests'[r] = h /\ h # no_call /\ h.status = "ok"
    BY <1>1, <1>2, HarvestTyped
  <1> HIDE DEF n, h
  <1>4. RewardsTyped'
    BY <1>1, <1>2, <1>3 DEF RewardsTyped, meter_vars
  <1>5. being_minted(r) = n /\ being_minted(r)' = 0
    BY <1>1, <1>3 DEF being_minted, n
  <1>6. SumFunction(Discarded) = 0
    <2>1. \A x \in HarvestReceipts : harvests[x].status = "failed" => harvests'[x] # no_call
      BY <1>3, HarvestParts
    <2> QED
      BY <2>1, NothingDiscarded
  <1>7. total_meta' - total_meta
           = (harvested' - harvested) + (Total(realized_meta') - Total(realized_meta))
             + (being_minted(r)' - being_minted(r)) + SumFunction(Discarded)
    BY <1>1, <1>2, <1>5, <1>6
  <1>8. SumFunction(Discarded) \in Int /\ UNCHANGED accounts
    BY <1>1, <1>6 DEF vars, user_vars
  <1>9. lost_as_said
    BY <1>3, <1>4, <1>7, <1>8, HarvestIsSaid
  <1> QED
    BY <1>4, <1>9

LEMMA FailureKeeps ==
  ASSUME RewardsTyped, NEW r \in HarvestReceipts, minting_fails(r)
  PROVE  RewardsTyped' /\ lost_as_said
  <1> DEFINE n == harvests[r].to_mint
             h == [harvests[r] EXCEPT !.status = "failed"]
  <1>1. /\ harvests[r].status = "sent" /\ harvested' = harvested
        /\ harvests' = [harvests EXCEPT ![r].status = "failed"]
        /\ UNCHANGED <<vars, meter_vars, realized_meta, total_meta, est_meta_rewards, mult_pct>>
    BY DEF minting_fails, minting_resolved
  <1>2. /\ harvests[r] # no_call /\ n \in Nat /\ harvested \in Nat /\ total_meta \in Nat
        /\ Total(realized_meta) \in Nat
    BY <1>1, HarvestParts, RealizedSum DEF RewardsTyped
  <1>3. /\ harvests' = [harvests EXCEPT ![r] = h]
        /\ harvests' \in [HarvestReceipts -> Harvest \cup {no_call}]
        /\ harvests'[r] = h /\ h # no_call /\ h.status = "failed" /\ h.to_mint = n
    BY <1>1, <1>2, HarvestTyped
  <1> HIDE DEF h
  <1>4. being_minted(r) = n /\ being_minted(r)' = n
    BY <1>1, <1>3 DEF being_minted
  <1> HIDE DEF n
  <1>5. RewardsTyped'
    BY <1>1, <1>3 DEF RewardsTyped, meter_vars
  <1>6. SumFunction(Discarded) = 0
    <2>1. \A x \in HarvestReceipts : harvests[x].status = "failed" => harvests'[x] # no_call
      BY <1>3, HarvestParts
    <2> QED
      BY <2>1, NothingDiscarded
  <1>7. total_meta' - total_meta
           = (harvested' - harvested) + (Total(realized_meta') - Total(realized_meta))
             + (being_minted(r)' - being_minted(r)) + SumFunction(Discarded)
    BY <1>1, <1>2, <1>4, <1>6
  <1>8. SumFunction(Discarded) \in Int /\ UNCHANGED accounts
    BY <1>1, <1>6 DEF vars, user_vars
  <1>9. lost_as_said
    BY <1>3, <1>5, <1>7, <1>8, HarvestIsSaid
  <1> QED
    BY <1>5, <1>9

(* lib.rs:918. What failed to be minted is written over what was realized    *)
(* meanwhile.                                                               *)
LEMMA CallbackKeeps ==
  ASSUME RewardsTyped, NEW r \in HarvestReceipts, after_minting_meta(r)
  PROVE  RewardsTyped' /\ lost_as_said
  <1> DEFINE a == harvests[r].account
             n == harvests[r].to_mint
  <1>1. /\ harvests[r].status \in {"ok", "failed"}
        /\ realized_meta' = [realized_meta EXCEPT ![a] =
             IF harvests[r].status = "failed" THEN n ELSE @]
        /\ harvests' = [harvests EXCEPT ![r] = no_call]
        /\ UNCHANGED <<vars, meter_vars, total_meta, est_meta_rewards, mult_pct, harvested>>
    BY DEF after_minting_meta
  <1>2. /\ harvests[r] # no_call /\ n \in Nat /\ a \in Harvester
        /\ harvested \in Nat /\ total_meta \in Nat
        /\ realized_meta \in [Harvester -> Nat] /\ realized_meta[a] \in Nat
        /\ Total(realized_meta) \in Nat
        /\ harvests \in [HarvestReceipts -> Harvest \cup {no_call}]
    BY <1>1, HarvestParts, RealizedSum DEF RewardsTyped
  <1>3. /\ harvests' \in [HarvestReceipts -> Harvest \cup {no_call}] /\ harvests'[r] = no_call
        /\ \A x \in HarvestReceipts \ {r} : harvests'[x] = harvests[x]
    BY <1>1, <1>2
  <1>4. being_minted(r)' = 0
    BY <1>3 DEF being_minted, no_call
  <1>5. UNCHANGED accounts
    BY <1>1 DEF vars, user_vars
  <1>6. \A x \in HarvestReceipts \ {r} : Discarded[x] = 0
    BY <1>3, HarvestParts DEF Discarded, overwritten
  <1>7. DOMAIN Discarded = HarvestReceipts
    BY DEF Discarded
  <1>8. CASE harvests[r].status = "ok"
    <2>1. realized_meta' = realized_meta
      BY <1>1, <1>2, <1>8
    <2>2. RewardsTyped'
      BY <1>1, <1>3, <2>1 DEF RewardsTyped, meter_vars
    <2>3. being_minted(r) = 0
      BY <1>8 DEF being_minted
    <2>4. SumFunction(Discarded) = 0
      <3>1. \A x \in HarvestReceipts : harvests[x].status = "failed" => harvests'[x] # no_call
        BY <1>3, <1>8, HarvestParts
      <3> QED
        BY <3>1, NothingDiscarded
    <2>5. /\ total_meta' - total_meta
               = (harvested' - harvested) + (Total(realized_meta') - Total(realized_meta))
                 + (being_minted(r)' - being_minted(r)) + SumFunction(Discarded)
          /\ SumFunction(Discarded) \in Int
      <3>1. total_meta' - total_meta = 0 /\ harvested' - harvested = 0
        BY <1>1, <1>2
      <3>2. Total(realized_meta') - Total(realized_meta) = 0
        BY <1>2, <2>1
      <3> QED
        BY <1>4, <2>3, <2>4, <3>1, <3>2
    <2>6. lost_as_said
      BY <1>1, <1>5, <2>2, <2>5, HarvestIsSaid
    <2> QED
      BY <2>2, <2>6
  <1>9. CASE harvests[r].status = "failed"
    <2>1. realized_meta' = [realized_meta EXCEPT ![a] = n]
      BY <1>1, <1>9
    <2>2. /\ realized_meta' \in [Harvester -> Nat]
          /\ Total(realized_meta') - Total(realized_meta) = n - realized_meta[a]
      <3> HIDE DEF a, n
      <3> QED
        BY <1>2, <2>1, TotalOfWrite
    <2>3. RewardsTyped'
      BY <1>1, <1>3, <2>2 DEF RewardsTyped, meter_vars
    <2>4. being_minted(r) = n
      BY <1>9 DEF being_minted
    <2>5. SumFunction(Discarded) = realized_meta[a]
      <3> DEFINE zero == [x \in HarvestReceipts |-> 0]
      <3>1. Discarded[r] = realized_meta[a]
        BY <1>3, <1>9 DEF Discarded, overwritten
      <3> HIDE DEF a
      <3>2. /\ \A x \in HarvestReceipts : zero[x] \in Int /\ Discarded[x] \in Int
            /\ \A x \in HarvestReceipts \ {r} : Discarded[x] = zero[x]
            /\ zero[r] = 0 /\ \A x \in HarvestReceipts : zero[x] = 0
        BY <1>2, <1>6, <3>1
      <3> HIDE DEF zero
      <3>3. SumFunctionOnSet(zero, HarvestReceipts) = 0
        BY <3>2, SumZero, MetaAssumption
      <3>4. SumFunctionOnSet(Discarded, HarvestReceipts)
              = SumFunctionOnSet(zero, HarvestReceipts) + (Discarded[r] - zero[r])
        BY <3>2, SumOfOneChange, MetaAssumption
      <3> QED
        BY <1>2, <1>7, <3>1, <3>2, <3>3, <3>4 DEF SumFunction
    <2> HIDE DEF a, n
    <2>6. /\ total_meta' - total_meta
               = (harvested' - harvested) + (Total(realized_meta') - Total(realized_meta))
                 + (being_minted(r)' - being_minted(r)) + SumFunction(Discarded)
          /\ SumFunction(Discarded) \in Int
      <3>1. total_meta' - total_meta = 0 /\ harvested' - harvested = 0
        BY <1>1, <1>2
      <3>2. realized_meta[a] \in Nat /\ n \in Nat
        BY <1>2
      <3>3. being_minted(r)' - being_minted(r) = 0 - n
        BY <1>4, <2>4, <3>2
      <3>4. SumFunction(Discarded) \in Int
            /\ 0 = (0 + (n - realized_meta[a])) + (0 - n) + SumFunction(Discarded)
        BY <2>5, <3>2
      <3> QED
        BY <2>2, <3>1, <3>3, <3>4
    <2>7. lost_as_said
      BY <1>1, <1>5, <2>3, <2>6, HarvestIsSaid
    <2> QED
      BY <2>3, <2>7
  <1> QED
    BY <1>1, <1>8, <1>9


-----------------------------------------------------------------------------
LEMMA GrantStepKeeps ==
  ASSUME RewardsTyped, TypeOK, NEW S, realized_meters(S), Granted(0),
         UNCHANGED <<vars, est_meta_rewards, mult_pct, harvests, harvested>>
  PROVE  RewardsTyped' /\ lost_as_said
  <1>1. MetersTyped'
    BY RealizedMeters
  <1>2. RewardsTyped'
    BY <1>1, TypedAfterGrant DEF RewardsTyped
  <1>3. 0 \in 0..(IF accounts' = accounts THEN 0 ELSE 1)
    OBVIOUS
  <1> QED
    BY <1>2, <1>3, GrantsAreSaid

LEMMA MetaStepKeeps ==
  ASSUME RewardsTyped, TypeOK, MetaStep
  PROVE  RewardsTyped' /\ lost_as_said
  <1>1. ASSUME NEW mult \in Multipliers, set_reward_multipliers(mult)
        PROVE  RewardsTyped' /\ lost_as_said
    <2>1. RewardsTyped'
      BY <1>1, MetaAssumption DEF set_reward_multipliers, RewardsTyped, meter_vars
    <2>2. Granted(0)
      <3>1. Total(realized_meta) \in Nat /\ total_meta \in Nat
        BY RealizedSum DEF RewardsTyped
      <3> QED
        BY <1>1, <3>1 DEF set_reward_multipliers, Granted, RewardsTyped
    <2>3. 0 \in 0..(IF accounts' = accounts THEN 0 ELSE 1)
      OBVIOUS
    <2> QED
      BY <1>1, <2>1, <2>2, <2>3, GrantsAreSaid DEF set_reward_multipliers
  <1>2. ASSUME NEW a \in HarvestCallers, realize_meta(a)
        PROVE  RewardsTyped' /\ lost_as_said
    <2>1. a \in Harvester /\ all_pending(a) \in Nat
      BY Harvesters, PendingNat
    <2>2. Granted(0)
      BY <1>2, <2>1, GrantedToOne DEF realize_meta
    <2> QED
      BY <1>2, <2>2, GrantStepKeeps DEF realize_meta
  <1>3. CASE realize_meta_massive
    BY <1>3, GrantedToAll, GrantStepKeeps DEF realize_meta_massive
  <1>4. ASSUME NEW r \in HarvestReceipts, NEW a \in HarvestCallers, harvest_meta(r, a)
        PROVE  RewardsTyped' /\ lost_as_said
    BY <1>4, Harvesters, HarvestKeeps
  <1> QED
    BY <1>1, <1>2, <1>3, <1>4, MintedKeeps, FailureKeeps, CallbackKeeps DEF MetaStep

LEMMA LostNothingStanding ==
  ASSUME RewardsTyped, UNCHANGED all_vars
  PROVE  RewardsTyped' /\ lost_as_said
  <1>1. RewardsTyped'
    BY DEF all_vars, meta_vars, meter_vars, RewardsTyped
  <1>2. Granted(0)
    <2>1. Total(realized_meta) \in Nat /\ total_meta \in Nat
      BY RealizedSum DEF RewardsTyped
    <2> QED
      BY <2>1 DEF Granted, RewardsTyped, all_vars, meta_vars
  <1>3. 0 \in 0..(IF accounts' = accounts THEN 0 ELSE 1)
    OBVIOUS
  <1> QED
    BY <1>1, <1>2, <1>3, GrantsAreSaid DEF all_vars, meta_vars

LEMMA RewardsKept ==
  ASSUME RewardsTyped, TypeOK, [MetaNext]_all_vars
  PROVE  TypeOK' /\ RewardsTyped' /\ lost_as_said
  <1>1. TypeOK'
    BY RewardsLeaveThePool, NextTyped
  <1> QED
    BY <1>1, MethodKeeps, OthersKeep, MetaStepKeeps, LostNothingStanding DEF MetaNext

LEMMA InitRewards == MetaInit => RewardsTyped
  BY MetaAssumption DEF MetaInit, RewardsTyped, no_call

(* Whatever META does beside it, the pool does what it does without: all     *)
(* that is proved of its books holds with rewards and harvests.              *)
THEOREM PoolIsUndisturbed == MetaSpec => Spec
  BY RewardsLeaveThePool, PTL DEF MetaSpec, MetaInit, Spec

(***************************************************************************)
(* META that was granted once is realized, being minted or minted, and      *)
(* nowhere twice (lib.rs:899), with any number of harvests in flight, of    *)
(* one account or of many, that fail and are called back in any order. What *)
(* is lost is lost by the odd unit of a sale, or overwritten by the         *)
(* callback of a harvest that failed, and by nothing else.                  *)
(***************************************************************************)
THEOREM MintedOnce == MetaSpec => MetaMintedOnce
  <1>1. TypeOK /\ RewardsTyped /\ [MetaNext]_all_vars
          => (TypeOK /\ RewardsTyped)' /\ lost_as_said
    BY RewardsKept
  <1>2. MetaInit => TypeOK /\ RewardsTyped
    BY InitRewards, InitTyped DEF MetaInit
  <1> QED
    BY <1>1, <1>2, PTL DEF MetaSpec, MetaMintedOnce

(* What the harvests ask the token for leaves its balances, its records and  *)
(* its supply as the token keeps them by itself.                             *)
THEOREM HarvestsKeepTheToken == MetaSpec => [](TokenTypeOK /\ SupplyIsBalances)
  <1>1. TypeOK /\ RewardsTyped /\ [MetaNext]_all_vars => (TypeOK /\ RewardsTyped)'
    BY RewardsKept
  <1>2. MetaInit => TypeOK /\ RewardsTyped
    BY InitRewards, InitTyped DEF MetaInit
  <1>3. MetaInit => TokenTypeOK /\ SupplyIsBalances
    BY TokenStarts DEF MetaInit
  <1>4. ASSUME TypeOK, RewardsTyped, TokenTypeOK, SupplyIsBalances, [MetaNext]_all_vars
        PROVE  (TokenTypeOK /\ SupplyIsBalances)'
    <2>1. CASE UNCHANGED token_vars
      <3>1. TokenTypeOK'
        BY <1>4, <2>1 DEF token_vars, supply_vars, vesting_vars, TokenTypeOK
      <3>2. SupplyIsBalances'
        BY <1>4, <2>1, SupplyUntouched DEF token_vars
      <3> QED
        BY <3>1, <3>2
    <2>2. ASSUME NEW r \in HarvestReceipts, minted(r)
          PROVE  (TokenTypeOK /\ SupplyIsBalances)'
      <3> DEFINE a == harvests[r].account
                 n == harvests[r].to_mint
      <3>1. harvests[r].status = "sent" /\ mint(MetaPoolAccount, a, n)
        BY <2>2 DEF minted
      <3>2. a \in TokenHolders /\ n \in Nat
        BY <1>4, <3>1, HarvestParts, Harvesters, MetaAssumption
      <3> HIDE DEF a, n
      <3>3. mint_into(a, n)
        BY <3>1 DEF mint
      <3>4. Balances(balances') /\ total_supply' \in Int
        BY <1>4, <3>2, <3>3, MintType
      <3>5. TokenTypeOK'
        BY <1>4, <3>1, <3>4, TypeFromParts DEF mint, TokenTypeOK
      <3>6. SupplyIsBalances'
        BY <1>4, <3>2, <3>3, MintKeepsSupply
      <3> QED
        BY <3>5, <3>6
    <2>3. TypeOK'
      BY <1>1, <1>4
    <2>4. CASE UserMetaStep \/ beside_meta
      BY <1>4, <2>1, <2>3, <2>4, MethodKeeps, OthersKeep
    <2>5. CASE MetaStep
      BY <2>1, <2>2, <2>5
      DEF MetaStep, set_reward_multipliers, realize_meta, realize_meta_massive, harvest_meta,
          minting_fails, after_minting_meta
    <2> QED
      BY <1>4, <2>1, <2>4, <2>5 DEF MetaNext, all_vars
  <1> QED
    BY <1>1, <1>2, <1>3, <1>4, PTL DEF MetaSpec
=============================================================================
