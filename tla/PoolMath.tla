------------------------------ MODULE PoolMath ------------------------------
(***************************************************************************)
(* The pure arithmetic of the meta-pool contract: proportions computed in   *)
(* 256 bits and truncated, conversions between NEAR and shares at the       *)
(* current price, percentages in basis points, the tolerance the user       *)
(* methods apply to "close to everything", and the fee curve of the         *)
(* NEAR/stNEAR liquidity pool.                                              *)
(*                                                                          *)
(* Amounts are u128 in the code and every product is taken in U256, so no   *)
(* conversion of an amount below the supply of NEAR can overflow: they are  *)
(* naturals here. A subtraction that would underflow panics in the code     *)
(* (overflow-checks = true); here it is the guard of the action that does   *)
(* it, or saturating where the code calls saturating_sub.                   *)
(***************************************************************************)
EXTENDS Naturals

CONSTANTS BasisPoints,    (* what 100% is: 10_000 in the code               *)
          OneMilliNear    (* ONE_MILLI_NEAR: the tolerance of is_close      *)

ASSUME PoolMathAssumption == /\ BasisPoints \in Nat \ {0}
                             /\ OneMilliNear \in Nat

minimum(a, b) == IF a <= b THEN a ELSE b

saturating_sub(a, b) == IF a >= b THEN a - b ELSE 0

(* amount * numerator / denominator, truncated. *)
proportional(amount, numerator, denominator) ==
  (amount * numerator) \div denominator

apply_pct(basis_points, amount) == (basis_points * amount) \div BasisPoints

-----------------------------------------------------------------------------
(* Mutant of shares_from_amount: rounds up, in favour of who buys. *)
shares_rounded_up(amount, total_amount, total_shares) ==
  IF total_shares = 0 THEN amount
  ELSE IF amount = 0 \/ total_amount = 0 THEN 0
  ELSE proportional(total_shares, amount, total_amount) + 1

(* The shares an amount buys: one for one when there are none yet. *)
shares_from_amount(amount, total_amount, total_shares) ==
  IF total_shares = 0 THEN amount
  ELSE IF amount = 0 \/ total_amount = 0 THEN 0
  ELSE proportional(total_shares, amount, total_amount)

(* The amount a number of shares is worth. *)
amount_from_shares(num_shares, total_amount, total_shares) ==
  IF total_shares = 0 \/ num_shares = 0 THEN 0
  ELSE proportional(num_shares, total_amount, total_shares)

-----------------------------------------------------------------------------
(* Within a thousandth of a NEAR: such a request means "all of it". *)
is_close(requested, total) ==
  /\ requested >= saturating_sub(total, OneMilliNear)
  /\ requested <= total + OneMilliNear

(***************************************************************************)
(* The fee of a liquid unstake, in basis points: max_discount when the swap *)
(* would empty the liquidity pool, min_discount when the target liquidity   *)
(* remains after it, and linear in between.                                 *)
(***************************************************************************)
discount_basis_points(available, requested, target, min_discount, max_discount) ==
  IF available <= requested THEN max_discount
  ELSE LET near_after == available - requested
       IN IF near_after >= target THEN min_discount
          ELSE max_discount
               - proportional(max_discount - min_discount, near_after, target)
=============================================================================
