------------------------- MODULE MetaPoolTypeProofs -------------------------
(***************************************************************************)
(* Type correctness of the meta-pool, for every set of users, list of pools *)
(* and value of the parameters: one lemma per action, each of which first   *)
(* bounds what the action computes and then the fields and totals it writes.*)
(***************************************************************************)
EXTENDS MetaPool, Integers, TLAPS

(***************************************************************************)
(* First the arithmetic of PoolMath, for all amounts: what its operators    *)
(* return, and the bounds the contract's subtractions rely on.              *)
(***************************************************************************)

(* min(a, b) is an amount, and no more than either. *)
LEMMA MinimumBounds ==
  ASSUME NEW a \in Nat, NEW b \in Nat
  PROVE  /\ minimum(a, b) \in Nat
         /\ minimum(a, b) <= a
         /\ minimum(a, b) <= b
  BY DEF minimum

(* A saturating subtraction is an amount. *)
LEMMA SaturatingSubNat ==
  ASSUME NEW a \in Nat, NEW b \in Nat
  PROVE  saturating_sub(a, b) \in Nat
  BY DEF saturating_sub

(* Truncated division: the quotient, times the divisor, is at most the dividend. *)
LEMMA DivisionBounds ==
  ASSUME NEW n \in Nat, NEW d \in Nat \ {0}
  PROVE  /\ n \div d \in Nat
         /\ d * (n \div d) <= n
         /\ n < d * (n \div d) + d
  OBVIOUS

LEMMA ProductNat ==
  ASSUME NEW a \in Nat, NEW b \in Nat
  PROVE  a * b \in Nat
  OBVIOUS

(* utils.rs:86. A proportion of an amount is an amount. *)
LEMMA ProportionalNat ==
  ASSUME NEW amount \in Nat, NEW n \in Nat, NEW d \in Nat \ {0}
  PROVE  proportional(amount, n, d) \in Nat
  BY ProductNat, DivisionBounds DEF proportional

LEMMA ApplyPctNat ==
  ASSUME NEW basis_points \in Nat, NEW amount \in Nat
  PROVE  apply_pct(basis_points, amount) \in Nat
  BY PoolMathAssumption, ProductNat, DivisionBounds DEF apply_pct

LEMMA SharesNat ==
  ASSUME NEW amount \in Nat, NEW total_amount \in Nat, NEW total_shares \in Nat
  PROVE  shares_from_amount(amount, total_amount, total_shares) \in Nat
  BY ProportionalNat DEF shares_from_amount

LEMMA AmountNat ==
  ASSUME NEW num_shares \in Nat, NEW total_amount \in Nat, NEW total_shares \in Nat
  PROVE  amount_from_shares(num_shares, total_amount, total_shares) \in Nat
  BY ProportionalNat DEF amount_from_shares

-----------------------------------------------------------------------------
LEMMA ProductMonotone ==
  ASSUME NEW a \in Nat, NEW b \in Nat, NEW c \in Nat, a <= b
  PROVE  a * c <= b * c
  OBVIOUS

LEMMA QuotientBound ==
  ASSUME NEW n \in Nat, NEW d \in Nat \ {0}, NEW q \in Nat, n <= d * q
  PROVE  n \div d <= q
  <1>1. d * (n \div d) <= d * q
    BY DivisionBounds
  <1> QED
    BY <1>1, DivisionBounds

(* A proportion of no more than the whole is no more than the amount. *)
LEMMA ProportionalBound ==
  ASSUME NEW amount \in Nat, NEW n \in Nat, NEW d \in Nat \ {0}, n <= d
  PROVE  proportional(amount, n, d) <= amount
  <1>1. amount * n <= d * amount
    BY ProductMonotone
  <1> QED
    BY <1>1, ProductNat, QuotientBound DEF proportional

LEMMA ApplyPctBound ==
  ASSUME NEW basis_points \in Nat, NEW amount \in Nat, basis_points <= BasisPoints
  PROVE  apply_pct(basis_points, amount) <= amount
  <1>1. basis_points * amount <= BasisPoints * amount
    BY PoolMathAssumption, ProductMonotone
  <1> QED
    BY <1>1, PoolMathAssumption, ProductNat, QuotientBound DEF apply_pct

(* internal.rs:399. The fee curve is never below zero, nor above its maximum. *)
LEMMA DiscountBounds ==
  ASSUME NEW available \in Nat, NEW requested \in Nat, NEW target \in Nat,
         NEW min_discount \in Nat, NEW max_discount \in Nat,
         min_discount <= max_discount
  PROVE  /\ discount_basis_points(available, requested, target,
                                  min_discount, max_discount) \in Nat
         /\ discount_basis_points(available, requested, target,
                                  min_discount, max_discount) <= max_discount
  <1> DEFINE range == max_discount - min_discount
             near_after == available - requested
             cut == proportional(range, near_after, target)
  <1>1. CASE available <= requested
    BY <1>1 DEF discount_basis_points
  <1>2. CASE available > requested /\ near_after >= target
    BY <1>2 DEF discount_basis_points
  <1>3. CASE available > requested /\ near_after < target
    <2>1. /\ range \in Nat /\ near_after \in Nat
          /\ target \in Nat \ {0} /\ near_after <= target
      BY <1>3
    <2>2. cut \in Nat /\ cut <= range
      <3> HIDE DEF range, near_after
      <3> QED
        BY <2>1, ProportionalNat, ProportionalBound DEF cut
    <2>3. discount_basis_points(available, requested, target,
                                min_discount, max_discount) = max_discount - cut
      BY <1>3 DEF discount_basis_points
    <2> QED
      BY <2>2, <2>3
  <1> QED
    BY <1>1, <1>2, <1>3

-----------------------------------------------------------------------------
(* A common factor is cancelled. *)
LEMMA ProductCancel ==
  ASSUME NEW a \in Nat, NEW b \in Nat, NEW c \in Nat \ {0}, a * c <= b * c
  PROVE  a <= b
  <1> SUFFICES ASSUME a >= b + 1 PROVE FALSE
    OBVIOUS
  <1>1. (b + 1) * c <= a * c
    BY ProductMonotone
  <1>2. (b + 1) * c = b * c + c /\ a * c \in Nat /\ b * c \in Nat
    BY ProductNat
  <1> QED
    BY <1>1, <1>2

LEMMA ProductDistributes ==
  ASSUME NEW a \in Int, NEW b \in Int, NEW c \in Int
  PROVE  /\ (a + b) * c = a * c + b * c /\ (a - b) * c = a * c - b * c
         /\ c * (a + b) = c * a + c * b /\ c * (a - b) = c * a - c * b
         /\ a * b = b * a /\ a * b \in Int
  OBVIOUS

(***************************************************************************)
(* The price of shares, backing F over shares T, when it is at least one.   *)
(* Buying at this price, truncated, buys no more shares than the amount and *)
(* does not lower it.                                                       *)
(***************************************************************************)
LEMMA BuyKeepsPrice ==
  ASSUME NEW F \in Nat, NEW T \in Nat, T <= F, NEW a \in Nat
  PROVE  LET s == shares_from_amount(a, F, T)
         IN /\ s \in Nat /\ s <= a
            /\ T > 0 => F * (T + s) <= (F + a) * T
            /\ a = 0 => s = 0
  <1> DEFINE s == shares_from_amount(a, F, T)
  <1>1. s \in Nat
    BY SharesNat
  <1>2. CASE T = 0
    <2>1. s = a
      BY <1>2 DEF shares_from_amount
    <2> QED
      BY <1>2, <2>1
  <1>3. CASE T > 0 /\ a = 0
    <2>1. s = 0
      BY <1>3 DEF shares_from_amount
    <2> QED
      BY <1>3, <2>1
  <1>4. CASE T > 0 /\ a > 0
    <2>1. s = (T * a) \div F /\ F \in Nat \ {0}
      BY <1>4 DEF shares_from_amount, proportional
    <2>2. T * a \in Nat /\ T * a <= F * a
      BY ProductNat, ProductMonotone
    <2>3. F * s <= T * a /\ s <= a
      BY <2>1, <2>2, DivisionBounds, QuotientBound
    <2> HIDE DEF s
    <2>4. F * (T + s) = F * T + F * s /\ (F + a) * T = F * T + T * a
          /\ F * T \in Int /\ F * s \in Int /\ T * a \in Int
      BY <1>1, ProductDistributes
    <2> QED
      BY <1>1, <1>4, <2>3, <2>4 DEF s
  <1> QED
    BY <1>1, <1>2, <1>3, <1>4

(* Shares redeemed for all they are worth: the price does not fall. *)
LEMMA RedeemKeepsPrice ==
  ASSUME NEW F \in Nat, NEW T \in Nat, T <= F, NEW s \in Nat, s <= T
  PROVE  LET a == amount_from_shares(s, F, T)
         IN /\ a \in Nat /\ s <= a /\ a <= F
            /\ F * (T - s) <= (F - a) * T
            /\ T - s <= F - a
  <1> DEFINE a == amount_from_shares(s, F, T)
  <1>1. a \in Nat
    BY AmountNat
  <1>2. CASE s = 0
    <2>1. a = 0
      BY <1>2 DEF amount_from_shares
    <2> QED
      BY <1>2, <2>1, ProductDistributes
  <1>3. CASE s > 0
    <2>1. a = (s * F) \div T /\ T \in Nat \ {0}
      BY <1>3 DEF amount_from_shares, proportional
    <2>2. s * F \in Nat /\ s * F <= T * F
      BY ProductNat, ProductMonotone
    <2>3. T * a <= s * F /\ a <= F /\ s * F < T * a + T
      BY <2>1, <2>2, DivisionBounds, QuotientBound
    <2> HIDE DEF a
    <2>4. F * (T - s) = F * T - s * F /\ (F - a) * T = F * T - T * a
          /\ F * T \in Int /\ s * F \in Int /\ T * a \in Int
      BY <1>1, ProductDistributes
    <2>5. F * (T - s) <= (F - a) * T
      BY <2>3, <2>4
    <2>6. (T - s) * T <= (F - a) * T
      <3>1. T - s \in Nat
        OBVIOUS
      <3>2. T * (T - s) <= F * (T - s)
        BY <3>1, ProductMonotone
      <3>3. T * (T - s) = (T - s) * T /\ T * (T - s) \in Int
            /\ F * (T - s) \in Int /\ (F - a) * T \in Int
        BY <1>1, <3>1, ProductDistributes
      <3> QED
        BY <2>5, <3>2, <3>3
    <2>7. s <= a
      <3>1. T * s <= F * s /\ F * s = s * F /\ T * s = s * T
        BY ProductMonotone
      <3>2. s * T < (a + 1) * T
        <4>1. (a + 1) * T = T * a + T /\ s * T \in Int
          BY <1>1
        <4> QED
          BY <2>3, <2>4, <3>1, <4>1
      <3> SUFFICES ASSUME a + 1 <= s PROVE FALSE
        BY <1>1
      <3>3. (a + 1) * T <= s * T
        BY <1>1, ProductMonotone
      <3> QED
        BY <1>1, <3>2, <3>3
    <2>8. T - s \in Nat /\ F - a \in Nat
      BY <1>1, <2>3
    <2>9. T - s <= F - a
      BY <2>1, <2>6, <2>8, ProductCancel
    <2> QED
      BY <1>1, <2>3, <2>5, <2>7, <2>9 DEF a
  <1> QED
    BY <1>1, <1>2, <1>3

(***************************************************************************)
(* Shares burned for an amount asked, a truncated number of them: the price *)
(* falls by that truncation, one share at most, and not below one.          *)
(***************************************************************************)
LEMMA BurnKeepsPrice ==
  ASSUME NEW F \in Nat, NEW T \in Nat, 0 < T, T <= F, NEW a \in Nat, a <= F
  PROVE  LET s == shares_from_amount(a, F, T)
         IN /\ s \in Nat /\ s <= a /\ s <= T
            /\ F * (T - s) <= (F - a) * T + F
            /\ T - s <= F - a
            /\ F * s <= T * a
  <1> DEFINE s == shares_from_amount(a, F, T)
  <1>1. s \in Nat /\ s <= a
    BY BuyKeepsPrice
  <1>2. F * s <= T * a /\ T * a < F * s + F /\ s <= T
    <2>1. CASE a = 0
      BY <1>1, <2>1, ProductNat
    <2>2. CASE a > 0
      <3>1. s = (T * a) \div F /\ F \in Nat \ {0}
        BY <2>2 DEF shares_from_amount, proportional
      <3>2. T * a \in Nat /\ a * T <= F * T /\ a * T = T * a
        BY ProductNat, ProductMonotone
      <3> QED
        BY <3>1, <3>2, DivisionBounds, QuotientBound
    <2> QED
      BY <2>1, <2>2
  <1> HIDE DEF s
  <1>3. F * (T - s) = F * T - F * s /\ (F - a) * T = F * T - T * a
        /\ F * T \in Int /\ F * s \in Int /\ T * a \in Int
    BY <1>1, ProductDistributes
  <1>4. F * (T - s) < (F - a) * T + F
    BY <1>2, <1>3
  <1>5. T - s <= F - a
    <2>1. F - a \in Nat /\ T - s \in Nat
      BY <1>1, <1>2
    <2>2. (F - a) * T <= F * (F - a)
      <3>1. T * (F - a) <= F * (F - a)
        BY <2>1, ProductMonotone
      <3> QED
        BY <2>1, <3>1, ProductDistributes
    <2> SUFFICES ASSUME F - a + 1 <= T - s PROVE FALSE
      BY <2>1
    <2>3. (F - a + 1) * F <= (T - s) * F
      BY <2>1, ProductMonotone
    <2>4. (F - a + 1) * F = F * (F - a) + F /\ (T - s) * F = F * (T - s)
          /\ F * (F - a) \in Int /\ F * (T - s) \in Int /\ (F - a) * T \in Int
      BY <2>1, ProductDistributes
    <2> QED
      BY <1>4, <2>2, <2>3, <2>4
  <1> QED
    BY <1>1, <1>2, <1>4, <1>5, ProductDistributes DEF s

(* A price that did not fall, and then fell by less than one share. *)
LEMMA PriceOfTwoSteps ==
  ASSUME NEW F \in Nat, NEW T \in Nat, NEW F1 \in Nat \ {0}, NEW T1 \in Nat,
         NEW F2 \in Nat, NEW T2 \in Nat,
         F * T1 <= F1 * T, F1 * T2 <= F2 * T1 + F1
  PROVE  F * T2 <= F2 * T + F
  <1>1. CASE T2 = 0
    BY <1>1, ProductNat
  <1>2. CASE T2 > 0
    <2> DEFINE x == T2 - 1
    <2>1. x \in Nat /\ F * T2 = F * x + F /\ F1 * T2 = F1 * x + F1
          /\ F * x \in Nat /\ F1 * x \in Nat /\ F2 * T1 \in Nat /\ F2 * T \in Nat
          /\ F * T1 \in Nat /\ F1 * T \in Nat
      BY <1>2, ProductDistributes, ProductNat
    <2> HIDE DEF x
    <2>2. F1 * x <= F2 * T1
      BY <2>1
    <2>3. (F1 * x) * F <= (F2 * T1) * F
      BY <2>1, <2>2, ProductMonotone
    <2>4. (F * T1) * F2 <= (F1 * T) * F2
      BY <2>1, ProductMonotone
    <2>5. (F1 * x) * F = (F * x) * F1 /\ (F2 * T1) * F = (F * T1) * F2
          /\ (F1 * T) * F2 = (F2 * T) * F1
      BY <2>1
    <2>6. (F * x) * F1 <= (F2 * T) * F1
      <3>1. (F * x) * F1 \in Int /\ (F * T1) * F2 \in Int /\ (F2 * T) * F1 \in Int
        BY <2>1, ProductNat
      <3> QED
        BY <2>3, <2>4, <2>5, <3>1
    <2>7. F * x <= F2 * T
      BY <2>1, <2>6, ProductCancel
    <2> QED
      BY <2>1, <2>7
  <1> QED
    BY <1>1, <1>2

(* Two percentages, 100% at most together, are no more than the amount. *)
LEMMA FeesBound ==
  ASSUME NEW p \in Nat, NEW q \in Nat, p + q <= BasisPoints, NEW r \in Nat
  PROVE  apply_pct(p, r) + apply_pct(q, r) <= r
  <1> DEFINE x == apply_pct(p, r)
             y == apply_pct(q, r)
  <1>1. BasisPoints \in Nat \ {0} /\ p * r \in Nat /\ q * r \in Nat
    BY PoolMathAssumption, ProductNat
  <1>2. /\ x \in Nat /\ BasisPoints * x <= p * r
        /\ y \in Nat /\ BasisPoints * y <= q * r
    BY <1>1, DivisionBounds DEF apply_pct
  <1>3. p * r + q * r <= BasisPoints * r
    <2>1. (p + q) * r <= BasisPoints * r
      BY <1>1, ProductMonotone
    <2> QED
      BY <1>1, <2>1, ProductDistributes
  <1> HIDE DEF x, y
  <1>4. (x + y) * BasisPoints <= r * BasisPoints
    <2>1. /\ (x + y) * BasisPoints = BasisPoints * x + BasisPoints * y
          /\ r * BasisPoints = BasisPoints * r
          /\ BasisPoints * x \in Int /\ BasisPoints * y \in Int /\ BasisPoints * r \in Int
      BY <1>1, <1>2, ProductDistributes
    <2> QED
      BY <1>1, <1>2, <1>3, <2>1
  <1>5. x + y <= r
    BY <1>1, <1>2, <1>4, ProductCancel
  <1> QED
    BY <1>5 DEF x, y

(* Shares minted for a fee, at the price H the rewards it is part of raise from F. *)
LEMMA FeeKeepsPrice ==
  ASSUME NEW F \in Nat, NEW H \in Nat, NEW T \in Nat, F <= H, T <= H, NEW f \in Nat
  PROVE  /\ shares_from_amount(f, H, T) \in Nat
         /\ shares_from_amount(f, H, T) <= f
         /\ T > 0 => F * shares_from_amount(f, H, T) <= f * T
  <1> DEFINE s == shares_from_amount(f, H, T)
  <1>1. s \in Nat /\ s <= f /\ (T > 0 => H * (T + s) <= (H + f) * T)
    BY BuyKeepsPrice
  <1> HIDE DEF s
  <1>2. ASSUME T > 0 PROVE F * s <= f * T
    <2>1. /\ H * (T + s) = H * T + H * s /\ (H + f) * T = H * T + f * T
          /\ H * T \in Int /\ H * s \in Int /\ f * T \in Int /\ F * s \in Int
      BY <1>1, ProductDistributes
    <2>2. F * s <= H * s
      BY <1>1, ProductMonotone
    <2> QED
      BY <1>1, <1>2, <2>1, <2>2
  <1>3. s \in Nat /\ s <= f /\ (T > 0 => F * s <= f * T)
    BY <1>1, <1>2
  <1> QED
    BY <1>3 DEF s

-----------------------------------------------------------------------------
(* What shares are worth, and what an amount buys, up to a truncation. *)
LEMMA WorthBounds ==
  ASSUME NEW P \in Nat, NEW F \in Nat, NEW T \in Nat \ {0}
  PROVE  /\ amount_from_shares(P, F, T) \in Nat
         /\ amount_from_shares(P, F, T) * T <= P * F
         /\ P * F < amount_from_shares(P, F, T) * T + T
  <1> DEFINE w == amount_from_shares(P, F, T)
  <1>1. CASE P = 0
    BY <1>1 DEF amount_from_shares
  <1>2. CASE P > 0
    <2>1. w = (P * F) \div T /\ P * F \in Nat
      BY <1>2, ProductNat DEF amount_from_shares, proportional
    <2>2. w \in Nat /\ T * w <= P * F /\ P * F < T * w + T
      BY <2>1, DivisionBounds
    <2> HIDE DEF w
    <2>3. T * w = w * T
      BY <2>2
    <2> QED
      BY <2>2, <2>3 DEF w
  <1> QED
    BY <1>1, <1>2

LEMMA SharesBounds ==
  ASSUME NEW a \in Nat, NEW V \in Nat \ {0}, NEW L \in Nat \ {0}
  PROVE  /\ shares_from_amount(a, V, L) \in Nat
         /\ V * shares_from_amount(a, V, L) <= L * a
         /\ L * a < V * shares_from_amount(a, V, L) + V
  <1>1. CASE a = 0
    BY <1>1 DEF shares_from_amount
  <1>2. CASE a > 0
    <2>1. shares_from_amount(a, V, L) = (L * a) \div V /\ L * a \in Nat
      BY <1>2, ProductNat DEF shares_from_amount, proportional
    <2> QED
      BY <2>1, DivisionBounds
  <1> QED
    BY <1>1, <1>2

LEMMA WorthAtLeast ==
  ASSUME NEW P \in Nat, NEW F \in Nat, NEW T \in Nat \ {0}, NEW n \in Nat,
         n * T <= P * F
  PROVE  n <= amount_from_shares(P, F, T)
  <1> DEFINE w == amount_from_shares(P, F, T)
  <1>1. w \in Nat /\ P * F < w * T + T /\ P * F \in Nat
    BY WorthBounds, ProductNat
  <1> HIDE DEF w
  <1> SUFFICES ASSUME w + 1 <= n PROVE FALSE
    BY <1>1 DEF w
  <1>2. (w + 1) * T <= n * T
    BY <1>1, ProductMonotone
  <1>3. (w + 1) * T = w * T + T /\ w * T \in Nat /\ n * T \in Nat
    BY <1>1, ProductDistributes, ProductNat
  <1> QED
    BY <1>1, <1>2, <1>3

(* Shares are worth no less at a price that is no lower. *)
LEMMA WorthGrows ==
  ASSUME NEW P \in Nat, NEW F \in Nat, NEW T \in Nat \ {0},
         NEW F2 \in Nat, NEW T2 \in Nat \ {0}, F * T2 <= F2 * T
  PROVE  amount_from_shares(P, F, T) <= amount_from_shares(P, F2, T2)
  <1> DEFINE w == amount_from_shares(P, F, T)
  <1>1. w \in Nat /\ w * T <= P * F
    BY WorthBounds
  <1> HIDE DEF w
  <1>2. /\ w * T \in Nat /\ P * F \in Nat /\ w * T2 \in Nat /\ P * F2 \in Nat
        /\ F * T2 \in Nat /\ F2 * T \in Nat
    BY <1>1, ProductNat
  <1>3. (w * T) * T2 <= (P * F) * T2
    BY <1>1, <1>2, ProductMonotone
  <1>4. (F * T2) * P <= (F2 * T) * P
    BY <1>2, ProductMonotone
  <1>5. /\ (w * T) * T2 = (w * T2) * T /\ (P * F) * T2 = (F * T2) * P
        /\ (F2 * T) * P = (P * F2) * T
        /\ (w * T) * T2 \in Int /\ (F * T2) * P \in Int /\ (F2 * T) * P \in Int
    BY <1>1
  <1>6. (w * T2) * T <= (P * F2) * T
    BY <1>3, <1>4, <1>5
  <1>7. w * T2 <= P * F2
    BY <1>2, <1>6, ProductCancel
  <1> QED
    BY <1>1, <1>7, WorthAtLeast DEF w

(* Shares divided are worth what they were together, or a unit less. *)
LEMMA WorthAdds ==
  ASSUME NEW x \in Nat, NEW y \in Nat, NEW F \in Nat, NEW T \in Nat \ {0}
  PROVE  amount_from_shares(x + y, F, T)
           <= amount_from_shares(x, F, T) + amount_from_shares(y, F, T) + 1
  <1> DEFINE v == amount_from_shares(x, F, T)
             w == amount_from_shares(y, F, T)
             b == amount_from_shares(x + y, F, T)
  <1>1. /\ v \in Nat /\ w \in Nat /\ b \in Nat
        /\ x * F < v * T + T /\ y * F < w * T + T /\ b * T <= (x + y) * F
    <2>1. v \in Nat /\ x * F < v * T + T
      BY WorthBounds
    <2>2. w \in Nat /\ y * F < w * T + T
      BY WorthBounds
    <2>3. b \in Nat /\ b * T <= (x + y) * F
      <3> DEFINE z == x + y
      <3>1. z \in Nat
        OBVIOUS
      <3> HIDE DEF z
      <3> QED BY <3>1, WorthBounds DEF z
    <2> QED BY <2>1, <2>2, <2>3
  <1> HIDE DEF v, w, b
  <1>2. (x + y) * F = x * F + y * F /\ ((v + w) + 2) * T = v * T + w * T + T + T
        /\ x * F \in Int /\ y * F \in Int /\ v * T \in Int /\ w * T \in Int /\ b * T \in Int
    BY <1>1, ProductDistributes
  <1>3. b * T < ((v + w) + 2) * T
    BY <1>1, <1>2
  <1>4. b < (v + w) + 2
    <2> SUFFICES ASSUME (v + w) + 2 <= b PROVE FALSE
      BY <1>1
    <2>1. ((v + w) + 2) * T <= b * T
      BY <1>1, ProductMonotone
    <2> QED
      BY <1>1, <1>2, <1>3, <2>1
  <1> QED
    BY <1>1, <1>4 DEF v, w, b

(***************************************************************************)
(* A holder of P shares who sells b of them for z, a truncated number: what *)
(* the holder loses by the price falling for the rest is no more than what  *)
(* the truncation gave, since not all shares are the holder's.              *)
(***************************************************************************)
LEMMA SaleKeepsWorth ==
  ASSUME NEW P \in Nat, NEW F \in Nat, NEW T \in Nat, NEW b \in Nat, NEW z \in Nat,
         P <= T, b <= P, b < T, z <= F, F * b <= T * z
  PROVE  amount_from_shares(P, F, T)
           <= z + amount_from_shares(P - b, F - z, T - b)
  <1> DEFINE w == amount_from_shares(P, F, T)
             p == P - b
             t == T - b
             f == F - z
             rest == T - P
  <1>1. w \in Nat /\ w * T <= P * F
    BY WorthBounds
  <1>2. /\ p \in Nat /\ t \in Nat \ {0} /\ f \in Nat /\ rest \in Nat /\ T \in Nat \ {0}
        /\ P = p + b /\ T = t + b /\ F = f + z /\ t = rest + p
    OBVIOUS
  <1>3. amount_from_shares(p, f, t) \in Nat
    BY <1>2, AmountNat
  <1> HIDE DEF w
  <1>4. CASE w <= z
    BY <1>1, <1>3, <1>4 DEF w
  <1>5. CASE w > z
    <2> DEFINE m == w - z
    <2>1. m \in Nat /\ w = m + z
      BY <1>1, <1>5
    <2> HIDE DEF m, p, t, f, rest
    <2>2. (m * t) * T <= (p * f) * T
      <3>1. (w * T) * t <= (P * F) * t
        BY <1>1, <1>2, ProductMonotone, ProductNat
      <3>2. (F * b) * rest <= (T * z) * rest
        BY <1>2, ProductMonotone, ProductNat
      <3>3. (w * T) * t = (m * t) * T + (z * t) * T
        BY <1>2, <2>1
      <3>4. (P * F) * t = (p * f) * T + (z * t) * T + (F * b) * rest - (T * z) * rest
        BY <1>2
      <3>5. /\ (m * t) * T \in Int /\ (p * f) * T \in Int /\ (z * t) * T \in Int
            /\ (F * b) * rest \in Int /\ (T * z) * rest \in Int
        BY <1>2, <2>1
      <3> QED
        BY <3>1, <3>2, <3>3, <3>4, <3>5
    <2>3. m * t <= p * f
      BY <1>2, <2>1, <2>2, ProductNat, ProductCancel
    <2>4. m <= amount_from_shares(p, f, t)
      BY <1>2, <2>1, <2>3, WorthAtLeast
    <2> QED
      BY <1>1, <1>3, <2>1, <2>4 DEF w, p, t, f
  <1> QED
    BY <1>1, <1>4, <1>5

(***************************************************************************)
(* Another holder redeems an amount a for b shares, a truncated number: the *)
(* rest of the shares lose that truncation, less than what one is worth.    *)
(***************************************************************************)
LEMMA RedemptionCost ==
  ASSUME NEW P \in Nat, NEW F \in Nat, NEW T \in Nat \ {0}, NEW b \in Nat, NEW a \in Nat,
         P + b <= T, a <= F, T * a < F * b + F
  PROVE  amount_from_shares(P, F, T)
           <= amount_from_shares(P, F - a, T - b) + (amount_from_shares(1, F, T) + 1)
  <1> DEFINE w == amount_from_shares(P, F, T)
             one == amount_from_shares(1, F, T)
             t == T - b
             f == F - a
  <1>1. w \in Nat /\ w * T <= P * F
    BY WorthBounds
  <1>2. one \in Nat /\ F < one * T + T
    <2>1. one \in Nat /\ 1 * F < one * T + T
      BY WorthBounds
    <2> HIDE DEF one
    <2> QED BY <2>1
  <1>3. t \in Nat /\ f \in Nat /\ T = t + b /\ F = f + a /\ P <= t
    OBVIOUS
  <1>4. amount_from_shares(P, f, t) \in Nat
    BY <1>3, AmountNat
  <1> HIDE DEF w, one, t, f
  <1>5. CASE w <= one + 1
    BY <1>1, <1>2, <1>4, <1>5 DEF w, one, t, f
  <1>6. CASE w > one + 1
    <2> DEFINE m == w - (one + 1)
    <2>1. m \in Nat /\ w = m + (one + 1)
      BY <1>1, <1>2, <1>6
    <2> HIDE DEF m
    <2>2. m * T + F < P * F
      <3>1. w * T = m * T + one * T + T
        BY <1>2, <2>1
      <3>2. w * T \in Int /\ m * T \in Int /\ one * T \in Int /\ P * F \in Int
        BY <1>1, <1>2, <2>1, ProductNat
      <3> QED BY <1>1, <1>2, <3>1, <3>2
    <2>3. P > 0 /\ t \in Nat \ {0}
      <3>1. m * T \in Nat
        BY <2>1, ProductNat
      <3>2. P # 0
        <4>1. P = 0 => P * F = 0
          OBVIOUS
        <4> QED BY <2>2, <3>1, <4>1
      <3> QED BY <1>3, <3>2
    <2>4. (m * t) * T <= (P * f) * T
      <3>1. (m * T + F) * t <= (P * F) * t
        BY <1>3, <2>1, <2>2, ProductMonotone, ProductNat
      <3>2. (T * a) * P <= (F * b + F) * P
        BY <2>2, ProductMonotone, ProductNat
      <3>3. (P + b) * F <= T * F
        BY ProductMonotone
      <3>4. (m * T + F) * t = (m * t) * T + F * T - F * b
        BY <1>3, <2>1
      <3>5. (P * F) * t = (P * f) * T + (T * a) * P - (F * b) * P
        BY <1>3
      <3>6. (F * b + F) * P = (F * b) * P + F * P
        OBVIOUS
      <3>7. (P + b) * F = F * P + F * b /\ T * F = F * T
        OBVIOUS
      <3>8. /\ (m * t) * T \in Int /\ (P * f) * T \in Int /\ (F * b) * P \in Int
            /\ (T * a) * P \in Int /\ F * P \in Int /\ F * b \in Int /\ F * T \in Int
        BY <1>3, <2>1
      <3> QED
        BY <3>1, <3>2, <3>3, <3>4, <3>5, <3>6, <3>7, <3>8
    <2>5. m * t <= P * f
      BY <1>3, <2>1, <2>4, ProductNat, ProductCancel
    <2>6. m <= amount_from_shares(P, f, t)
      BY <1>3, <2>1, <2>3, <2>5, WorthAtLeast
    <2> QED
      BY <1>1, <1>2, <1>4, <2>1, <2>6 DEF w, one, t, f
  <1> QED
    BY <1>1, <1>2, <1>5, <1>6

(* Shares bought at a discount, less cuts that the discount pays for. *)
LEMMA SwapKeepsWorth ==
  ASSUME NEW P \in Nat, NEW F \in Nat, NEW T \in Nat \ {0},
         NEW s \in Nat, NEW cuts \in Nat, cuts <= s,
         NEW fee \in Nat, fee <= amount_from_shares(s, F, T), F * cuts <= T * fee
  PROVE  amount_from_shares(P, F, T) + (amount_from_shares(s, F, T) - fee)
           <= amount_from_shares(P + (s - cuts), F, T)
  <1> DEFINE w == amount_from_shares(P, F, T)
             v == amount_from_shares(s, F, T)
             bought == s - cuts
             n == w + (v - fee)
  <1>1. w \in Nat /\ v \in Nat /\ w * T <= P * F /\ v * T <= s * F
    BY WorthBounds
  <1>2. bought \in Nat /\ P + bought \in Nat /\ s = bought + cuts
    OBVIOUS
  <1> HIDE DEF w, bought
  <1>3. v - fee \in Nat
    BY <1>1
  <1> HIDE DEF v
  <1>4. n \in Nat /\ n * T = w * T + v * T - T * fee
    BY <1>1, <1>3, ProductDistributes
  <1> HIDE DEF n
  <1>5. (P + bought) * F = P * F + s * F - F * cuts
    BY <1>2
  <1>6. n * T <= (P + bought) * F
    <2>1. /\ w * T \in Int /\ v * T \in Int /\ T * fee \in Int /\ P * F \in Int
          /\ s * F \in Int /\ F * cuts \in Int
      BY <1>1, ProductNat
    <2> QED BY <1>1, <1>4, <1>5, <2>1
  <1>7. n <= amount_from_shares(P + bought, F, T)
    <2> DEFINE q == P + bought
    <2>1. q \in Nat /\ n * T <= q * F
      BY <1>2, <1>6
    <2> HIDE DEF q
    <2> QED BY <1>4, <2>1, WorthAtLeast DEF q
  <1> QED
    BY <1>7 DEF n, w, v, bought

-----------------------------------------------------------------------------
(* The constants, one by one. *)
LEMMA Constants ==
  /\ NumEpochsToUnlock \in Nat /\ MinDepositAmount \in Nat /\ MinStakeAmount \in Nat
  /\ MinRestakeAmount \in Nat /\ MinMovement \in Nat /\ MinUnstakeAmount \in Nat
  /\ MinBalanceForStorage \in Nat /\ LiquidityTarget \in Nat
  /\ OperatorRewardsFee \in Nat /\ DevelopersRewardsFee \in Nat
  /\ TreasurySwapCut \in Nat /\ OperatorSwapCut \in Nat /\ DevelopersSwapCut \in Nat
  /\ MinDiscount \in Nat /\ MaxDiscount \in Nat /\ MinDiscount <= MaxDiscount
  /\ MaxDiscount <= BasisPoints /\ BasisPoints \in Nat \ {0} /\ OneMilliNear \in Nat
  BY ParametersAssumption, PoolMathAssumption

LEMMA Inputs ==
  /\ Deposits \subseteq Nat /\ LiquidityDeposits \subseteq Nat
  /\ UnstakeAmounts \subseteq Nat /\ WithdrawAmounts \subseteq Nat
  /\ SellAmounts \subseteq Nat /\ RemoveAmounts \subseteq Nat
  BY InputsAssumption

LEMMA AccountNames ==
  /\ Users \subseteq Accounts /\ NSLP \in Accounts /\ Operator \in Accounts
  /\ Treasury \in Accounts /\ Developers \in Accounts
  /\ \A u \in Users : u \notin {NSLP, Operator, Treasury, Developers}
  BY AccountsAssumption DEF Accounts

-----------------------------------------------------------------------------
(***************************************************************************)
(* The part of TypeOK that is not about the pools and the calls to them.    *)
(* The methods of the users keep it however many calls are in flight, which *)
(* is how it also serves the operator's module.                             *)
(***************************************************************************)
LedgerTyped ==
  /\ accounts \in [Accounts -> Account]
  /\ total_available \in Nat /\ total_stake_shares \in Nat
  /\ epoch_stake_orders \in Nat /\ epoch_unstake_orders \in Nat
  /\ total_for_staking \in Nat /\ total_actually_staked \in Nat
  /\ reserve_for_unstake_claims \in Nat /\ total_unstaked_and_waiting \in Nat
  /\ total_unstake_claims \in Nat /\ contract_account_balance \in Nat
  /\ account_balance \in Nat /\ incoming \in Nat
  /\ accumulated_staked_rewards \in Nat /\ epoch_height \in Nat

LEMMA TypedLedger == TypeOK => LedgerTyped
  BY DEF TypeOK, LedgerTyped

(* What the model's operators return in a state of the right types. *)
LEMMA LedgerValuesNat ==
  ASSUME LedgerTyped, NEW n \in Nat
  PROVE  /\ stake_shares_from_amount(n) \in Nat
         /\ amount_from_stake_shares(n) \in Nat
         /\ total_pool_value \in Nat
         /\ nslp_shares_from_amount(n) \in Nat
         /\ amount_from_nslp_shares(n) \in Nat
  <1>1. \A m \in Nat : amount_from_stake_shares(m) \in Nat
    BY AmountNat DEF LedgerTyped, amount_from_stake_shares
  <1>2. accounts[NSLP] \in Account
    BY AccountNames DEF LedgerTyped
  <1>3. total_pool_value \in Nat
    BY <1>1, <1>2 DEF total_pool_value, Account
  <1> QED
    BY <1>1, <1>2, <1>3, SharesNat, AmountNat
    DEF LedgerTyped, Account, stake_shares_from_amount, nslp_shares_from_amount,
        amount_from_nslp_shares

LEMMA ValuesNat ==
  ASSUME TypeOK, NEW n \in Nat
  PROVE  /\ stake_shares_from_amount(n) \in Nat
         /\ amount_from_stake_shares(n) \in Nat
         /\ total_pool_value \in Nat
         /\ nslp_shares_from_amount(n) \in Nat
         /\ amount_from_nslp_shares(n) \in Nat
  BY TypedLedger, LedgerValuesNat

LEMMA TakeNat ==
  ASSUME NEW u, NEW requested \in Nat, NEW available \in Nat
  PROVE  take_from_available(u, requested, available) \in Nat
  BY DEF take_from_available

LEMMA DelayNat ==
  ASSUME NEW amount \in Nat
  PROVE  internal_compute_current_unstaking_delay(amount) \in Nat
  BY Constants DEF internal_compute_current_unstaking_delay

(* A sale takes no more NEAR than is ordered, nor than backs the stNEAR. *)
LEMMA LedgerSaleBounds ==
  ASSUME LedgerTyped, NEW for_staking \in Nat, NEW stake_shares \in Nat,
         NEW stake_orders \in Nat, NEW nslp_stake_shares \in Nat
  PROVE  LET sale == clearing_sale(for_staking, stake_shares, stake_orders,
                                   nslp_stake_shares)
         IN /\ sale.near \in Nat /\ sale.st_near \in Nat
            /\ sale.near <= stake_orders /\ sale.near <= for_staking
  <1> DEFINE room == for_staking - total_actually_staked
             to_stake == minimum(stake_orders, room)
             valued == amount_from_shares(nslp_stake_shares, for_staking, stake_shares)
             sale == clearing_sale(for_staking, stake_shares, stake_orders,
                                   nslp_stake_shares)
  <1>1. CASE ~clearing_applies(for_staking, nslp_stake_shares)
    <2>1. sale = [st_near |-> 0, near |-> 0]
      BY <1>1 DEF clearing_sale
    <2> QED
      BY <2>1
  <1>2. CASE clearing_applies(for_staking, nslp_stake_shares)
    <2>1. room \in Nat /\ room <= for_staking
      BY <1>2 DEF clearing_applies, LedgerTyped
    <2>2. to_stake \in Nat /\ to_stake <= stake_orders /\ to_stake <= for_staking
      <3> HIDE DEF room
      <3> QED
        BY <2>1, MinimumBounds
    <2>3. valued \in Nat
      BY AmountNat
    <2>4. CASE to_stake >= valued
      <3>1. sale = [st_near |-> nslp_stake_shares, near |-> valued]
        BY <1>2, <2>4 DEF clearing_sale
      <3> QED
        BY <3>1, <2>2, <2>3, <2>4
    <2>5. CASE ~(to_stake >= valued)
      <3>1. sale = [st_near |-> shares_from_amount(to_stake, for_staking, stake_shares),
                    near |-> to_stake]
        BY <1>2, <2>5 DEF clearing_sale
      <3> QED
        BY <3>1, <2>2, SharesNat
    <2> QED
      BY <2>4, <2>5
  <1> QED
    BY <1>1, <1>2

LEMMA SaleBounds ==
  ASSUME TypeOK, NEW for_staking \in Nat, NEW stake_shares \in Nat,
         NEW stake_orders \in Nat, NEW nslp_stake_shares \in Nat
  PROVE  LET sale == clearing_sale(for_staking, stake_shares, stake_orders,
                                   nslp_stake_shares)
         IN /\ sale.near \in Nat /\ sale.st_near \in Nat
            /\ sale.near <= stake_orders /\ sale.near <= for_staking
  BY TypedLedger, LedgerSaleBounds

(* A sale the liquidity pool can cover leaves it an account. *)
LEMMA SaleKeepsAccount ==
  ASSUME NEW lp \in Account, NEW sale, sale.near \in Nat, sale.st_near \in Nat,
         sale.st_near <= lp.stake_shares
  PROVE  after_sale(lp, sale) \in Account
  <1>1. /\ lp.available + sale.near \in Nat
        /\ lp.stake_shares - sale.st_near \in Nat
    BY DEF Account
  <1> QED
    BY <1>1 DEF after_sale, Account

LEMMA SharesKeepAccount ==
  ASSUME NEW acc \in Account, NEW n \in Nat
  PROVE  [acc EXCEPT !.stake_shares = @ + n] \in Account
  <1>1. acc.stake_shares + n \in Nat
    BY DEF Account
  <1> QED
    BY <1>1 DEF Account

-----------------------------------------------------------------------------
(***************************************************************************)
(* A step that moves NEAR between the entries of the books only: so much to *)
(* what is available, to the stake orders, to the reserve and to the        *)
(* unstake orders. What backs stNEAR follows the orders, the claims follow  *)
(* the reserve and the unstake orders, and the balances all that came in.   *)
(***************************************************************************)
Balanced(available, stake, reserve, unstaking) ==
  /\ total_available' = total_available + available
  /\ epoch_stake_orders' = epoch_stake_orders + stake
  /\ reserve_for_unstake_claims' = reserve_for_unstake_claims + reserve
  /\ epoch_unstake_orders' = epoch_unstake_orders + unstaking
  /\ total_for_staking' = total_for_staking + stake - unstaking
  /\ total_unstake_claims' = total_unstake_claims + reserve + unstaking
  /\ contract_account_balance' = contract_account_balance + (available + stake + reserve)
  /\ account_balance' = account_balance + (available + stake + reserve)
  /\ UNCHANGED <<total_actually_staked, total_unstaked_and_waiting, incoming, pool_vars>>

BalancedStep == \E a, s, r, u \in Int : Balanced(a, s, r, u)

LEMMA BalancedTyped ==
  ASSUME TypeOK, LedgerTyped', BalancedStep
  PROVE  TypeOK'
  BY DEF TypeOK, LedgerTyped, BalancedStep, Balanced, pool_vars

-----------------------------------------------------------------------------
(* Each method of the users keeps the types and the books in balance. *)
LEMMA StakeMoves ==
  ASSUME LedgerTyped, NEW u \in Users, NEW d \in Deposits, deposit_and_stake(u, d)
  PROVE  LedgerTyped' /\ BalancedStep
  <1> DEFINE acc == [accounts[u] EXCEPT !.available = @ + d]
             amount == take_from_available(u, d, acc.available)
             num_shares == stake_shares_from_amount(amount)
             for_staking == total_for_staking + amount
             shares == total_stake_shares + num_shares
             orders == epoch_stake_orders + amount
             sale == clearing_sale(for_staking, shares, orders,
                                   accounts[NSLP].stake_shares)
             staked == [acc EXCEPT !.available = @ - amount,
                                   !.stake_shares = @ + num_shares]
  <1>1. /\ d \in Nat
        /\ accounts \in [Accounts -> Account]
        /\ u \in Accounts /\ NSLP \in Accounts /\ u # NSLP
        /\ accounts[u] \in Account /\ accounts[NSLP] \in Account
    BY Inputs, AccountNames DEF LedgerTyped
  <1>2. acc \in Account /\ acc.available \in Nat
    BY <1>1 DEF Account
  <1>3. amount \in Nat /\ num_shares \in Nat
    <2> HIDE DEF acc
    <2> QED
      BY <1>1, <1>2, TakeNat, LedgerValuesNat
  <1>4. /\ amount <= acc.available
        /\ amount <= total_available + d
        /\ sale_covered(sale, shares)
        /\ accounts' = [accounts EXCEPT ![u] = staked, ![NSLP] = after_sale(@, sale)]
        /\ total_available' = (total_available + d - amount) + sale.near
        /\ total_for_staking' = for_staking - sale.near
        /\ total_stake_shares' = shares - sale.st_near
        /\ epoch_stake_orders' = orders - sale.near
    BY DEF deposit_and_stake, internal_stake
  <1>5. /\ contract_account_balance' = contract_account_balance + d
        /\ account_balance' = account_balance + d
        /\ UNCHANGED <<total_actually_staked, epoch_unstake_orders, claim_vars,
                       pool_vars, incoming, accumulated_staked_rewards, epoch_height>>
    BY DEF deposit_and_stake, internal_deposit
  <1> HIDE DEF acc, amount, num_shares, sale
  <1>6. for_staking \in Nat /\ shares \in Nat /\ orders \in Nat
    BY <1>3 DEF LedgerTyped
  <1>7. accounts[NSLP].stake_shares \in Nat
    BY <1>1 DEF Account
  <1> HIDE DEF for_staking, shares, orders
  <1>8. /\ sale.near \in Nat /\ sale.st_near \in Nat
        /\ sale.near <= orders /\ sale.near <= for_staking
    BY <1>6, <1>7, LedgerSaleBounds DEF sale
  <1>9. staked \in Account
    <2>1. /\ acc.available - amount \in Nat
          /\ acc.stake_shares + num_shares \in Nat
      BY <1>2, <1>3, <1>4 DEF Account
    <2> QED
      BY <1>2, <2>1 DEF Account
  <1>10. after_sale(accounts[NSLP], sale) \in Account
    BY <1>1, <1>4, <1>8, SaleKeepsAccount DEF sale_covered
  <1>11. accounts' \in [Accounts -> Account]
    BY <1>1, <1>4, <1>9, <1>10
  <1>12. /\ total_available' \in Nat /\ total_for_staking' \in Nat
         /\ total_stake_shares' \in Nat /\ epoch_stake_orders' \in Nat
    BY <1>1, <1>3, <1>4, <1>6, <1>8 DEF sale_covered, LedgerTyped
  <1>13. LedgerTyped'
    BY <1>1, <1>5, <1>11, <1>12 DEF LedgerTyped, claim_vars, pool_vars
  <1>14. Balanced(d - amount + sale.near, amount - sale.near, 0, 0)
    BY <1>1, <1>3, <1>4, <1>5, <1>6, <1>8
    DEF Balanced, LedgerTyped, for_staking, orders, claim_vars, pool_vars
  <1>15. d - amount + sale.near \in Int /\ amount - sale.near \in Int
    BY <1>1, <1>3, <1>4, <1>5, <1>6, <1>8
  <1> QED
    BY <1>13, <1>14, <1>15 DEF BalancedStep

LEMMA UnstakeMoves ==
  ASSUME LedgerTyped, NEW u \in Users, NEW requested \in Nat, unstake(u, requested)
  PROVE  LedgerTyped' /\ BalancedStep
  <1> DEFINE acc == accounts[u]
             valued_shares == amount_from_stake_shares(acc.stake_shares)
             all == is_close(requested, valued_shares)
             amount == IF all THEN valued_shares ELSE requested
             to_burn == IF all THEN acc.stake_shares
                               ELSE stake_shares_from_amount(requested)
             delay == internal_compute_current_unstaking_delay(amount)
             after == [acc EXCEPT !.stake_shares = @ - to_burn,
                                  !.unstaked = @ + amount,
                                  !.unstaked_requested_unlock_epoch = epoch_height + delay]
  <1>1. /\ accounts \in [Accounts -> Account]
        /\ u \in Accounts /\ acc \in Account /\ acc.stake_shares \in Nat
    BY AccountNames DEF LedgerTyped, Account
  <1>2. amount \in Nat /\ to_burn \in Nat
    <2> HIDE DEF acc
    <2> QED
      BY <1>1, LedgerValuesNat
  <1>3. /\ to_burn <= acc.stake_shares
        /\ amount <= total_for_staking /\ to_burn <= total_stake_shares
        /\ accounts' = [accounts EXCEPT ![u] = after]
        /\ epoch_unstake_orders' = epoch_unstake_orders + amount
        /\ total_unstake_claims' = total_unstake_claims + amount
        /\ total_stake_shares' = total_stake_shares - to_burn
        /\ total_for_staking' = total_for_staking - amount
    BY DEF unstake, internal_unstake
  <1> HIDE DEF amount, to_burn
  <1>4. delay \in Nat
    BY <1>2, DelayNat
  <1> HIDE DEF delay
  <1>5. after \in Account
    <2>1. /\ acc.stake_shares - to_burn \in Nat
          /\ acc.unstaked + amount \in Nat
          /\ epoch_height + delay \in Nat
      BY <1>1, <1>2, <1>3, <1>4 DEF LedgerTyped, Account
    <2> QED
      BY <1>1, <2>1 DEF Account
  <1>6. accounts' \in [Accounts -> Account]
    BY <1>1, <1>3, <1>5
  <1>7. LedgerTyped'
    BY <1>2, <1>3, <1>6
    DEF LedgerTyped, unstake, pool_vars, money_vars
  <1>8. Balanced(0, 0, 0, amount)
    BY <1>2, <1>3
    DEF Balanced, LedgerTyped, unstake, pool_vars, money_vars
  <1>9. amount \in Int
    BY <1>2, <1>3
  <1> QED
    BY <1>7, <1>8, <1>9 DEF BalancedStep

LEMMA WithdrawMoves ==
  ASSUME LedgerTyped, NEW u \in Users, NEW requested \in Nat, withdraw(u, requested)
  PROVE  LedgerTyped' /\ BalancedStep
  <1> DEFINE acc == accounts[u]
             available == acc.available + requested
             amount == take_from_available(u, requested, available)
             after == [acc EXCEPT !.unstaked = @ - requested,
                                  !.available = available - amount]
  <1>1. /\ accounts \in [Accounts -> Account]
        /\ u \in Accounts /\ acc \in Account /\ available \in Nat
    BY AccountNames DEF LedgerTyped, Account
  <1>2. amount \in Nat /\ amount <= available
    BY <1>1 DEF take_from_available, Account
  <1>3. /\ requested <= acc.unstaked
        /\ requested <= reserve_for_unstake_claims /\ requested <= total_unstake_claims
        /\ amount <= total_available + requested
        /\ amount <= contract_account_balance /\ amount <= account_balance
        /\ accounts' = [accounts EXCEPT ![u] = after]
        /\ contract_account_balance' = contract_account_balance - amount
        /\ account_balance' = account_balance - amount
        /\ reserve_for_unstake_claims' = reserve_for_unstake_claims - requested
        /\ total_unstake_claims' = total_unstake_claims - requested
        /\ total_available' = (total_available + requested) - amount
    BY DEF withdraw, funds_retrieved, native_transfer_to_predecessor
  <1>4. UNCHANGED <<total_stake_shares, order_vars, stake_vars,
                    total_unstaked_and_waiting, pool_vars, incoming,
                    accumulated_staked_rewards, epoch_height>>
    BY DEF withdraw
  <1> HIDE DEF amount, available
  <1>5. after \in Account
    <2>1. acc.unstaked - requested \in Nat /\ available - amount \in Nat
      BY <1>1, <1>2, <1>3 DEF Account
    <2> QED
      BY <1>1, <2>1 DEF Account
  <1>6. accounts' \in [Accounts -> Account]
    BY <1>1, <1>3, <1>5
  <1>7. LedgerTyped'
    BY <1>2, <1>3, <1>4, <1>6 DEF LedgerTyped, order_vars, stake_vars, pool_vars
  <1>8. Balanced(requested - amount, 0, -requested, 0)
    BY <1>2, <1>3, <1>4
    DEF Balanced, LedgerTyped, order_vars, stake_vars, pool_vars
  <1>9. requested - amount \in Int /\ -requested \in Int
    BY <1>2, <1>3, <1>4
  <1> QED
    BY <1>7, <1>8, <1>9 DEF BalancedStep

LEMMA SellMoves ==
  ASSUME LedgerTyped, NEW u \in Users, NEW s \in SellAmounts, liquid_unstake(u, s)
  PROVE  LedgerTyped' /\ BalancedStep
  <1> DEFINE acc == accounts[u]
             lp == accounts[NSLP]
             to_sell == IF is_close(s, acc.stake_shares) THEN acc.stake_shares ELSE s
             nears_out == amount_from_stake_shares(to_sell)
             discount == swap_fee_basis_points(lp.available, nears_out)
             fee == apply_pct(discount, nears_out)
             near_to_receive == nears_out - fee
             fee_in_st_near == stake_shares_from_amount(fee)
             treasury_cut == apply_pct(TreasurySwapCut, fee_in_st_near)
             operator_cut == apply_pct(OperatorSwapCut, fee_in_st_near)
             developers_cut == apply_pct(DevelopersSwapCut, fee_in_st_near)
             cuts == treasury_cut + operator_cut + developers_cut
             available == acc.available + near_to_receive
             amount == take_from_available(u, near_to_receive, available)
             seller == [acc EXCEPT !.stake_shares = @ - to_sell,
                                   !.available = available - amount]
             buyer == [lp EXCEPT !.available = @ - near_to_receive,
                                 !.stake_shares = @ + (to_sell - cuts)]
             plus(a, n) == [accounts[a] EXCEPT !.stake_shares = @ + n]
  <1>1. /\ s \in Nat
        /\ accounts \in [Accounts -> Account]
        /\ \A a \in Accounts : accounts[a] \in Account
        /\ acc \in Account /\ lp \in Account
        /\ acc.stake_shares \in Nat /\ acc.available \in Nat /\ lp.available \in Nat
    BY Inputs, AccountNames DEF LedgerTyped, Account
  <1>2. /\ discount < BasisPoints /\ cuts <= to_sell
        /\ to_sell <= acc.stake_shares /\ near_to_receive <= lp.available
        /\ amount <= available /\ amount <= total_available
        /\ amount <= contract_account_balance /\ amount <= account_balance
        /\ total_available' = total_available - amount
        /\ contract_account_balance' = contract_account_balance - amount
        /\ account_balance' = account_balance - amount
        /\ UNCHANGED <<total_stake_shares, order_vars, stake_vars, claim_vars,
                       pool_vars, incoming, accumulated_staked_rewards, epoch_height>>
    BY DEF liquid_unstake, native_transfer_to_predecessor
  <1>3. accounts' = [accounts EXCEPT
             ![u] = seller, ![NSLP] = buyer,
             ![Treasury].stake_shares = @ + treasury_cut,
             ![Operator].stake_shares = @ + operator_cut,
             ![Developers].stake_shares = @ + developers_cut]
    BY DEF liquid_unstake, st_near_to_liq_pool
  <1>4. to_sell \in Nat
    BY <1>1
  <1> HIDE DEF to_sell
  <1>5. nears_out \in Nat
    BY <1>4, LedgerValuesNat
  <1> HIDE DEF nears_out
  <1>6. /\ discount \in Nat
        /\ fee \in Nat /\ fee <= nears_out
    <2>1. discount \in Nat
      BY <1>1, <1>5, Constants, DiscountBounds DEF swap_fee_basis_points
    <2> HIDE DEF discount
    <2> QED
      BY <1>2, <1>5, <2>1, Constants, ApplyPctNat, ApplyPctBound
  <1> HIDE DEF discount, fee
  <1>7. fee_in_st_near \in Nat
    BY <1>6, LedgerValuesNat
  <1> HIDE DEF fee_in_st_near
  <1>8. treasury_cut \in Nat /\ operator_cut \in Nat /\ developers_cut \in Nat
    BY <1>7, Constants, ApplyPctNat
  <1>9. near_to_receive \in Nat /\ available \in Nat
    BY <1>1, <1>5, <1>6
  <1>10. amount \in Nat
    <2> HIDE DEF near_to_receive, available
    <2> QED
      BY <1>9, TakeNat
  <1> HIDE DEF treasury_cut, operator_cut, developers_cut, near_to_receive, amount
  <1>11. cuts \in Nat
    BY <1>8
  <1> HIDE DEF cuts, available
  <1>12. seller \in Account
    <2>1. acc.stake_shares - to_sell \in Nat /\ available - amount \in Nat
      BY <1>1, <1>2, <1>4, <1>9, <1>10
    <2> QED
      BY <1>1, <2>1 DEF Account
  <1>13. buyer \in Account
    <2>1. /\ lp.available - near_to_receive \in Nat
          /\ lp.stake_shares + (to_sell - cuts) \in Nat
      BY <1>1, <1>2, <1>4, <1>9, <1>11 DEF Account
    <2> QED
      BY <1>1, <2>1 DEF Account
  <1>14. /\ plus(Treasury, treasury_cut) \in Account
         /\ plus(Operator, operator_cut) \in Account
         /\ plus(Developers, developers_cut) \in Account
    BY <1>1, <1>8, AccountNames, SharesKeepAccount
  <1>15. /\ u # NSLP /\ u # Treasury /\ u # Operator /\ u # Developers
         /\ NSLP # Treasury /\ NSLP # Operator /\ NSLP # Developers
         /\ Treasury # Operator /\ Treasury # Developers /\ Operator # Developers
    BY AccountsAssumption
  <1>16. /\ accounts'[u] = seller /\ accounts'[NSLP] = buyer
         /\ accounts'[Treasury] = plus(Treasury, treasury_cut)
         /\ accounts'[Operator] = plus(Operator, operator_cut)
         /\ accounts'[Developers] = plus(Developers, developers_cut)
    <2> HIDE DEF seller, buyer
    <2> QED
      BY <1>1, <1>3, <1>15, AccountNames
  <1> HIDE DEF seller, buyer, plus
  <1>17. accounts' \in [Accounts -> Account]
    <2>1. /\ accounts' = [a \in Accounts |-> accounts'[a]]
          /\ \A a \in Accounts \ {u, NSLP, Treasury, Operator, Developers} :
                accounts'[a] = accounts[a]
      BY <1>1, <1>3
    <2> QED
      BY <1>1, <1>12, <1>13, <1>14, <1>16, <2>1
  <1>18. /\ total_available' \in Nat /\ contract_account_balance' \in Nat
         /\ account_balance' \in Nat
    BY <1>2, <1>10 DEF LedgerTyped
  <1>19. LedgerTyped'
    BY <1>2, <1>17, <1>18 DEF LedgerTyped, order_vars, stake_vars, claim_vars, pool_vars
  <1>20. Balanced(-amount, 0, 0, 0)
    BY <1>2, <1>10
    DEF Balanced, LedgerTyped, order_vars, stake_vars, claim_vars, pool_vars
  <1>21. -amount \in Int
    BY <1>2, <1>10
  <1> QED
    BY <1>19, <1>20, <1>21 DEF BalancedStep

LEMMA AddLiquidityMoves ==
  ASSUME LedgerTyped, NEW u \in Users, NEW d \in LiquidityDeposits, nslp_add_liquidity(u, d)
  PROVE  LedgerTyped' /\ BalancedStep
  <1> DEFINE acc == [accounts[u] EXCEPT !.available = @ + d]
             lp == accounts[NSLP]
             amount == take_from_available(u, d, acc.available)
             num_shares == nslp_shares_from_amount(amount)
             provider == [acc EXCEPT !.available = @ - amount, !.nslp_shares = @ + num_shares]
             pool == [lp EXCEPT !.available = @ + amount, !.nslp_shares = @ + num_shares]
  <1>1. /\ d \in Nat
        /\ accounts \in [Accounts -> Account]
        /\ u \in Accounts /\ NSLP \in Accounts
        /\ accounts[u] \in Account /\ lp \in Account
    BY Inputs, AccountNames DEF LedgerTyped
  <1>2. acc \in Account /\ acc.available \in Nat
    BY <1>1 DEF Account
  <1>3. /\ amount <= acc.available
        /\ total_available' = (total_available + d - amount) + amount
        /\ contract_account_balance' = contract_account_balance + d
        /\ account_balance' = account_balance + d
        /\ UNCHANGED <<total_stake_shares, order_vars, stake_vars, claim_vars,
                       pool_vars, incoming, accumulated_staked_rewards, epoch_height>>
    BY DEF nslp_add_liquidity, internal_deposit
  <1>4. accounts' = [accounts EXCEPT ![u] = provider, ![NSLP] = pool]
    BY DEF nslp_add_liquidity
  <1> HIDE DEF acc
  <1>5. amount \in Nat
    BY <1>1, <1>2, TakeNat
  <1> HIDE DEF amount
  <1>6. num_shares \in Nat
    BY <1>5, LedgerValuesNat
  <1> HIDE DEF num_shares
  <1>7. provider \in Account
    <2>1. acc.available - amount \in Nat /\ acc.nslp_shares + num_shares \in Nat
      BY <1>2, <1>3, <1>5, <1>6 DEF Account
    <2> QED
      BY <1>2, <2>1 DEF Account
  <1>8. pool \in Account
    <2>1. lp.available + amount \in Nat /\ lp.nslp_shares + num_shares \in Nat
      BY <1>1, <1>5, <1>6 DEF Account
    <2> QED
      BY <1>1, <2>1 DEF Account
  <1> HIDE DEF provider, pool
  <1>9. accounts' \in [Accounts -> Account]
    BY <1>1, <1>4, <1>7, <1>8
  <1>10. /\ total_available' \in Nat /\ contract_account_balance' \in Nat
         /\ account_balance' \in Nat
    BY <1>1, <1>3, <1>5 DEF LedgerTyped
  <1>11. LedgerTyped'
    BY <1>3, <1>9, <1>10 DEF LedgerTyped, order_vars, stake_vars, claim_vars, pool_vars
  <1>12. Balanced(d, 0, 0, 0)
    BY <1>1, <1>3, <1>5
    DEF Balanced, LedgerTyped, order_vars, stake_vars, claim_vars, pool_vars
  <1>13. d \in Int
    BY <1>1, <1>3, <1>5
  <1> QED
    BY <1>11, <1>12, <1>13 DEF BalancedStep

LEMMA RemoveLiquidityMoves ==
  ASSUME LedgerTyped, NEW u \in Users, NEW requested \in RemoveAmounts,
         nslp_remove_liquidity(u, requested)
  PROVE  LedgerTyped' /\ BalancedStep
  <1> DEFINE acc == accounts[u]
             lp == accounts[NSLP]
             valued == amount_from_nslp_shares(acc.nslp_shares)
             all == is_close(requested, valued)
             to_remove == IF all THEN valued ELSE requested
             to_burn == IF all THEN acc.nslp_shares ELSE nslp_shares_from_amount(requested)
             st_near == st_near_to_remove(lp, to_burn)
             near_to_remove == to_remove - amount_from_stake_shares(st_near)
             available == acc.available + near_to_remove
             amount == take_from_available(u, near_to_remove, available)
             provider == [acc EXCEPT !.available = available - amount,
                                     !.stake_shares = @ + st_near,
                                     !.nslp_shares = @ - to_burn]
             pool == [lp EXCEPT !.available = @ - near_to_remove,
                                !.stake_shares = @ - st_near,
                                !.nslp_shares = @ - to_burn]
  <1>1. /\ requested \in Nat
        /\ accounts \in [Accounts -> Account]
        /\ u \in Accounts /\ NSLP \in Accounts
        /\ acc \in Account /\ lp \in Account
        /\ acc.nslp_shares \in Nat /\ acc.available \in Nat
        /\ lp.nslp_shares \in Nat /\ lp.stake_shares \in Nat
    BY Inputs, AccountNames DEF LedgerTyped, Account
  <1>2. /\ to_burn > 0 /\ to_burn <= acc.nslp_shares /\ to_burn <= lp.nslp_shares
        /\ to_remove >= amount_from_stake_shares(st_near)
        /\ near_to_remove <= lp.available /\ st_near <= lp.stake_shares
        /\ amount <= available /\ amount <= total_available
        /\ amount <= contract_account_balance /\ amount <= account_balance
        /\ total_available' = total_available - amount
        /\ contract_account_balance' = contract_account_balance - amount
        /\ account_balance' = account_balance - amount
    BY DEF nslp_remove_liquidity, native_transfer_to_predecessor
  <1>3. accounts' = [accounts EXCEPT ![u] = provider, ![NSLP] = pool]
    BY DEF nslp_remove_liquidity
  <1>4. UNCHANGED <<total_stake_shares, order_vars, stake_vars, claim_vars,
                    pool_vars, incoming, accumulated_staked_rewards, epoch_height>>
    BY DEF nslp_remove_liquidity
  <1>5. to_remove \in Nat /\ to_burn \in Nat
    BY <1>1, LedgerValuesNat
  <1> HIDE DEF to_remove, to_burn
  <1>6. st_near \in Nat
    <2>1. lp.nslp_shares \in Nat \ {0}
      BY <1>1, <1>2, <1>5
    <2> QED
      BY <1>1, <1>5, <2>1, ProportionalNat DEF st_near_to_remove
  <1> HIDE DEF st_near
  <1>7. near_to_remove \in Nat
    BY <1>2, <1>5, <1>6, LedgerValuesNat
  <1> HIDE DEF near_to_remove
  <1>8. available \in Nat /\ amount \in Nat
    BY <1>1, <1>7, TakeNat
  <1> HIDE DEF available, amount
  <1>9. provider \in Account
    <2>1. /\ available - amount \in Nat
          /\ acc.stake_shares + st_near \in Nat
          /\ acc.nslp_shares - to_burn \in Nat
      BY <1>1, <1>2, <1>5, <1>6, <1>8 DEF Account
    <2> QED
      BY <1>1, <2>1 DEF Account
  <1>10. pool \in Account
    <2>1. /\ lp.available - near_to_remove \in Nat
          /\ lp.stake_shares - st_near \in Nat
          /\ lp.nslp_shares - to_burn \in Nat
      BY <1>1, <1>2, <1>5, <1>6, <1>7 DEF Account
    <2> QED
      BY <1>1, <2>1 DEF Account
  <1> HIDE DEF provider, pool
  <1>11. accounts' \in [Accounts -> Account]
    BY <1>1, <1>3, <1>9, <1>10
  <1>12. /\ total_available' \in Nat /\ contract_account_balance' \in Nat
         /\ account_balance' \in Nat
    BY <1>2, <1>8 DEF LedgerTyped
  <1>13. LedgerTyped'
    BY <1>4, <1>11, <1>12 DEF LedgerTyped, order_vars, stake_vars, claim_vars, pool_vars
  <1>14. Balanced(-amount, 0, 0, 0)
    BY <1>2, <1>4, <1>8
    DEF Balanced, LedgerTyped, order_vars, stake_vars, claim_vars, pool_vars
  <1>15. -amount \in Int
    BY <1>2, <1>4, <1>8
  <1> QED
    BY <1>13, <1>14, <1>15 DEF BalancedStep

LEMMA UserStepMoves ==
  ASSUME LedgerTyped, UserStep
  PROVE  LedgerTyped' /\ BalancedStep
  <1> SUFFICES ASSUME NEW u \in Users,
                      \/ \E d \in Deposits : deposit_and_stake(u, d)
                      \/ \E a \in UnstakeAmounts : unstake(u, a)
                      \/ unstake_all(u)
                      \/ \E a \in WithdrawAmounts : withdraw(u, a)
                      \/ withdraw_unstaked(u)
                      \/ \E s \in SellAmounts : liquid_unstake(u, s)
                      \/ \E d \in LiquidityDeposits : nslp_add_liquidity(u, d)
                      \/ \E a \in RemoveAmounts : nslp_remove_liquidity(u, a)
               PROVE  LedgerTyped' /\ BalancedStep
    BY DEF UserStep
  <1>1. accounts[u].unstaked \in Nat /\ accounts[u].stake_shares \in Nat
    BY AccountNames DEF LedgerTyped, Account
  <1>2. CASE \E d \in Deposits : deposit_and_stake(u, d)
    BY <1>2, StakeMoves
  <1>3. CASE \E a \in UnstakeAmounts : unstake(u, a)
    BY <1>3, Inputs, UnstakeMoves
  <1>4. CASE unstake_all(u)
    BY <1>1, <1>4, LedgerValuesNat, UnstakeMoves DEF unstake_all
  <1>5. CASE \E a \in WithdrawAmounts : withdraw(u, a)
    BY <1>5, Inputs, WithdrawMoves
  <1>6. CASE withdraw_unstaked(u)
    BY <1>1, <1>6, WithdrawMoves DEF withdraw_unstaked
  <1>7. CASE \E s \in SellAmounts : liquid_unstake(u, s)
    BY <1>7, SellMoves
  <1>8. CASE \E d \in LiquidityDeposits : nslp_add_liquidity(u, d)
    BY <1>8, AddLiquidityMoves
  <1>9. CASE \E a \in RemoveAmounts : nslp_remove_liquidity(u, a)
    BY <1>9, RemoveLiquidityMoves
  <1> QED
    BY <1>2, <1>3, <1>4, <1>5, <1>6, <1>7, <1>8, <1>9

LEMMA UserMoves ==
  ASSUME TypeOK, UserStep
  PROVE  TypeOK' /\ BalancedStep
  BY TypedLedger, UserStepMoves, BalancedTyped

-----------------------------------------------------------------------------
(* Each method of the heartbeat keeps the types. *)
LEMMA PoolRecords ==
  ASSUME TypeOK, NEW i \in DOMAIN staking_pools
  PROVE  /\ DOMAIN staking_pools = DOMAIN Weights
         /\ staking_pools[i] \in StakingPoolInfo
         /\ staking_pools[i].weight_basis_points \in Nat
         /\ staking_pools[i].staked \in Nat /\ staking_pools[i].unstaked \in Nat
         /\ staking_pools[i].busy_lock \in BOOLEAN
  <1>1. staking_pools \in [DOMAIN Weights -> StakingPoolInfo]
    BY DEF TypeOK
  <1> QED
    BY <1>1 DEF StakingPoolInfo

(* The records of a new call and of the pool it locks. *)
LEMMA LockTyped ==
  ASSUME TypeOK, NEW i \in DOMAIN staking_pools, NEW op \in Operation, NEW n \in Nat,
         lock_and_call(i, Call(op, i, n))
  PROVE  /\ contract_busy' \in BOOLEAN
         /\ staking_pools' \in [DOMAIN Weights -> StakingPoolInfo]
         /\ promises' \subseteq Promise
  <1>1. [staking_pools[i] EXCEPT !.busy_lock = TRUE] \in StakingPoolInfo
    BY PoolRecords DEF StakingPoolInfo
  <1>2. staking_pools' \in [DOMAIN Weights -> StakingPoolInfo]
    BY <1>1 DEF TypeOK, lock_and_call
  <1>3. Call(op, i, n) \in Promise
    BY PoolRecords DEF Call, Promise
  <1> QED
    BY <1>2, <1>3 DEF TypeOK, lock_and_call

LEMMA RequiredNat ==
  ASSUME TypeOK, NEW i \in DOMAIN staking_pools
  PROVE  /\ required_stake(staking_pools[i]) \in Nat
         /\ required_unstake(staking_pools[i]) \in Nat
  <1>1. should_have(staking_pools[i]) \in Nat
    BY PoolRecords, ApplyPctNat DEF TypeOK, should_have
  <1> QED
    BY <1>1, PoolRecords, SaturatingSubNat DEF required_stake, required_unstake

(* What is moved is not more than there is to move. *)
LEMMA MoveBounds ==
  ASSUME NEW required \in Nat, NEW total \in Nat, NEW fits
  PROVE  /\ amount_to_move(required, total, fits) \in Nat
         /\ amount_to_move(required, total, fits) <= total
  BY MinimumBounds DEF amount_to_move

LEMMA ClearingMoves ==
  ASSUME LedgerTyped, distribute_staking_clearing
  PROVE  LedgerTyped' /\ BalancedStep
  <1> DEFINE sale == clearing_sale(total_for_staking, total_stake_shares,
                                   epoch_stake_orders, accounts[NSLP].stake_shares)
  <1>1. /\ accounts \in [Accounts -> Account]
        /\ NSLP \in Accounts /\ accounts[NSLP] \in Account
        /\ accounts[NSLP].stake_shares \in Nat
    BY AccountNames DEF LedgerTyped, Account
  <1>2. /\ sale_covered(sale, total_stake_shares)
        /\ accounts' = [accounts EXCEPT ![NSLP] = after_sale(@, sale)]
        /\ total_available' = total_available + sale.near
        /\ total_for_staking' = total_for_staking - sale.near
        /\ epoch_stake_orders' = epoch_stake_orders - sale.near
        /\ total_stake_shares' = total_stake_shares - sale.st_near
    BY DEF distribute_staking_clearing
  <1>3. UNCHANGED <<epoch_unstake_orders, total_actually_staked, claim_vars, pool_vars,
                    money_vars, accumulated_staked_rewards, epoch_height>>
    BY DEF distribute_staking_clearing
  <1> HIDE DEF sale
  <1>4. /\ sale.near \in Nat /\ sale.st_near \in Nat
        /\ sale.near <= epoch_stake_orders /\ sale.near <= total_for_staking
    BY <1>1, LedgerSaleBounds DEF sale, LedgerTyped
  <1>5. after_sale(accounts[NSLP], sale) \in Account
    BY <1>1, <1>2, <1>4, SaleKeepsAccount DEF sale_covered
  <1>6. accounts' \in [Accounts -> Account]
    BY <1>1, <1>2, <1>5
  <1>7. /\ total_available' \in Nat /\ total_for_staking' \in Nat
        /\ epoch_stake_orders' \in Nat /\ total_stake_shares' \in Nat
    BY <1>2, <1>4 DEF LedgerTyped, sale_covered
  <1>8. LedgerTyped'
    BY <1>3, <1>6, <1>7 DEF LedgerTyped, claim_vars, pool_vars, money_vars
  <1>9. Balanced(sale.near, -sale.near, 0, 0)
    BY <1>2, <1>3, <1>4
    DEF Balanced, LedgerTyped, claim_vars, pool_vars, money_vars
  <1>10. sale.near \in Int /\ -sale.near \in Int
    BY <1>2, <1>3, <1>4
  <1> QED
    BY <1>8, <1>9, <1>10 DEF BalancedStep

LEMMA StakingClearingMoves ==
  ASSUME TypeOK, distribute_staking_clearing
  PROVE  TypeOK' /\ BalancedStep
  BY TypedLedger, ClearingMoves, BalancedTyped

(* What scheduling a stake and an unstake does to the books. *)
StakeCalled(i, op, n) ==
  /\ lock_and_call(i, Call(op, i, n))
  /\ total_actually_staked' = total_actually_staked + n
  /\ epoch_stake_orders' = epoch_stake_orders - n
  /\ account_balance' = account_balance - (IF op = "stake" THEN n ELSE 0)
  /\ UNCHANGED <<user_vars, epoch_unstake_orders, total_for_staking, claim_vars,
                 contract_account_balance, incoming>>

UnstakeCalled(i, n) ==
  /\ lock_and_call(i, Call("unstake", i, n))
  /\ total_actually_staked' = total_actually_staked - n
  /\ epoch_unstake_orders' = epoch_unstake_orders - n
  /\ UNCHANGED <<user_vars, epoch_stake_orders, total_for_staking, claim_vars, money_vars>>

LEMMA StakingCallTyped ==
  ASSUME TypeOK, distribute_staking_call
  PROVE  /\ TypeOK'
         /\ ~contract_busy
         /\ \E i \in DOMAIN staking_pools, n \in Nat, op \in {"stake", "restake"} :
              StakeCalled(i, op, n)
  <1>1. PICK i \in DOMAIN staking_pools :
          direct_stake(i, amount_to_move(required_stake(staking_pools[i]),
                                         total_amount_to_stake, TRUE))
    BY DEF distribute_staking_call
  <1> DEFINE sp == staking_pools[i]
             requested == amount_to_move(required_stake(sp), total_amount_to_stake, TRUE)
             restake == sp.unstaked >= MinRestakeAmount
             amount == IF restake THEN amount_to_restake(sp, requested) ELSE requested
  <1>2. UNCHANGED <<user_vars, epoch_unstake_orders, total_for_staking, claim_vars,
                    contract_account_balance, incoming, accumulated_staked_rewards,
                    epoch_height>>
    BY DEF distribute_staking_call
  <1>3. total_amount_to_stake \in Nat
    <2>1. total_for_staking - total_actually_staked \in Nat
      BY DEF TypeOK, distribute_staking_call
    <2> QED
      BY <2>1, MinimumBounds DEF total_amount_to_stake, TypeOK
  <1>4. requested \in Nat
    BY <1>3, RequiredNat, MoveBounds
  <1>5. /\ lock_and_call(i, Call(IF restake THEN "restake" ELSE "stake", i, amount))
        /\ IF restake THEN UNCHANGED account_balance
           ELSE /\ account_balance >= MinBalanceForStorage + amount
                /\ account_balance' = account_balance - amount
        /\ amount <= epoch_stake_orders
        /\ total_actually_staked' = total_actually_staked + amount
        /\ epoch_stake_orders' = epoch_stake_orders - amount
    BY <1>1 DEF direct_stake
  <1> HIDE DEF requested
  <1>6. amount \in Nat
    BY <1>4, PoolRecords, MinimumBounds DEF amount_to_restake
  <1> HIDE DEF amount
  <1>7. /\ contract_busy' \in BOOLEAN
        /\ staking_pools' \in [DOMAIN Weights -> StakingPoolInfo]
        /\ promises' \subseteq Promise
    BY <1>5, <1>6, LockTyped DEF Operation
  <1>8. /\ account_balance' \in Nat /\ total_actually_staked' \in Nat
        /\ epoch_stake_orders' \in Nat
    BY <1>5, <1>6, Constants DEF TypeOK
  <1>9. TypeOK'
    BY <1>2, <1>7, <1>8 DEF TypeOK, user_vars, claim_vars
  <1>10. StakeCalled(i, IF restake THEN "restake" ELSE "stake", amount)
    BY <1>2, <1>5, <1>6 DEF StakeCalled, TypeOK
  <1>11. ~contract_busy
    BY DEF distribute_staking_call
  <1> QED
    BY <1>6, <1>9, <1>10, <1>11

LEMMA UnstakingTyped ==
  ASSUME TypeOK, distribute_unstaking
  PROVE  /\ TypeOK'
         /\ ~contract_busy
         /\ \E i \in DOMAIN staking_pools, n \in Nat : UnstakeCalled(i, n)
  <1>1. PICK i \in DOMAIN staking_pools :
          direct_unstake(i, amount_to_unstake(staking_pools[i]))
    BY DEF distribute_unstaking
  <1> DEFINE sp == staking_pools[i]
             selected == minimum(required_unstake(sp), total_to_unstake)
             remainder == total_to_unstake - selected
             amount == amount_to_unstake(sp)
  <1>2. UNCHANGED <<user_vars, epoch_stake_orders, total_for_staking, claim_vars,
                    money_vars, accumulated_staked_rewards, epoch_height>>
    BY DEF distribute_unstaking
  <1>3. total_to_unstake \in Nat
    <2>1. total_actually_staked - total_for_staking \in Nat
      BY DEF TypeOK, distribute_unstaking
    <2> QED
      BY <2>1, MinimumBounds DEF total_to_unstake, TypeOK
  <1>4. amount \in Nat
    <2>1. amount = amount_to_move(required_unstake(sp), total_to_unstake,
                                  sp.staked > selected + remainder + 2 * MinMovement)
      BY DEF amount_to_unstake
    <2> QED
      BY <1>3, <2>1, RequiredNat, MoveBounds
  <1>5. /\ lock_and_call(i, Call("unstake", i, amount))
        /\ amount <= total_actually_staked /\ amount <= epoch_unstake_orders
        /\ total_actually_staked' = total_actually_staked - amount
        /\ epoch_unstake_orders' = epoch_unstake_orders - amount
    BY <1>1 DEF direct_unstake
  <1> HIDE DEF amount
  <1>6. /\ contract_busy' \in BOOLEAN
        /\ staking_pools' \in [DOMAIN Weights -> StakingPoolInfo]
        /\ promises' \subseteq Promise
    BY <1>4, <1>5, LockTyped DEF Operation
  <1>7. total_actually_staked' \in Nat /\ epoch_unstake_orders' \in Nat
    BY <1>4, <1>5 DEF TypeOK
  <1>8. TypeOK'
    BY <1>2, <1>6, <1>7 DEF TypeOK, user_vars, claim_vars, money_vars
  <1>9. UnstakeCalled(i, amount)
    BY <1>2, <1>5 DEF UnstakeCalled, claim_vars
  <1>10. ~contract_busy
    BY DEF distribute_unstaking
  <1> QED
    BY <1>4, <1>8, <1>9, <1>10

LEMMA HeartbeatTyped ==
  ASSUME TypeOK, HeartbeatCall
  PROVE  TypeOK'
  <1>1. CASE distribute_staking
    BY <1>1, StakingClearingMoves, StakingCallTyped DEF distribute_staking
  <1>2. CASE distribute_unstaking
    BY <1>2, UnstakingTyped
  <1>3. CASE end_of_epoch_clearing
    <2>1. /\ to_keep \in Nat
          /\ to_keep <= epoch_stake_orders /\ to_keep <= epoch_unstake_orders
      BY MinimumBounds DEF to_keep, TypeOK
    <2> QED
      BY <1>3, <2>1
      DEF end_of_epoch_clearing, TypeOK, user_vars, stake_vars, pool_vars, money_vars
  <1>4. CASE \E i \in DOMAIN staking_pools : retrieve_funds_from_a_pool(i)
    <2>1. PICK i \in DOMAIN staking_pools : retrieve_funds_from_a_pool(i)
      BY <1>4
    <2>2. /\ contract_busy' \in BOOLEAN
          /\ staking_pools' \in [DOMAIN Weights -> StakingPoolInfo]
          /\ promises' \subseteq Promise
      BY <2>1, PoolRecords, LockTyped DEF retrieve_funds_from_a_pool, Operation
    <2> QED
      BY <2>1, <2>2
      DEF retrieve_funds_from_a_pool, TypeOK, user_vars, order_vars, stake_vars,
          claim_vars, money_vars
  <1>5. CASE \E i \in AskedPools \cap DOMAIN staking_pools : distribute_rewards(i)
    <2>1. PICK i \in DOMAIN staking_pools : distribute_rewards(i)
      BY <1>5
    <2>2. /\ contract_busy' \in BOOLEAN
          /\ staking_pools' \in [DOMAIN Weights -> StakingPoolInfo]
          /\ promises' \subseteq Promise
      BY <2>1, LockTyped DEF distribute_rewards, Operation
    <2> QED
      BY <2>1, <2>2
      DEF distribute_rewards, TypeOK, user_vars, order_vars, stake_vars, claim_vars,
          money_vars
  <1> QED
    BY <1>1, <1>2, <1>3, <1>4, <1>5 DEF HeartbeatCall

-----------------------------------------------------------------------------
(* Each callback, and each step of the pools and the chain, keeps the types. *)
LEMMA Promises ==
  ASSUME TypeOK, NEW p \in promises
  PROVE  /\ p \in Promise
         /\ p.sp \in DOMAIN staking_pools /\ p.amount \in Nat /\ p.reply \in Nat
         /\ staking_pools[p.sp] \in StakingPoolInfo
         /\ staking_pools[p.sp].staked \in Nat
         /\ staking_pools[p.sp].unstaked \in Nat
  <1>1. p \in Promise /\ DOMAIN staking_pools = DOMAIN Weights
    BY DEF TypeOK
  <1>2. p.sp \in DOMAIN staking_pools /\ p.amount \in Nat /\ p.reply \in Nat
    BY <1>1 DEF Promise
  <1> QED
    BY <1>1, <1>2, PoolRecords

LEMMA UnlockTyped ==
  ASSUME TypeOK, NEW p \in promises, NEW sp \in StakingPoolInfo, unlock_with(p, sp)
  PROVE  /\ contract_busy' \in BOOLEAN
         /\ staking_pools' \in [DOMAIN Weights -> StakingPoolInfo]
         /\ promises' \subseteq Promise
  <1>1. [sp EXCEPT !.busy_lock = FALSE] \in StakingPoolInfo
    BY DEF StakingPoolInfo
  <1> QED
    BY <1>1 DEF TypeOK, unlock_with

LEMMA OnStakeTyped ==
  ASSUME TypeOK, NEW p \in promises, on_staking_pool_stake_maybe_deposit(p)
  PROVE  TypeOK'
  <1> DEFINE sp == staking_pools[p.sp]
             deposited == [sp EXCEPT !.staked = @ + p.amount]
             restaked == [sp EXCEPT !.staked = @ + p.amount, !.unstaked = @ - p.amount]
  <1>1. /\ p.amount \in Nat /\ sp \in StakingPoolInfo
        /\ sp.staked \in Nat /\ sp.unstaked \in Nat
    BY Promises
  <1>2. UNCHANGED <<user_vars, epoch_unstake_orders, total_for_staking, account_balance,
                    incoming, accumulated_staked_rewards, epoch_height>>
    BY DEF on_staking_pool_stake_maybe_deposit
  <1>3. sp.staked + p.amount \in Nat
    BY <1>1
  <1>4. CASE /\ p.amount <= contract_account_balance
             /\ contract_account_balance' = contract_account_balance - p.amount
             /\ unlock_with(p, deposited)
             /\ UNCHANGED <<total_actually_staked, epoch_stake_orders, claim_vars>>
    <2>1. deposited \in StakingPoolInfo
      BY <1>1, <1>3 DEF StakingPoolInfo
    <2>2. contract_account_balance' \in Nat
      BY <1>1, <1>4 DEF TypeOK
    <2> QED
      BY <1>2, <1>4, <2>1, <2>2, UnlockTyped DEF TypeOK, user_vars, claim_vars
  <1>5. CASE /\ p.amount <= sp.unstaked /\ p.amount <= total_unstaked_and_waiting
             /\ unlock_with(p, restaked)
             /\ total_unstaked_and_waiting' = total_unstaked_and_waiting - p.amount
             /\ restaked_to_reserve(p.amount)
             /\ UNCHANGED <<total_actually_staked, epoch_stake_orders,
                            total_unstake_claims, contract_account_balance>>
    <2>1. sp.unstaked - p.amount \in Nat
      BY <1>1, <1>5
    <2>2. restaked \in StakingPoolInfo
      BY <1>1, <1>3, <2>1 DEF StakingPoolInfo
    <2>3. total_unstaked_and_waiting' \in Nat /\ reserve_for_unstake_claims' \in Nat
      BY <1>1, <1>5 DEF TypeOK, restaked_to_reserve
    <2> QED
      BY <1>2, <1>5, <2>2, <2>3, UnlockTyped DEF TypeOK, user_vars
  <1>6. CASE /\ p.amount <= total_actually_staked
             /\ unlock_with(p, sp)
             /\ undo_stake(p.amount)
             /\ UNCHANGED <<claim_vars, contract_account_balance>>
    <2>1. total_actually_staked' \in Nat /\ epoch_stake_orders' \in Nat
      BY <1>1, <1>6 DEF TypeOK, undo_stake
    <2> QED
      BY <1>1, <1>2, <1>6, <2>1, UnlockTyped DEF TypeOK, user_vars, claim_vars
  <1> QED
    BY <1>4, <1>5, <1>6 DEF on_staking_pool_stake_maybe_deposit

LEMMA OnUnstakeTyped ==
  ASSUME TypeOK, NEW p \in promises, on_staking_pool_unstake(p)
  PROVE  TypeOK'
  <1> DEFINE sp == staking_pools[p.sp]
             unstaked == [sp EXCEPT !.staked = @ - p.amount,
                                    !.unstaked = @ + p.amount,
                                    !.unstk_req_epoch_height = epoch_height]
  <1>1. /\ p.amount \in Nat /\ sp \in StakingPoolInfo
        /\ sp.staked \in Nat /\ sp.unstaked \in Nat
    BY Promises
  <1>2. UNCHANGED <<user_vars, epoch_stake_orders, total_for_staking,
                    reserve_for_unstake_claims, total_unstake_claims, money_vars,
                    accumulated_staked_rewards, epoch_height>>
    BY DEF on_staking_pool_unstake
  <1>3. CASE /\ p.amount <= sp.staked
             /\ unlock_with(p, unstaked)
             /\ total_unstaked_and_waiting' = total_unstaked_and_waiting + p.amount
             /\ UNCHANGED <<total_actually_staked, epoch_unstake_orders>>
    <2>1. /\ sp.staked - p.amount \in Nat /\ sp.unstaked + p.amount \in Nat
          /\ total_unstaked_and_waiting' \in Nat
      BY <1>1, <1>3 DEF TypeOK
    <2>2. unstaked \in StakingPoolInfo
      BY <1>1, <2>1 DEF StakingPoolInfo, TypeOK
    <2> QED
      BY <1>2, <1>3, <2>1, <2>2, UnlockTyped DEF TypeOK, user_vars, money_vars
  <1>4. CASE /\ unlock_with(p, sp)
             /\ total_actually_staked' = total_actually_staked + p.amount
             /\ epoch_unstake_orders' = epoch_unstake_orders + p.amount
             /\ UNCHANGED total_unstaked_and_waiting
    <2>1. total_actually_staked' \in Nat /\ epoch_unstake_orders' \in Nat
      BY <1>1, <1>4 DEF TypeOK
    <2> QED
      BY <1>1, <1>2, <1>4, <2>1, UnlockTyped DEF TypeOK, user_vars, money_vars
  <1> QED
    BY <1>3, <1>4 DEF on_staking_pool_unstake

LEMMA OnRetrieveTyped ==
  ASSUME TypeOK, NEW p \in promises, on_retrieve_from_staking_pool(p)
  PROVE  TypeOK'
  <1> DEFINE sp == staking_pools[p.sp]
             emptied == [sp EXCEPT !.unstaked = 0]
  <1>1. sp \in StakingPoolInfo /\ sp.unstaked \in Nat
    BY Promises
  <1>2. UNCHANGED <<user_vars, order_vars, stake_vars, total_unstake_claims,
                    account_balance, incoming, accumulated_staked_rewards, epoch_height>>
    BY DEF on_retrieve_from_staking_pool
  <1>3. CASE /\ unlock_with(p, emptied)
             /\ total_unstaked_and_waiting' =
                  saturating_sub(total_unstaked_and_waiting, sp.unstaked)
             /\ contract_account_balance' = contract_account_balance + sp.unstaked
             /\ reserve_for_unstake_claims' = reserve_for_unstake_claims + sp.unstaked
    <2>1. emptied \in StakingPoolInfo
      BY <1>1 DEF StakingPoolInfo
    <2>2. /\ total_unstaked_and_waiting' \in Nat /\ contract_account_balance' \in Nat
          /\ reserve_for_unstake_claims' \in Nat
      BY <1>1, <1>3, SaturatingSubNat DEF TypeOK
    <2> QED
      BY <1>2, <1>3, <2>1, <2>2, UnlockTyped DEF TypeOK, user_vars, order_vars, stake_vars
  <1>4. CASE /\ unlock_with(p, sp)
             /\ UNCHANGED <<total_unstaked_and_waiting, contract_account_balance,
                            reserve_for_unstake_claims>>
    BY <1>1, <1>2, <1>4, UnlockTyped DEF TypeOK, user_vars, order_vars, stake_vars
  <1> QED
    BY <1>3, <1>4 DEF on_retrieve_from_staking_pool

LEMMA OnRewardsTyped ==
  ASSUME TypeOK, NEW p \in promises, on_get_sp_total_balance(p)
  PROVE  TypeOK'
  <1> DEFINE sp == staking_pools[p.sp]
             rewards == saturating_sub(p.reply, sp.staked + sp.unstaked)
             for_staking == total_for_staking + rewards
             operator_fee_shares ==
               fee_shares(apply_pct(OperatorRewardsFee, rewards), for_staking)
             developers_fee_shares ==
               fee_shares(apply_pct(DevelopersRewardsFee, rewards), for_staking)
             rewarded == [sp EXCEPT !.staked = p.reply - sp.unstaked,
                                    !.last_asked_rewards_epoch_height = epoch_height]
             plus(a, n) == [accounts[a] EXCEPT !.stake_shares = @ + n]
  <1>1. /\ p.reply \in Nat /\ sp \in StakingPoolInfo
        /\ sp.staked \in Nat /\ sp.unstaked \in Nat
    BY Promises
  <1>2. /\ sp.unstaked <= p.reply
        /\ unlock_with(p, rewarded)
        /\ accumulated_staked_rewards' = accumulated_staked_rewards + rewards
        /\ total_for_staking' = for_staking
        /\ total_actually_staked' = total_actually_staked + rewards
        /\ total_stake_shares' =
             total_stake_shares + operator_fee_shares + developers_fee_shares
        /\ UNCHANGED <<total_available, order_vars, claim_vars, money_vars, epoch_height>>
    BY DEF on_get_sp_total_balance
  <1>3. accounts' = [accounts EXCEPT
          ![Operator].stake_shares = @ + operator_fee_shares,
          ![Developers].stake_shares = @ + developers_fee_shares]
    BY DEF on_get_sp_total_balance
  <1>4. rewarded \in StakingPoolInfo
    <2>1. p.reply - sp.unstaked \in Nat
      BY <1>1, <1>2
    <2> QED
      BY <1>1, <2>1 DEF StakingPoolInfo, TypeOK
  <1>5. rewards \in Nat
    <2>1. sp.staked + sp.unstaked \in Nat
      BY <1>1
    <2> QED
      BY <1>1, <2>1, SaturatingSubNat
  <1> HIDE DEF rewards
  <1>6. for_staking \in Nat
    BY <1>5 DEF TypeOK
  <1> HIDE DEF for_staking
  <1>7. operator_fee_shares \in Nat /\ developers_fee_shares \in Nat
    BY <1>5, <1>6, Constants, ApplyPctNat, SharesNat DEF fee_shares, TypeOK
  <1> HIDE DEF operator_fee_shares, developers_fee_shares
  <1>8. /\ plus(Operator, operator_fee_shares) \in Account
        /\ plus(Developers, developers_fee_shares) \in Account
    BY <1>7, AccountNames, SharesKeepAccount DEF TypeOK
  <1>9. accounts' = [accounts EXCEPT ![Operator] = plus(Operator, operator_fee_shares),
                                     ![Developers] = plus(Developers, developers_fee_shares)]
    BY <1>3, AccountNames, AccountsAssumption DEF TypeOK
  <1> HIDE DEF plus
  <1>10. accounts' \in [Accounts -> Account]
    BY <1>8, <1>9 DEF TypeOK
  <1>11. /\ accumulated_staked_rewards' \in Nat /\ total_for_staking' \in Nat
         /\ total_actually_staked' \in Nat /\ total_stake_shares' \in Nat
    BY <1>2, <1>5, <1>6, <1>7 DEF TypeOK
  <1> QED
    BY <1>2, <1>4, <1>10, <1>11, UnlockTyped DEF TypeOK, order_vars, claim_vars, money_vars

LEMMA CallbackTyped ==
  ASSUME TypeOK, Callback
  PROVE  TypeOK'
  <1> SUFFICES ASSUME NEW p \in promises,
                      \/ on_staking_pool_stake_maybe_deposit(p)
                      \/ on_staking_pool_unstake(p)
                      \/ on_retrieve_from_staking_pool(p)
                      \/ on_get_sp_total_balance(p)
                      \/ on_get_sp_total_balance_panics(p)
               PROVE  TypeOK'
    BY DEF Callback
  <1>1. CASE on_get_sp_total_balance_panics(p)
    BY <1>1 DEF on_get_sp_total_balance_panics, TypeOK, user_vars, order_vars, stake_vars,
                claim_vars, money_vars
  <1> QED
    BY <1>1, OnStakeTyped, OnUnstakeTyped, OnRetrieveTyped, OnRewardsTyped

LEMMA ResolvedTyped ==
  ASSUME TypeOK, NEW p \in promises, NEW status \in {"ok", "failed"}, NEW reply \in Nat,
         resolved(p, status, reply)
  PROVE  promises' \subseteq Promise
  <1>1. [p EXCEPT !.status = status, !.reply = reply] \in Promise
    BY Promises DEF Promise
  <1> QED
    BY <1>1 DEF TypeOK, resolved

LEMMA EnvironmentTyped ==
  ASSUME TypeOK, Environment
  PROVE  TypeOK'
  <1>1. CASE \E p \in promises : pool_performs(p)
    <2>1. PICK p \in promises : pool_performs(p)
      BY <1>1
    <2> DEFINE sp == staking_pools[p.sp]
    <2>2. UNCHANGED <<user_vars, order_vars, stake_vars, claim_vars, contract_busy,
                      staking_pools, contract_account_balance, account_balance,
                      accumulated_staked_rewards, epoch_height>>
      BY <2>1 DEF pool_performs
    <2>3. promises' \subseteq Promise /\ incoming' \in Nat
      <3>1. CASE p.op = "rewards"
        <4>1. PICK r \in RewardReplies :
                sp.staked + r >= 0 /\ resolved(p, "ok", sp.staked + sp.unstaked + r)
          BY <2>1, <3>1 DEF pool_performs
        <4>2. sp.staked + sp.unstaked + r \in Nat
          BY <4>1, Promises, EnvironmentAssumption
        <4>3. UNCHANGED incoming
          BY <2>1, <3>1 DEF pool_performs
        <4> QED
          BY <4>1, <4>2, <4>3, ResolvedTyped DEF TypeOK
      <3>2. CASE p.op # "rewards"
        <4>1. resolved(p, "ok", 0)
          BY <2>1, <3>2 DEF pool_performs
        <4>2. incoming' = incoming + p.amount \/ incoming' = incoming
          BY <2>1, <3>2 DEF pool_performs
        <4> QED
          BY <4>1, <4>2, Promises, ResolvedTyped DEF TypeOK
      <3> QED
        BY <3>1, <3>2
    <2> QED
      BY <2>2, <2>3 DEF TypeOK, user_vars, order_vars, stake_vars, claim_vars
  <1>2. CASE \E p \in promises : pool_fails(p)
    <2>1. PICK p \in promises : pool_fails(p)
      BY <1>2
    <2>2. promises' \subseteq Promise
      BY <2>1, ResolvedTyped DEF pool_fails
    <2>3. incoming' \in Nat
      BY <2>1, Promises DEF pool_fails, TypeOK
    <2> QED
      BY <2>1, <2>2, <2>3
      DEF pool_fails, TypeOK, user_vars, order_vars, stake_vars, claim_vars
  <1>3. CASE transfer_arrives
    BY <1>3 DEF transfer_arrives, TypeOK, user_vars, order_vars, stake_vars, claim_vars,
                pool_vars
  <1>4. CASE next_epoch
    BY <1>4 DEF next_epoch, TypeOK, user_vars, order_vars, stake_vars, claim_vars,
                pool_vars, money_vars
  <1> QED
    BY <1>1, <1>2, <1>3, <1>4 DEF Environment

-----------------------------------------------------------------------------
LEMMA InitTyped == Init => TypeOK
  <1> SUFFICES ASSUME Init PROVE TypeOK
    OBVIOUS
  <1>1. EmptyAccount \in Account
    BY DEF EmptyAccount, Account
  <1>2. \A i \in DOMAIN Weights : NewStakingPool(Weights[i]) \in StakingPoolInfo
    BY ParametersAssumption DEF NewStakingPool, StakingPoolInfo
  <1> QED
    BY <1>1, <1>2, Constants DEF Init, TypeOK

LEMMA NextTyped == TypeOK /\ [Next]_vars => TypeOK'
  <1>1. CASE UNCHANGED vars
    BY <1>1 DEF TypeOK, vars, user_vars, order_vars, stake_vars, claim_vars, pool_vars,
                money_vars
  <1> QED
    BY <1>1, UserMoves, HeartbeatTyped, CallbackTyped, EnvironmentTyped DEF Next

(***************************************************************************)
(* TypeOK: every record keeps its shape and every amount the sign the code's *)
(* unsigned types give it. Where the code subtracts unchecked by a guard of  *)
(* the action (the sale of internal.rs:343, the delays, the fees) the lemmas *)
(* above show the difference is never negative.                             *)
(***************************************************************************)
THEOREM TypeCorrect == Spec => []TypeOK
  BY InitTyped, NextTyped, PTL DEF Spec
=============================================================================
