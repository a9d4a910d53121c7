------------------------------ MODULE SumProofs ------------------------------
(***************************************************************************)
(* Facts about the sum of a function over a finite set, as the community    *)
(* module Functions defines it, by folding. The library's induction         *)
(* theorems take a predicate as an operator; here a predicate is the set of *)
(* what it holds of, and induction is the absence of a smallest exception.  *)
(***************************************************************************)
EXTENDS Integers, Functions, FiniteSetTheorems, TLAPS

-----------------------------------------------------------------------------
(* A property that an element removed from a finite set preserves backwards. *)
LEMMA SubsetInduction ==
  ASSUME NEW S, IsFiniteSet(S), NEW Good \in SUBSET SUBSET S,
         {} \in Good,
         \A s \in SUBSET S :
           s # {} /\ s \ {CHOOSE x \in s : TRUE} \in Good => s \in Good
  PROVE  Good = SUBSET S
  <1> DEFINE Bad == (SUBSET S) \ Good
  <1> SUFFICES ASSUME Bad # {} PROVE FALSE
    OBVIOUS
  <1>1. IsWellFoundedOn(StrictSubsetOrdering(S), SUBSET S)
    BY FS_StrictSubsetOrderingWellFounded, FS_FiniteSubsetsOfFinite
  <1>2. Bad \subseteq SUBSET S
    OBVIOUS
  <1> HIDE DEF Bad
  <1>3. PICK s \in Bad : \A t \in Bad : <<t, s>> \notin StrictSubsetOrdering(S)
    BY <1>1, <1>2, WFMin
  <1> DEFINE c == CHOOSE x \in s : TRUE
  <1>4. s \in SUBSET S /\ s \notin Good /\ s # {}
    BY <1>3 DEF Bad
  <1>5. c \in s
    BY <1>4
  <1>6. <<s \ {c}, s>> \in StrictSubsetOrdering(S)
    BY <1>4, <1>5 DEF StrictSubsetOrdering
  <1>7. s \ {c} \in Good
    BY <1>3, <1>4, <1>6 DEF Bad
  <1> QED
    BY <1>4, <1>7

LEMMA NumberInduction ==
  ASSUME NEW Good \in SUBSET Nat, 0 \in Good, \A n \in Good : n + 1 \in Good
  PROVE  Good = Nat
  <1> SUFFICES ASSUME NEW n \in Nat PROVE n \in Good
    OBVIOUS
  <1> DEFINE Below == {m \in 0..n : m \notin Good}
             Initial == {0..m : m \in Below}
  <1> SUFFICES ASSUME Below # {} PROVE FALSE
    OBVIOUS
  <1>1. IsWellFoundedOn(StrictSubsetOrdering(0..n), SUBSET (0..n))
    <2>1. IsFiniteSet(0..n)
      BY FS_Interval
    <2> QED
      BY <2>1, FS_StrictSubsetOrderingWellFounded, FS_FiniteSubsetsOfFinite
  <1>2. Initial \subseteq SUBSET (0..n) /\ Initial # {}
    OBVIOUS
  <1>3. PICK s \in Initial : \A t \in Initial : <<t, s>> \notin StrictSubsetOrdering(0..n)
    <2> HIDE DEF Initial
    <2> QED BY <1>1, <1>2, WFMin
  <1>4. PICK m \in Below : s = 0..m
    BY <1>3
  <1>5. m # 0 /\ m - 1 \in Nat /\ m - 1 \in 0..n
    BY <1>4
  <1>6. m - 1 \notin Good
    BY <1>4, <1>5
  <1>7. <<0..(m - 1), s>> \in StrictSubsetOrdering(0..n)
    <2>1. 0..(m - 1) \subseteq 0..m /\ m \in 0..m /\ m \notin 0..(m - 1)
      BY <1>4, <1>5
    <2>2. 0..(m - 1) \in SUBSET (0..n) /\ s \in SUBSET (0..n)
      BY <1>4, <1>5
    <2> QED
      BY <1>4, <2>1, <2>2 DEF StrictSubsetOrdering
  <1> QED
    BY <1>3, <1>5, <1>6, <1>7

-----------------------------------------------------------------------------
(* What folding + over a function adds up for a set, from a smaller set. *)
PartialSum(f, g, s) ==
  IF s = {} THEN 0 ELSE LET x == CHOOSE x \in s : TRUE IN f[x] + g[s \ {x}]

AddsUp(f, g, S) == g = [s \in SUBSET S |-> PartialSum(f, g, s)]

(* The recursion of the fold is well defined. *)
LEMMA FoldDefined ==
  ASSUME NEW S, IsFiniteSet(S), NEW f
  PROVE  \E g : AddsUp(f, g, S)
  <1> DEFINE UpTo(g, n) == \A s \in SUBSET S : Cardinality(s) <= n => g[s] = PartialSum(f, g, s)
             Good == {n \in Nat : \E g : g = [s \in SUBSET S |-> g[s]] /\ UpTo(g, n)}
  <1>1. \A s \in SUBSET S : IsFiniteSet(s) /\ Cardinality(s) \in Nat
    BY FS_Subset, FS_CardinalityType
  <1>2. 0 \in Good
    <2> DEFINE g == [s \in SUBSET S |-> 0]
    <2>1. \A s \in SUBSET S : Cardinality(s) <= 0 => s = {}
      BY <1>1, FS_EmptySet
    <2>2. g = [s \in SUBSET S |-> g[s]] /\ UpTo(g, 0)
      BY <2>1 DEF PartialSum
    <2> QED
      BY <2>2
  <1>3. ASSUME NEW n \in Good PROVE n + 1 \in Good
    <2>1. PICK g : g = [s \in SUBSET S |-> g[s]] /\ UpTo(g, n)
      BY <1>3
    <2> DEFINE h == [s \in SUBSET S |-> PartialSum(f, g, s)]
    <2>2. \A s \in SUBSET S : Cardinality(s) <= n => h[s] = g[s]
      BY <2>1
    <2>3. ASSUME NEW s \in SUBSET S, Cardinality(s) <= n + 1
          PROVE  h[s] = PartialSum(f, h, s)
      <3>1. CASE s = {}
        BY <3>1 DEF PartialSum
      <3>2. CASE s # {}
        <4> DEFINE c == CHOOSE x \in s : TRUE
        <4>1. c \in s
          BY <3>2
        <4>2. s \ {c} \in SUBSET S /\ Cardinality(s \ {c}) <= n
          <5>1. Cardinality(s \ {c}) = Cardinality(s) - 1
            BY <1>1, <2>3, <4>1, FS_RemoveElement
          <5>2. Cardinality(s) \in Nat /\ n \in Nat
            BY <1>1, <1>3
          <5> QED
            BY <2>3, <5>1, <5>2
        <4>3. h[s \ {c}] = g[s \ {c}]
          BY <2>2, <4>2
        <4> QED
          BY <3>2, <4>3 DEF PartialSum
      <3> QED
        BY <3>1, <3>2
    <2>4. h = [s \in SUBSET S |-> h[s]]
      OBVIOUS
    <2>5. n + 1 \in Nat
      BY <1>3
    <2> HIDE DEF h
    <2>6. UpTo(h, n + 1)
      BY <2>3
    <2> QED
      BY <2>4, <2>5, <2>6
  <1>4. Good = Nat
    <2> HIDE DEF Good
    <2>1. Good \in SUBSET Nat
      BY DEF Good
    <2> QED
      BY <1>2, <1>3, <2>1, NumberInduction
  <1>5. PICK g : g = [s \in SUBSET S |-> g[s]] /\ UpTo(g, Cardinality(S))
    BY <1>1, <1>4
  <1>6. \A s \in SUBSET S : g[s] = PartialSum(f, g, s)
    BY <1>1, <1>5, FS_Subset
  <1> QED
    BY <1>5, <1>6 DEF AddsUp

LEMMA SumFolds ==
  ASSUME NEW S, IsFiniteSet(S), NEW f
  PROVE  \E g : AddsUp(f, g, S) /\ SumFunctionOnSet(f, S) = g[S]
  <1> DEFINE g == CHOOSE g : AddsUp(f, g, S)
  <1>1. AddsUp(f, g, S)
    BY FoldDefined
  <1>2. SumFunctionOnSet(f, S) = g[S]
    BY DEF SumFunctionOnSet, FoldFunctionOnSet, MapThenFoldSet, AddsUp, PartialSum
  <1> QED
    BY <1>1, <1>2

LEMMA FoldStep ==
  ASSUME NEW S, NEW f, NEW g, AddsUp(f, g, S)
  PROVE  /\ g[{}] = 0
         /\ \A s \in SUBSET S : s # {} =>
              LET c == CHOOSE x \in s : TRUE
              IN  c \in s /\ s \ {c} \in SUBSET S /\ g[s] = f[c] + g[s \ {c}]
  BY DEF AddsUp, PartialSum

-----------------------------------------------------------------------------
(* A sum of integers is an integer, and that of naturals is one that is no  *)
(* less than each of them.                                                  *)
LEMMA SumInt ==
  ASSUME NEW S, IsFiniteSet(S), NEW f, \A x \in S : f[x] \in Int
  PROVE  SumFunctionOnSet(f, S) \in Int
  <1>1. PICK g : AddsUp(f, g, S) /\ SumFunctionOnSet(f, S) = g[S]
    BY SumFolds
  <1> DEFINE Good == {s \in SUBSET S : g[s] \in Int}
  <1>2. ASSUME NEW s \in SUBSET S, s # {}, s \ {CHOOSE x \in s : TRUE} \in Good
        PROVE  s \in Good
    <2> DEFINE c == CHOOSE x \in s : TRUE
    <2>1. c \in s /\ g[s] = f[c] + g[s \ {c}]
      BY <1>1, <1>2, FoldStep
    <2>2. f[c] \in Int /\ g[s \ {c}] \in Int
      BY <1>2, <2>1
    <2> HIDE DEF c
    <2> QED
      BY <2>1, <2>2
  <1>3. {} \in Good
    BY <1>1, FoldStep
  <1>4. Good = SUBSET S
    <2> HIDE DEF Good
    <2>1. Good \in SUBSET SUBSET S
      BY DEF Good
    <2> QED BY <1>2, <1>3, <2>1, SubsetInduction
  <1> QED
    BY <1>1, <1>4

LEMMA SumNat ==
  ASSUME NEW S, IsFiniteSet(S), NEW f, \A x \in S : f[x] \in Nat
  PROVE  /\ SumFunctionOnSet(f, S) \in Nat
         /\ \A x \in S : f[x] <= SumFunctionOnSet(f, S)
  <1>1. PICK g : AddsUp(f, g, S) /\ SumFunctionOnSet(f, S) = g[S]
    BY SumFolds
  <1> DEFINE Good == {s \in SUBSET S : g[s] \in Nat /\ \A x \in s : f[x] <= g[s]}
  <1>2. ASSUME NEW s \in SUBSET S, s # {}, s \ {CHOOSE x \in s : TRUE} \in Good
        PROVE  s \in Good
    <2> DEFINE c == CHOOSE x \in s : TRUE
    <2>1. c \in s /\ g[s] = f[c] + g[s \ {c}]
      BY <1>1, <1>2, FoldStep
    <2>2. f[c] \in Nat /\ g[s \ {c}] \in Nat /\ \A x \in s \ {c} : f[x] <= g[s \ {c}]
      BY <1>2, <2>1
    <2> HIDE DEF c
    <2>3. g[s] \in Nat /\ f[c] <= g[s] /\ g[s \ {c}] <= g[s]
      BY <2>1, <2>2
    <2>4. ASSUME NEW x \in s PROVE f[x] <= g[s]
      <3>1. f[x] \in Nat
        OBVIOUS
      <3> QED BY <2>2, <2>3, <3>1
    <2> QED
      BY <2>3, <2>4
  <1>3. {} \in Good
    BY <1>1, FoldStep
  <1>4. Good = SUBSET S
    <2> HIDE DEF Good
    <2>1. Good \in SUBSET SUBSET S
      BY DEF Good
    <2> QED BY <1>2, <1>3, <2>1, SubsetInduction
  <1> QED
    BY <1>1, <1>4

(* Changing one term changes the sum by as much. *)
LEMMA SumChanges ==
  ASSUME NEW S, IsFiniteSet(S), NEW f, NEW h, NEW z,
         \A x \in S : f[x] \in Int /\ h[x] \in Int,
         \A x \in S \ {z} : h[x] = f[x]
  PROVE  SumFunctionOnSet(h, S)
           = SumFunctionOnSet(f, S) + (IF z \in S THEN h[z] - f[z] ELSE 0)
  <1>1. PICK g : AddsUp(f, g, S) /\ SumFunctionOnSet(f, S) = g[S]
    BY SumFolds
  <1>2. PICK k : AddsUp(h, k, S) /\ SumFunctionOnSet(h, S) = k[S]
    BY SumFolds
  <1> DEFINE Good == {s \in SUBSET S :
               /\ g[s] \in Int
               /\ k[s] = g[s] + (IF z \in s THEN h[z] - f[z] ELSE 0)}
  <1>3. ASSUME NEW s \in SUBSET S, s # {}, s \ {CHOOSE x \in s : TRUE} \in Good
        PROVE  s \in Good
    <2> DEFINE c == CHOOSE x \in s : TRUE
    <2>1. c \in s /\ g[s] = f[c] + g[s \ {c}] /\ k[s] = h[c] + k[s \ {c}]
      <3>1. c \in s /\ g[s] = f[c] + g[s \ {c}]
        <4> HIDE DEF Good
        <4> QED BY <1>1, <1>3, FoldStep
      <3>2. k[s] = h[c] + k[s \ {c}]
        BY <1>2, <1>3, FoldStep
      <3> QED BY <3>1, <3>2
    <2>2. /\ f[c] \in Int /\ h[c] \in Int /\ g[s \ {c}] \in Int
          /\ k[s \ {c}] = g[s \ {c}] + (IF z \in s \ {c} THEN h[z] - f[z] ELSE 0)
      BY <1>3, <2>1
    <2> HIDE DEF c
    <2>3. CASE z = c
      BY <2>1, <2>2, <2>3
    <2>4. CASE z # c /\ z \in s
      <3>1. h[c] = f[c] /\ f[z] \in Int /\ h[z] \in Int
        BY <2>1, <2>4
      <3> QED BY <2>1, <2>2, <2>4, <3>1
    <2>5. CASE z \notin s
      <3>1. h[c] = f[c]
        BY <2>1, <2>5
      <3> QED BY <2>1, <2>2, <2>5, <3>1
    <2> QED
      BY <2>3, <2>4, <2>5
  <1>4. {} \in Good
    BY <1>1, <1>2, FoldStep
  <1>5. Good = SUBSET S
    <2> HIDE DEF Good
    <2>1. Good \in SUBSET SUBSET S
      BY DEF Good
    <2> QED BY <1>3, <1>4, <2>1, SubsetInduction
  <1> QED
    BY <1>1, <1>2, <1>5

LEMMA SumOfOneChange ==
  ASSUME NEW S, IsFiniteSet(S), NEW f, NEW h, NEW z \in S,
         \A x \in S : f[x] \in Int /\ h[x] \in Int,
         \A x \in S \ {z} : h[x] = f[x]
  PROVE  SumFunctionOnSet(h, S) = SumFunctionOnSet(f, S) + (h[z] - f[z])
  BY SumChanges

(* The same for several terms, one after the other. *)
LEMMA SumOfFourChanges ==
  ASSUME NEW S, IsFiniteSet(S), NEW f, NEW h,
         \A x \in S : f[x] \in Int /\ h[x] \in Int,
         NEW a \in S, NEW b \in S, NEW c \in S, NEW d \in S,
         a # b, a # c, a # d, b # c, b # d, c # d,
         \A x \in S \ {a, b, c, d} : h[x] = f[x]
  PROVE  SumFunctionOnSet(h, S)
           = SumFunctionOnSet(f, S)
             + (h[a] - f[a]) + (h[b] - f[b]) + (h[c] - f[c]) + (h[d] - f[d])
  <1> DEFINE after_a == [x \in S |-> IF x = a THEN h[x] ELSE f[x]]
             after_b == [x \in S |-> IF x \in {a, b} THEN h[x] ELSE f[x]]
             after_c == [x \in S |-> IF x \in {a, b, c} THEN h[x] ELSE f[x]]
  <1>1. /\ \A x \in S : after_a[x] \in Int /\ after_b[x] \in Int /\ after_c[x] \in Int
        /\ \A x \in S \ {a} : after_a[x] = f[x]
        /\ \A x \in S \ {b} : after_b[x] = after_a[x]
        /\ \A x \in S \ {c} : after_c[x] = after_b[x]
        /\ \A x \in S \ {d} : h[x] = after_c[x]
    OBVIOUS
  <1>2. /\ after_a[a] = h[a]
        /\ after_b[b] = h[b] /\ after_a[b] = f[b]
        /\ after_c[c] = h[c] /\ after_b[c] = f[c]
        /\ after_c[d] = f[d]
    OBVIOUS
  <1> HIDE DEF after_a, after_b, after_c
  <1>3. SumFunctionOnSet(after_a, S) = SumFunctionOnSet(f, S) + (after_a[a] - f[a])
    BY <1>1, SumOfOneChange
  <1>4. SumFunctionOnSet(after_b, S) = SumFunctionOnSet(after_a, S) + (after_b[b] - after_a[b])
    BY <1>1, SumOfOneChange
  <1>5. SumFunctionOnSet(after_c, S) = SumFunctionOnSet(after_b, S) + (after_c[c] - after_b[c])
    BY <1>1, SumOfOneChange
  <1>6. SumFunctionOnSet(h, S) = SumFunctionOnSet(after_c, S) + (h[d] - after_c[d])
    BY <1>1, SumOfOneChange
  <1>7. SumFunctionOnSet(f, S) \in Int
    BY SumInt
  <1> QED
    BY <1>2, <1>3, <1>4, <1>5, <1>6, <1>7

FiveOf(S, a, b, c, d, e) ==
  /\ a \in S /\ b \in S /\ c \in S /\ d \in S /\ e \in S
  /\ a # b /\ a # c /\ a # d /\ b # c /\ b # d /\ c # d
  /\ e \notin {a, b, c, d}

LEMMA SumOfFiveChanges ==
  ASSUME NEW S, IsFiniteSet(S), NEW f, NEW h,
         \A x \in S : f[x] \in Int /\ h[x] \in Int,
         NEW a, NEW b, NEW c, NEW d, NEW e, FiveOf(S, a, b, c, d, e),
         \A x \in S \ {a, b, c, d, e} : h[x] = f[x]
  PROVE  SumFunctionOnSet(h, S)
           = SumFunctionOnSet(f, S) + (h[a] - f[a]) + (h[b] - f[b]) + (h[c] - f[c])
             + (h[d] - f[d]) + (h[e] - f[e])
  <1> DEFINE after == [x \in S |-> IF x = e THEN h[x] ELSE f[x]]
  <1>1. /\ \A x \in S : after[x] \in Int
        /\ \A x \in S \ {e} : after[x] = f[x]
        /\ \A x \in S \ {a, b, c, d} : h[x] = after[x]
        /\ after[a] = f[a] /\ after[b] = f[b] /\ after[c] = f[c] /\ after[d] = f[d]
        /\ after[e] = h[e]
    BY DEF FiveOf
  <1> HIDE DEF after
  <1>2. SumFunctionOnSet(after, S) = SumFunctionOnSet(f, S) + (after[e] - f[e])
    <2>1. /\ \A x \in S : f[x] \in Int /\ after[x] \in Int
          /\ \A x \in S \ {e} : after[x] = f[x]
          /\ e \in S
      BY <1>1 DEF FiveOf
    <2> QED
      BY <2>1, SumOfOneChange
  <1>3. SumFunctionOnSet(h, S)
          = SumFunctionOnSet(after, S) + (h[a] - after[a]) + (h[b] - after[b])
            + (h[c] - after[c]) + (h[d] - after[d])
    BY <1>1, SumOfFourChanges DEF FiveOf
  <1>4. SumFunctionOnSet(f, S) \in Int
    BY SumInt
  <1> QED
    BY <1>1, <1>2, <1>3, <1>4 DEF FiveOf

(* A linear bound on each term is one on the sum. *)
LEMMA SumBound ==
  ASSUME NEW S, IsFiniteSet(S), NEW f, NEW h, NEW a \in Int, NEW b \in Int, NEW d \in Int,
         \A x \in S : f[x] \in Int /\ h[x] \in Int /\ b * h[x] <= a * f[x] + d
  PROVE  b * SumFunctionOnSet(h, S) <= a * SumFunctionOnSet(f, S) + d * Cardinality(S)
  <1>1. PICK g : AddsUp(f, g, S) /\ SumFunctionOnSet(f, S) = g[S]
    BY SumFolds
  <1>2. PICK k : AddsUp(h, k, S) /\ SumFunctionOnSet(h, S) = k[S]
    BY SumFolds
  <1> DEFINE Good == {s \in SUBSET S :
               /\ g[s] \in Int /\ k[s] \in Int
               /\ b * k[s] <= a * g[s] + d * Cardinality(s)}
  <1>3. ASSUME NEW s \in SUBSET S, s # {}, s \ {CHOOSE x \in s : TRUE} \in Good
        PROVE  s \in Good
    <2> DEFINE c == CHOOSE x \in s : TRUE
               n == Cardinality(s \ {c})
    <2>1. c \in s /\ g[s] = f[c] + g[s \ {c}] /\ k[s] = h[c] + k[s \ {c}]
      <3>1. c \in s /\ g[s] = f[c] + g[s \ {c}]
        BY <1>1, <1>3, FoldStep
      <3>2. k[s] = h[c] + k[s \ {c}]
        BY <1>2, <1>3, FoldStep
      <3> QED BY <3>1, <3>2
    <2>2. /\ f[c] \in Int /\ h[c] \in Int /\ g[s \ {c}] \in Int /\ k[s \ {c}] \in Int
          /\ b * h[c] <= a * f[c] + d
          /\ b * k[s \ {c}] <= a * g[s \ {c}] + d * n
      BY <1>3, <2>1
    <2> HIDE DEF c
    <2>3. Cardinality(s) = n + 1 /\ n \in Int
      <3>1. IsFiniteSet(s) /\ IsFiniteSet(s \ {c})
        BY FS_Subset
      <3>2. Cardinality(s) \in Nat /\ n \in Nat /\ n = Cardinality(s) - 1
        BY <2>1, <3>1, FS_CardinalityType, FS_RemoveElement
      <3> QED BY <3>2
    <2> HIDE DEF n
    <2>4. /\ b * k[s] = b * h[c] + b * k[s \ {c}]
          /\ a * g[s] = a * f[c] + a * g[s \ {c}]
          /\ d * Cardinality(s) = d * n + d
      BY <2>1, <2>2, <2>3
    <2>5. g[s] \in Int /\ k[s] \in Int
      BY <2>1, <2>2
    <2>6. ASSUME NEW bh \in Int, NEW bk \in Int, NEW af \in Int, NEW ag \in Int, NEW dn \in Int,
                 bh <= af + d, bk <= ag + dn
          PROVE  bh + bk <= (af + ag) + (dn + d)
      BY <2>6
    <2>7. /\ b * h[c] \in Int /\ b * k[s \ {c}] \in Int /\ a * f[c] \in Int
          /\ a * g[s \ {c}] \in Int /\ d * n \in Int
      BY <2>2, <2>3
    <2>8. b * k[s] <= a * g[s] + d * Cardinality(s)
      BY <2>2, <2>4, <2>6, <2>7
    <2> QED
      BY <2>5, <2>8
  <1>4. {} \in Good
    BY <1>1, <1>2, FoldStep, FS_EmptySet
  <1>5. Good = SUBSET S
    <2> HIDE DEF Good
    <2>1. Good \in SUBSET SUBSET S
      BY DEF Good
    <2> QED BY <1>3, <1>4, <2>1, SubsetInduction
  <1> QED
    BY <1>1, <1>2, <1>5

(* The sum of the sums of two functions' values. *)
LEMMA SumOfBoth ==
  ASSUME NEW S, IsFiniteSet(S), NEW f, NEW h, NEW both,
         \A x \in S : f[x] \in Int /\ h[x] \in Int /\ both[x] = f[x] + h[x]
  PROVE  SumFunctionOnSet(both, S) = SumFunctionOnSet(f, S) + SumFunctionOnSet(h, S)
  <1>1. PICK g : AddsUp(f, g, S) /\ SumFunctionOnSet(f, S) = g[S]
    BY SumFolds
  <1>2. PICK k : AddsUp(h, k, S) /\ SumFunctionOnSet(h, S) = k[S]
    BY SumFolds
  <1>3. PICK m : AddsUp(both, m, S) /\ SumFunctionOnSet(both, S) = m[S]
    BY SumFolds
  <1> DEFINE Good == {s \in SUBSET S : g[s] \in Int /\ k[s] \in Int /\ m[s] = g[s] + k[s]}
  <1>4. ASSUME NEW s \in SUBSET S, s # {}, s \ {CHOOSE x \in s : TRUE} \in Good
        PROVE  s \in Good
    <2> DEFINE c == CHOOSE x \in s : TRUE
    <2>1. c \in s /\ g[s] = f[c] + g[s \ {c}]
      BY <1>1, <1>4, FoldStep
    <2>2. k[s] = h[c] + k[s \ {c}]
      BY <1>2, <1>4, FoldStep
    <2>3. m[s] = both[c] + m[s \ {c}]
      BY <1>3, <1>4, FoldStep
    <2>4. /\ f[c] \in Int /\ h[c] \in Int /\ both[c] = f[c] + h[c]
          /\ g[s \ {c}] \in Int /\ k[s \ {c}] \in Int
          /\ m[s \ {c}] = g[s \ {c}] + k[s \ {c}]
      BY <1>4, <2>1
    <2> HIDE DEF c
    <2> QED
      BY <2>1, <2>2, <2>3, <2>4
  <1>5. {} \in Good
    BY <1>1, <1>2, <1>3, FoldStep
  <1>6. Good = SUBSET S
    <2> HIDE DEF Good
    <2>1. Good \in SUBSET SUBSET S
      BY DEF Good
    <2> QED BY <1>4, <1>5, <2>1, SubsetInduction
  <1> QED
    BY <1>1, <1>2, <1>3, <1>6

(* A sum of nothing. *)
LEMMA SumZero ==
  ASSUME NEW S, IsFiniteSet(S), NEW f, \A x \in S : f[x] = 0
  PROVE  SumFunctionOnSet(f, S) = 0
  <1>1. PICK g : AddsUp(f, g, S) /\ SumFunctionOnSet(f, S) = g[S]
    BY SumFolds
  <1> DEFINE Good == {s \in SUBSET S : g[s] = 0}
  <1>2. \A s \in SUBSET S :
          s # {} /\ s \ {CHOOSE x \in s : TRUE} \in Good => s \in Good
    BY <1>1, FoldStep
  <1>3. {} \in Good
    BY <1>1, FoldStep
  <1>4. Good = SUBSET S
    <2> HIDE DEF Good
    <2>1. Good \in SUBSET SUBSET S
      BY DEF Good
    <2> QED BY <1>2, <1>3, <2>1, SubsetInduction
  <1> QED
    BY <1>1, <1>4

-----------------------------------------------------------------------------
(* The sum does not depend on which element the fold takes first, nor on    *)
(* the values outside the set: an element may join or leave the set.        *)
LEMMA FoldTakesAny ==
  ASSUME NEW S, IsFiniteSet(S), NEW f, \A x \in S : f[x] \in Int,
         NEW g, AddsUp(f, g, S), NEW all \in SUBSET S, NEW one \in all
  PROVE  g[all] = f[one] + g[all \ {one}]
  <1> DEFINE Small(n) == {s \in SUBSET S : Cardinality(s) <= n}
             Good == {n \in Nat : \A s \in Small(n) : \A c \in s : g[s] = f[c] + g[s \ {c}]}
  <1>1. \A s \in SUBSET S : IsFiniteSet(s) /\ Cardinality(s) \in Nat
    BY FS_Subset, FS_CardinalityType
  <1>2. \A s \in SUBSET S : \A c \in s :
          s \ {c} \in SUBSET S /\ Cardinality(s \ {c}) = Cardinality(s) - 1
    BY <1>1, FS_RemoveElement
  <1>3. \A s \in SUBSET S : g[s] \in Int
    <2> DEFINE Sums == {s \in SUBSET S : g[s] \in Int}
    <2>1. ASSUME NEW s \in SUBSET S, s # {}, s \ {CHOOSE x \in s : TRUE} \in Sums
          PROVE  s \in Sums
      <3> DEFINE c == CHOOSE x \in s : TRUE
      <3>1. c \in s /\ g[s] = f[c] + g[s \ {c}]
        BY <2>1, FoldStep
      <3>2. f[c] \in Int /\ g[s \ {c}] \in Int
        BY <2>1, <3>1
      <3> HIDE DEF c
      <3> QED BY <3>1, <3>2
    <2>2. {} \in Sums /\ Sums \in SUBSET SUBSET S
      BY FoldStep
    <2> HIDE DEF Sums
    <2>3. Sums = SUBSET S
      BY <2>1, <2>2, SubsetInduction
    <2> QED BY <2>3 DEF Sums
  <1>4. 0 \in Good
    <2>1. \A s \in Small(0) : s = {}
      BY <1>1, FS_EmptySet
    <2> QED BY <2>1
  <1>5. ASSUME NEW n \in Good
        PROVE  n + 1 \in Good
    <2> SUFFICES ASSUME NEW t \in Small(n + 1), NEW e \in t
                 PROVE  g[t] = f[e] + g[t \ {e}]
      OBVIOUS
    <2> DEFINE d == CHOOSE x \in t : TRUE
               both == (t \ {e}) \ {d}
    <2>1. d \in t /\ g[t] = f[d] + g[t \ {d}]
      <3>1. t \in SUBSET S /\ t # {}
        OBVIOUS
      <3>2. \A u \in SUBSET S : u # {} =>
              LET x == CHOOSE x \in u : TRUE
              IN  x \in u /\ u \ {x} \in SUBSET S /\ g[u] = f[x] + g[u \ {x}]
        BY FoldStep
      <3> HIDE DEF Small, Good
      <3> QED BY <3>1, <3>2
    <2> HIDE DEF d
    <2>2. CASE e = d
      BY <2>1, <2>2
    <2>3. CASE e # d
      <3>1. t \ {e} \in Small(n) /\ t \ {d} \in Small(n)
        BY <1>1, <1>2, <2>1
      <3>2. g[t \ {d}] = f[e] + g[(t \ {d}) \ {e}]
        BY <2>3, <3>1
      <3>3. g[t \ {e}] = f[d] + g[(t \ {e}) \ {d}]
        BY <2>1, <2>3, <3>1
      <3>4. (t \ {d}) \ {e} = both
        OBVIOUS
      <3>5. f[e] \in Int /\ f[d] \in Int /\ g[both] \in Int
        BY <1>3, <2>1
      <3>6. g[t] = f[d] + (f[e] + g[both]) /\ g[t \ {e}] = f[d] + g[both]
        BY <2>1, <3>2, <3>3, <3>4
      <3>7. \A p, q, w \in Int : p + (q + w) = q + (p + w)
        OBVIOUS
      <3> HIDE DEF Small, Good, both
      <3> QED BY <3>5, <3>6, <3>7
    <2> QED BY <2>2, <2>3
  <1>6. Good = Nat
    <2> HIDE DEF Good
    <2>1. Good \in SUBSET Nat
      BY DEF Good
    <2> QED BY <1>4, <1>5, <2>1, NumberInduction
  <1> HIDE DEF Good
  <1>7. Cardinality(all) \in Good
    BY <1>1, <1>6
  <1>8. all \in Small(Cardinality(all))
    BY <1>1
  <1>9. \A t \in Small(Cardinality(all)) : \A x \in t : g[t] = f[x] + g[t \ {x}]
    <2> HIDE DEF Small
    <2> QED BY <1>7 DEF Good
  <1> HIDE DEF Small
  <1> QED
    BY <1>8, <1>9

LEMMA SumOfSubset ==
  ASSUME NEW S, IsFiniteSet(S), NEW f, NEW g, AddsUp(f, g, S), NEW s \in SUBSET S
  PROVE  SumFunctionOnSet(f, s) = g[s]
  <1>1. IsFiniteSet(s)
    BY FS_Subset
  <1>2. PICK k : AddsUp(f, k, s) /\ SumFunctionOnSet(f, s) = k[s]
    BY <1>1, SumFolds
  <1> DEFINE Good == {t \in SUBSET s : k[t] = g[t]}
  <1>3. \A t \in SUBSET s :
          t # {} /\ t \ {CHOOSE x \in t : TRUE} \in Good => t \in Good
    <2> SUFFICES ASSUME NEW t \in SUBSET s, t # {}, t \ {CHOOSE x \in t : TRUE} \in Good
                 PROVE  k[t] = g[t]
      OBVIOUS
    <2> DEFINE c == CHOOSE x \in t : TRUE
    <2>1. AddsUp(f, k, s) /\ t \in SUBSET s /\ t \in SUBSET S /\ t # {}
      BY <1>2
    <2>2. k[t \ {c}] = g[t \ {c}]
      OBVIOUS
    <2> HIDE DEF Good
    <2>3. k[t] = f[c] + k[t \ {c}]
      BY <2>1, FoldStep
    <2>4. g[t] = f[c] + g[t \ {c}]
      BY <2>1, FoldStep
    <2> QED BY <2>2, <2>3, <2>4
  <1>4. {} \in Good
    BY <1>2, FoldStep
  <1>5. Good = SUBSET s
    <2> HIDE DEF Good
    <2>1. Good \in SUBSET SUBSET s
      BY DEF Good
    <2> QED BY <1>1, <1>3, <1>4, <2>1, SubsetInduction
  <1> QED
    BY <1>2, <1>5

LEMMA SumWithElement ==
  ASSUME NEW S, IsFiniteSet(S), NEW f, \A x \in S : f[x] \in Int, NEW c \in S
  PROVE  SumFunctionOnSet(f, S) = f[c] + SumFunctionOnSet(f, S \ {c})
  <1>1. PICK g : AddsUp(f, g, S) /\ SumFunctionOnSet(f, S) = g[S]
    BY SumFolds
  <1>2. g[S] = f[c] + g[S \ {c}]
    <2>1. AddsUp(f, g, S) /\ S \in SUBSET S
      BY <1>1
    <2> QED BY <2>1, FoldTakesAny
  <1>3. SumFunctionOnSet(f, S \ {c}) = g[S \ {c}]
    BY <1>1, SumOfSubset
  <1> QED
    BY <1>1, <1>2, <1>3
=============================================================================
