---------------------------- MODULE NaturalLemmas ----------------------------
(***************************************************************************)
(* Facts about numbers that the proofs of several components need.         *)
(***************************************************************************)
EXTENDS PowersOfTwo, Integers, FiniteSetsExt, NaturalsInduction, WellFoundedInduction, TLAPS

\* A non-empty set of naturals has a least element.
LEMMA LeastNatural ==
    ASSUME NEW S \in SUBSET Nat, S # {}
    PROVE  \E m \in S : \A y \in S : m <= y
<1> DEFINE R == {ss \in Nat \X Nat : ss[1] < ss[2]}
<1>1. IsWellFoundedOn(R, Nat)
  BY NatLessThanWellFounded, Zenon DEF OpToRel
<1>2. PICK m \in S : \A y \in S : ~(<<y, m>> \in R)
  <2> HIDE DEF R
  <2> QED
    BY <1>1, WFMin, Zenon
<1>3. \A y \in S : m <= y
  <2> SUFFICES ASSUME NEW y \in S, y < m PROVE FALSE
    OBVIOUS
  <2>1. <<y, m>> \in R
    OBVIOUS
  <2> QED
    BY <1>2, <2>1
<1> QED
  BY <1>3

\* A non-empty set of naturals with a bound has a greatest element, and Max is
\* that element.
LEMMA MaxOfBounded ==
    ASSUME NEW n \in Nat, NEW S \in SUBSET (0..n), S # {}
    PROVE  /\ Max(S) \in S
           /\ \A y \in S : y <= Max(S)
<1> DEFINE T == {d \in 0..n : n - d \in S}
<1>1. T \in SUBSET Nat /\ T # {}
  <2>1. PICK x \in S : TRUE
    OBVIOUS
  <2>2. n - x \in T
    BY <2>1
  <2>3. T \subseteq Nat
    OBVIOUS
  <2> HIDE DEF T
  <2> QED
    BY <2>2, <2>3
<1>2. PICK m \in T : \A y \in T : m <= y
  <2> HIDE DEF T
  <2> QED
    BY <1>1, LeastNatural
<1>3. PICK x \in S : m = n - x
    BY <1>2
<1>4. \A y \in S : x >= y
    BY <1>2, <1>3
<1>5. \E z \in S : \A y \in S : z >= y
    BY <1>4
<1> HIDE DEF T
<1>6. Max(S) \in S /\ \A y \in S : Max(S) >= y
    BY <1>5, Zenon DEF Max
<1> QED
    BY <1>6

\* Max and Min of two numbers.
LEMMA MaxMinOfTwo ==
    ASSUME NEW a \in Int, NEW b \in Int
    PROVE  /\ Max({a, b}) = IF a >= b THEN a ELSE b
           /\ Min({a, b}) = IF a <= b THEN a ELSE b
<1>1. /\ \E x \in {a, b} : \A y \in {a, b} : x >= y
      /\ \E x \in {a, b} : \A y \in {a, b} : x =< y
  <2>1. a >= b \/ b >= a
    OBVIOUS
  <2> QED
    BY <2>1
<1>2. /\ Max({a, b}) \in {a, b} /\ \A y \in {a, b} : Max({a, b}) >= y
      /\ Min({a, b}) \in {a, b} /\ \A y \in {a, b} : Min({a, b}) =< y
  BY <1>1, Zenon DEF Max, Min
<1> QED
  BY <1>2

-----------------------------------------------------------------------------
(* Powers of two *)

\* The first n powers.
Powers(g, n) == g \in [0..n -> Nat] /\ g[0] = 1 /\ \A i \in 1..n : g[i] = 2 * g[i - 1]

LEMMA PowersExist ==
    ASSUME NEW n \in Nat
    PROVE  \E g : Powers(g, n)
<1> DEFINE Bad == {k \in Nat : ~\E g : Powers(g, k)}
<1> SUFFICES ASSUME Bad # {} PROVE FALSE
  OBVIOUS
<1>1. PICK k \in Bad : \A y \in Bad : k <= y
  BY LeastNatural
<1>2. k # 0
  <2>1. Powers([i \in 0..0 |-> 1], 0)
    BY DEF Powers
  <2> QED
    BY <2>1
<1>3. k - 1 \in Nat /\ k - 1 \notin Bad
  BY <1>1, <1>2
<1>4. PICK g : Powers(g, k - 1)
  BY <1>3
<1> DEFINE h == [i \in 0..k |-> IF i = k THEN 2 * g[k - 1] ELSE g[i]]
<1>5. Powers(h, k)
  <2>1. /\ g \in [0..k - 1 -> Nat] /\ g[0] = 1 /\ \A i \in 1..k - 1 : g[i] = 2 * g[i - 1]
    BY <1>4 DEF Powers
  <2>2. h \in [0..k -> Nat] /\ h[0] = 1
    BY <1>2, <2>1
  <2>3. ASSUME NEW i \in 1..k PROVE h[i] = 2 * h[i - 1]
    BY <1>2, <2>1
  <2> QED
    BY <2>2, <2>3 DEF Powers
<1> QED
  BY <1>5

LEMMA PowersAgree ==
    ASSUME NEW n \in Nat, NEW m \in Nat, NEW g, NEW h, Powers(g, n), Powers(h, m),
           NEW i \in Nat, i <= n, i <= m
    PROVE  g[i] = h[i]
<1> DEFINE Bad == {k \in Nat : k <= n /\ k <= m /\ g[k] # h[k]}
<1> SUFFICES ASSUME Bad # {} PROVE FALSE
  OBVIOUS
<1>1. PICK k \in Bad : \A y \in Bad : k <= y
  BY LeastNatural
<1>2. k # 0
  BY <1>1 DEF Powers
<1>3. k - 1 \in Nat /\ k - 1 \notin Bad
  BY <1>1, <1>2
<1>4. g[k - 1] = h[k - 1]
  BY <1>1, <1>3
<1>5. g[k] = 2 * g[k - 1] /\ h[k] = 2 * h[k - 1]
  BY <1>1, <1>2 DEF Powers
<1> QED
  BY <1>1, <1>4, <1>5

LEMMA Pow2Def ==
    /\ Pow2 \in [Nat -> Nat]
    /\ Pow2[0] = 1
    /\ \A n \in Nat : Pow2[n + 1] = 2 * Pow2[n]
<1> DEFINE G(n) == CHOOSE g : Powers(g, n)
           f    == [n \in Nat |-> G(n)[n]]
<1>1. \A n \in Nat : Powers(G(n), n)
  BY PowersExist
<1> HIDE DEF G
<1>2. \A n \in Nat : f[n] \in Nat
  BY <1>1 DEF Powers
<1>3. f[0] = 1
  BY <1>1 DEF Powers
<1>4. ASSUME NEW n \in Nat, n # 0 PROVE f[n] = 2 * f[n - 1]
  <2>1. G(n)[n] = 2 * G(n)[n - 1]
    BY <1>1, <1>4 DEF Powers
  <2>2. n - 1 \in Nat /\ n - 1 <= n
    BY <1>4
  <2>3. G(n)[n - 1] = G(n - 1)[n - 1]
    BY <1>1, <2>2, PowersAgree
  <2> QED
    BY <2>1, <2>2, <2>3
<1>5. f = [n \in Nat |-> IF n = 0 THEN 1 ELSE 2 * f[n - 1]]
  BY <1>3, <1>4
<1> HIDE DEF f
<1>6. \E F : F = [n \in Nat |-> IF n = 0 THEN 1 ELSE 2 * F[n - 1]]
  BY <1>5
<1>7. Pow2 = [n \in Nat |-> IF n = 0 THEN 1 ELSE 2 * Pow2[n - 1]]
  BY <1>6, Zenon DEF Pow2
<1>8. Pow2[0] = 1 /\ \A n \in Nat : n # 0 => Pow2[n] = 2 * Pow2[n - 1]
  BY <1>7
<1>9. \A n \in Nat : Pow2[n + 1] = 2 * Pow2[n]
  <2> TAKE n \in Nat
  <2>1. n + 1 \in Nat /\ n + 1 # 0 /\ n + 1 - 1 = n
    OBVIOUS
  <2> QED
    BY <1>8, <2>1
<1> DEFINE Bad == {k \in Nat : Pow2[k] \notin Nat}
<1>10. Bad = {}
  <2> SUFFICES ASSUME Bad # {} PROVE FALSE
    OBVIOUS
  <2>1. PICK k \in Bad : \A y \in Bad : k <= y
    BY LeastNatural
  <2>2. k # 0
    BY <1>8, <2>1
  <2>3. k - 1 \in Nat /\ Pow2[k - 1] \in Nat
    BY <2>1, <2>2
  <2> QED
    BY <1>8, <2>1, <2>2, <2>3
<1> QED
  BY <1>7, <1>8, <1>9, <1>10

\* The laws of powers that are needed.
LEMMA Pow2Positive ==
    ASSUME NEW n \in Nat
    PROVE  Pow2[n] \in Nat /\ Pow2[n] > 0
<1> DEFINE Bad == {k \in Nat : ~(Pow2[k] > 0)}
<1>1. Bad = {}
  <2> SUFFICES ASSUME Bad # {} PROVE FALSE
    OBVIOUS
  <2>1. PICK k \in Bad : \A y \in Bad : k <= y
    BY LeastNatural
  <2>2. k # 0
    BY Pow2Def, <2>1
  <2>3. k - 1 \in Nat /\ k - 1 + 1 = k /\ Pow2[k - 1] > 0
    BY <2>1, <2>2
  <2> QED
    BY Pow2Def, <2>1, <2>3
<1> QED
  BY <1>1, Pow2Def

LEMMA Pow2Sum ==
    ASSUME NEW a \in Nat, NEW b \in Nat
    PROVE  Pow2[a + b] = Pow2[a] * Pow2[b]
<1> DEFINE Bad == {k \in Nat : Pow2[a + k] # Pow2[a] * Pow2[k]}
<1>1. Bad = {}
  <2> SUFFICES ASSUME Bad # {} PROVE FALSE
    OBVIOUS
  <2>1. PICK k \in Bad : \A y \in Bad : k <= y
    BY LeastNatural
  <2>2. k # 0
    BY Pow2Def, <2>1
  <2>3. PICK j \in Nat : k = j + 1 /\ Pow2[a + j] = Pow2[a] * Pow2[j]
    <3>1. k - 1 \in Nat /\ k - 1 \notin Bad /\ k = k - 1 + 1
      BY <2>1, <2>2
    <3> QED
      BY <3>1
  <2>4. Pow2[j + 1] = 2 * Pow2[j] /\ Pow2[a + j + 1] = 2 * Pow2[a + j]
    BY Pow2Def
  <2>5. a + k = a + j + 1
    BY <2>3
  <2>6. Pow2[a] \in Nat /\ Pow2[j] \in Nat
    BY Pow2Def
  <2>7. Pow2[a + k] = Pow2[a] * Pow2[k]
    BY <2>3, <2>4, <2>5, <2>6
  <2> QED
    BY <2>1, <2>7
<1> QED
  BY <1>1

LEMMA Pow2Mono ==
    ASSUME NEW a \in Nat, NEW b \in Nat, a <= b
    PROVE  Pow2[a] <= Pow2[b]
<1>1. PICK d \in Nat : b = a + d
  <2>1. b - a \in Nat /\ b = a + (b - a)
    OBVIOUS
  <2> QED
    BY <2>1
<1>2. Pow2[b] = Pow2[a] * Pow2[d]
  BY <1>1, Pow2Sum
<1>3. Pow2[a] \in Nat /\ Pow2[d] \in Nat /\ Pow2[d] > 0
  BY Pow2Positive
<1> QED
  BY <1>2, <1>3

\* Every number lies below a power.
LEMMA Pow2Grows ==
    ASSUME NEW x \in Nat
    PROVE  x < Pow2[x]
<1> DEFINE Bad == {k \in Nat : ~(k < Pow2[k])}
<1>1. Bad = {}
  <2> SUFFICES ASSUME Bad # {} PROVE FALSE
    OBVIOUS
  <2>1. PICK k \in Bad : \A y \in Bad : k <= y
    BY LeastNatural
  <2>2. k # 0
    BY Pow2Def, <2>1
  <2>3. k - 1 \in Nat /\ k - 1 + 1 = k /\ k - 1 < Pow2[k - 1]
    BY <2>1, <2>2
  <2> QED
    BY Pow2Def, <2>1, <2>3
<1> QED
  BY <1>1

-----------------------------------------------------------------------------
(* Division *)

LEMMA TimesMono ==
    ASSUME NEW a \in Nat, NEW b \in Nat, NEW c \in Nat, a <= b
    PROVE  a * c <= b * c /\ c * a <= c * b /\ a * c \in Nat
  OBVIOUS

LEMMA DivFacts ==
    ASSUME NEW x \in Nat, NEW y \in Nat, y > 0
    PROVE  /\ x \div y \in Nat
           /\ (x \div y) * y <= x
           /\ x < (x \div y + 1) * y
           /\ x = (x \div y) * y + (x % y)
           /\ x % y \in 0..y - 1
  OBVIOUS

\* The quotient is the greatest number of y in x.
LEMMA DivIsGreatest ==
    ASSUME NEW x \in Nat, NEW y \in Nat, y > 0, NEW k \in Nat
    PROVE  /\ k * y <= x => k <= x \div y
           /\ x < k * y => x \div y < k
<1>1. PICK q \in Nat : q = x \div y /\ q * y <= x /\ x < (q + 1) * y
  BY DivFacts
<1>2. ASSUME k * y <= x PROVE k <= q
  <2> SUFFICES ASSUME q + 1 <= k PROVE FALSE
    BY <1>1
  <2>1. (q + 1) * y <= k * y
    BY TimesMono
  <2> QED
    BY <1>1, <1>2, <2>1
<1>3. ASSUME x < k * y PROVE q < k
  <2> SUFFICES ASSUME k <= q PROVE FALSE
    BY <1>1
  <2>1. k * y <= q * y
    BY <1>1, TimesMono
  <2> QED
    BY <1>1, <1>3, <2>1
<1> QED
  BY <1>1, <1>2, <1>3

LEMMA DivIs ==
    ASSUME NEW x \in Nat, NEW y \in Nat, y > 0, NEW k \in Nat, k * y <= x, x < (k + 1) * y
    PROVE  x \div y = k
<1>1. x \div y \in Nat /\ k <= x \div y /\ x \div y < k + 1
  BY DivFacts, DivIsGreatest
<1> QED
  BY <1>1

\* A multiple divided.
LEMMA DivExact ==
    ASSUME NEW k \in Nat, NEW y \in Nat, y > 0
    PROVE  (k * y) \div y = k
<1>1. k * y \in Nat /\ k * y < (k + 1) * y
  OBVIOUS
<1> QED
  BY <1>1, DivIs

LEMMA DivMono ==
    ASSUME NEW x \in Nat, NEW z \in Nat, x <= z, NEW y \in Nat, y > 0
    PROVE  x \div y <= z \div y
<1>1. x \div y \in Nat /\ (x \div y) * y <= x
  BY DivFacts
<1>2. (x \div y) * y <= z
  BY <1>1
<1> QED
  BY <1>1, <1>2, DivIsGreatest

\* Two divisions are one.
LEMMA DivDiv ==
    ASSUME NEW x \in Nat, NEW a \in Nat, a > 0, NEW b \in Nat, b > 0
    PROVE  (x \div a) \div b = x \div (b * a)
<1>1. PICK q \in Nat : q = x \div a /\ q * a <= x /\ x < (q + 1) * a
  BY DivFacts
<1>2. PICK r \in Nat : r = q \div b /\ r * b <= q /\ q < (r + 1) * b
  BY DivFacts
<1>3. r * (b * a) <= x
  <2>1. (r * b) * a <= q * a
    BY <1>2, TimesMono
  <2> QED
    BY <1>1, <2>1
<1>4. x < (r + 1) * (b * a)
  <2>1. q + 1 <= (r + 1) * b /\ (r + 1) * b \in Nat
    BY <1>2
  <2>2. (q + 1) * a <= ((r + 1) * b) * a
    BY <2>1, TimesMono
  <2>3. ((r + 1) * b) * a = (r + 1) * (b * a)
    OBVIOUS
  <2> QED
    BY <1>1, <2>2, <2>3
<1>5. b * a \in Nat /\ b * a > 0
  OBVIOUS
<1>6. x \div (b * a) = r
  BY <1>3, <1>4, <1>5, DivIs
<1> QED
  BY <1>1, <1>2, <1>6

\* A number below the modulus is its own remainder.
LEMMA ModSmall ==
    ASSUME NEW x \in Nat, NEW y \in Nat, x < y
    PROVE  x % y = x
  OBVIOUS
=============================================================================
