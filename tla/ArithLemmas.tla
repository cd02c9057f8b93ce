---------------------------- MODULE ArithLemmas ----------------------------
(***************************************************************************)
(* Facts about integers that the proofs of several components share: least *)
(* elements, and arithmetic modulo a parameter (the counters of the kernel *)
(* are uint32_t, here uintN for an arbitrary N).                           *)
(***************************************************************************)
EXTENDS Integers, FiniteSetsExt, TLAPS, FiniteSetTheorems, WellFoundedInduction

\* A non-empty set of naturals has a least element, and Min returns it.
LEMMA MinIsLeast ==
  ASSUME NEW S \in SUBSET Nat, S # {}
  PROVE  Min(S) \in S /\ \A y \in S : Min(S) <= y
<1> DEFINE R == OpToRel(<, Nat)
<1>1. IsWellFoundedOn(R, Nat)
  BY NatLessThanWellFounded
<1>2. PICK x \in S : \A y \in S : ~ (<<y, x>> \in R)
  <2> HIDE DEF R
  <2> QED BY <1>1, WFMin
<1>3. \A y \in S : ~ (y < x)
  BY <1>2 DEF OpToRel
<1>4. \A y \in S : x <= y
  BY <1>3
<1> QED BY <1>4 DEF Min

\* Induction up to a bound, on the set of the numbers for which it is shown.
LEMMA UpTo ==
  ASSUME NEW n \in Nat, NEW P, 0 \in P,
         \A k \in 0 .. n : k < n /\ k \in P => k + 1 \in P
  PROVE  \A k \in 0 .. n : k \in P
<1> DEFINE S == {k \in 0 .. n : k \notin P}
<1>1. ASSUME S # {} PROVE FALSE
  <2>1. S \in SUBSET Nat
    OBVIOUS
  <2>2. PICK m \in S : \A i \in S : m <= i
    BY <1>1, <2>1, MinIsLeast
  <2>3. m \in 0 .. n /\ m \notin P /\ m # 0
    BY <2>2
  <2>4. PICK i \in 0 .. n : i + 1 = m /\ i < n
    <3>1. m - 1 \in 0 .. n /\ (m - 1) + 1 = m /\ m - 1 < n
      BY <2>3
    <3> QED BY <3>1
  <2>5. i \notin S
    BY <2>2, <2>4
  <2> QED BY <2>3, <2>4, <2>5
<1> QED BY <1>1

\* Quotient and remainder.
LEMMA Division ==
  ASSUME NEW a \in Int, NEW m \in Nat \ {0}
  PROVE  /\ a \div m \in Int
         /\ a % m \in 0 .. m - 1
         /\ a = m * (a \div m) + (a % m)
  BY SMTT(30)

\* They are the only ones.
LEMMA DivisionUnique ==
  ASSUME NEW m \in Nat \ {0}, NEW q \in Int, NEW r \in 0 .. m - 1,
         NEW p \in Int, NEW s \in 0 .. m - 1,
         m * q + r = m * p + s
  PROVE  r = s
<1>1. m * (q - p) = s - r
  BY SMTT(30)
<1>2. CASE q - p >= 1
  <2>1. m * (q - p) >= m
    BY <1>2, SMTT(30)
  <2> QED BY <2>1, <1>1
<1>3. CASE q - p <= -1
  <2>1. m * (q - p) <= -m
    BY <1>3, SMTT(30)
  <2> QED BY <2>1, <1>1
<1>4. CASE q = p
  BY <1>1, <1>4
<1> QED BY <1>2, <1>3, <1>4

\* Reducing the first term of a difference does not change its remainder.
LEMMA ModDifference ==
  ASSUME NEW a \in Int, NEW c \in Int, NEW m \in Nat \ {0}
  PROVE  ((a % m) - c) % m = (a - c) % m
<1> DEFINE q == a \div m
           d == ((a % m) - c) \div m
           e == (a - c) \div m
           r == ((a % m) - c) % m
           s == (a - c) % m
<1>1. q \in Int /\ a % m \in Int /\ a = m * q + (a % m)
  BY Division
<1>2. d \in Int /\ r \in 0 .. m - 1 /\ (a % m) - c = m * d + r
  BY <1>1, Division
<1>3. e \in Int /\ s \in 0 .. m - 1 /\ a - c = m * e + s
  BY Division
<1>4. m * (q + d) + r = m * e + s
  <2> HIDE DEF q, d, e, r, s
  <2>1. m * (q + d) = m * q + m * d
    BY <1>1, <1>2, SMTT(30)
  <2> QED BY <2>1, <1>1, <1>2, <1>3
<1>5. q + d \in Int
  BY <1>1, <1>2
<1> HIDE DEF q, d, e, r, s
<1>6. r = s
  BY <1>2, <1>3, <1>4, <1>5, DivisionUnique
<1> QED BY <1>6 DEF r, s

\* A number below the modulus is its own remainder.
LEMMA ModSmall ==
  ASSUME NEW m \in Nat \ {0}, NEW a \in 0 .. m - 1
  PROVE  a % m = a
<1> DEFINE q == a \div m
           r == a % m
<1>0. a \in Int
  OBVIOUS
<1>1. q \in Int /\ r \in 0 .. m - 1 /\ a = m * q + r
  BY <1>0, Division
<1> HIDE DEF q, r
<1>2. m * q + r = m * 0 + a /\ 0 \in Int
  BY <1>1
<1>3. r = a
  BY <1>1, <1>2, DivisionUnique
<1> QED BY <1>3 DEF r

\* A multiple has no remainder.
LEMMA ModMultiple ==
  ASSUME NEW m \in Nat \ {0}, NEW k \in Int
  PROVE  m * k \in Int /\ (m * k) % m = 0 /\ (m * k) \div m = k
<1> DEFINE a == m * k
<1>1. a \in Int
  BY SMTT(30)
<1> DEFINE q == a \div m
           r == a % m
<1> HIDE DEF a
<1>2. q \in Int /\ r \in 0 .. m - 1 /\ a = m * q + r
  BY <1>1, Division
<1> HIDE DEF q, r
<1>3. m * q + r = m * k + 0 /\ 0 \in 0 .. m - 1
  BY <1>1, <1>2 DEF a
<1>4. r = 0
  BY <1>2, <1>3, DivisionUnique
<1>5. m * (q - k) = 0
  BY <1>2, <1>3, <1>4, SMTT(30)
<1>6. q - k = 0
  <2>1. CASE q - k >= 1
    <3>1. m * (q - k) >= m
      BY <1>2, <2>1, SMTT(30)
    <3> QED BY <1>5, <3>1
  <2>2. CASE q - k <= -1
    <3>1. m * (q - k) <= -m
      BY <1>2, <2>2, SMTT(30)
    <3> QED BY <1>5, <3>1
  <2> QED BY <1>2, <2>1, <2>2
<1>7. q = k
  BY <1>2, <1>6
<1> QED BY <1>1, <1>4, <1>7 DEF a, q, r

\* Adding a multiple does not change the remainder.
LEMMA ModShift ==
  ASSUME NEW m \in Nat \ {0}, NEW y \in Int, NEW k \in Int
  PROVE  m * k \in Int /\ (y + m * k) % m = y % m
<1>1. m * k \in Int
  BY SMTT(30)
<1> DEFINE z == y + m * k
           p == y \div m
           r == y % m
           e == z \div m
           s == z % m
<1>2. z \in Int
  BY <1>1
<1>3. p \in Int /\ r \in 0 .. m - 1 /\ y = m * p + r
  BY Division
<1> HIDE DEF z
<1>4. e \in Int /\ s \in 0 .. m - 1 /\ z = m * e + s
  BY <1>2, Division
<1> HIDE DEF p, r, e, s
<1>5. m * (p + k) + r = m * e + s
  BY <1>1, <1>3, <1>4, SMTT(30) DEF z
<1>6. r = s
  BY <1>3, <1>4, <1>5, DivisionUnique
<1> QED BY <1>1, <1>6 DEF r, s, z

\* Nor does reducing the second term of a difference.
LEMMA ModSubtract ==
  ASSUME NEW m \in Nat \ {0}, NEW x \in Int, NEW a \in Int
  PROVE  (x - (a % m)) % m = (x - a) % m
<1> DEFINE q == a \div m
           r == a % m
<1>1. q \in Int /\ r \in 0 .. m - 1 /\ a = m * q + r
  BY Division
<1> HIDE DEF q, r
<1>2. x - a \in Int /\ x - r = (x - a) + m * q
  BY <1>1
<1> DEFINE y == x - a
<1> HIDE DEF y
<1>3. (y + m * q) % m = y % m
  BY <1>1, <1>2, ModShift DEF y
<1>4. (x - r) % m = (x - a) % m
  BY <1>2, <1>3 DEF y
<1> QED BY <1>4 DEF r

\* Products grow with their factors.
LEMMA ProductGrows ==
  ASSUME NEW a \in Nat, NEW b \in Nat, NEW c \in Nat, a <= b
  PROVE  c * a \in Nat /\ c * a <= c * b /\ a * c <= b * c
<1> PICK d \in Nat : d = b - a /\ b = a + d
  OBVIOUS
<1>1. c * a \in Nat /\ c * d \in Nat
  BY SMTT(30)
<1>2. c * (a + d) = c * a + c * d /\ a * c = c * a /\ (a + d) * c = c * (a + d)
  BY SMTT(30)
<1> PICK x, y \in Nat : x = c * a /\ y = c * d
  BY <1>1
<1>3. x <= x + y
  OBVIOUS
<1> QED BY <1>1, <1>2, <1>3

\* A quotient is the only one with its remainder.
LEMMA QuotientIs ==
  ASSUME NEW m \in Nat \ {0}, NEW q \in Int, NEW r \in 0 .. m - 1, NEW a \in Int, a = m * q + r
  PROVE  a \div m = q
<1> PICK p \in Int, s \in 0 .. m - 1 : p = a \div m /\ a = m * p + s
  BY Division
<1>1. m * (p - q) = r - s
  BY SMTT(30)
<1>2. CASE p - q >= 1
  <2>1. m * (p - q) >= m
    BY <1>2, SMTT(30)
  <2> QED BY <1>1, <2>1
<1>3. CASE p - q <= -1
  <2>1. m * (p - q) <= -m
    BY <1>3, SMTT(30)
  <2> QED BY <1>1, <2>1
<1>4. CASE p = q
  BY <1>4
<1> QED BY <1>2, <1>3, <1>4

\* Dividing twice.
LEMMA DividedTwice ==
  ASSUME NEW a \in Nat, NEW b \in Nat \ {0}, NEW c \in Nat \ {0}
  PROVE  b * c \in Nat \ {0} /\ (a \div b) \div c = a \div (b * c)
<1>1. PICK q \in Int, r \in 0 .. b - 1 : q = a \div b /\ a = b * q + r
  BY Division
<1>2. PICK p \in Int, s \in 0 .. c - 1 : p = q \div c /\ q = c * p + s
  BY Division
<1>3. b * c \in Nat \ {0}
  BY SMTT(30)
<1>4. a = (b * c) * p + (b * s + r)
  <2>1. b * (c * p + s) = (b * c) * p + b * s
    BY SMTT(30)
  <2>2. b * s \in Int /\ (b * c) * p \in Int /\ b * q \in Int
    BY SMTT(30)
  <2>3. b * q = (b * c) * p + b * s
    BY <1>2, <2>1
  <2> PICK x, y, z \in Int : x = (b * c) * p /\ y = b * s /\ z = b * q
    BY <2>2
  <2> QED BY <1>1, <2>3
<1>5. b * s + r \in 0 .. b * c - 1
  <2>1. b * (c - 1) = b * c - b
    BY SMTT(30)
  <2>2. 0 <= b * s /\ b * s <= b * (c - 1) /\ b * s \in Int
    <3>1. s \in Nat /\ c - 1 \in Nat /\ s <= c - 1 /\ 0 <= s
      OBVIOUS
    <3>2. b * s \in Nat /\ b * s <= b * (c - 1)
      BY <3>1, ProductGrows
    <3> QED BY <3>2
  <2> PICK x, y \in Int : x = b * s /\ y = b * c
    BY <1>3, <2>2
  <2> QED BY <2>1, <2>2
<1> PICK m, w \in Int : m = b * c /\ w = b * s + r
  BY <1>3, <1>5
<1>6. a \div m = p
  <2>1. m \in Nat \ {0} /\ w \in 0 .. m - 1 /\ a = m * p + w
    BY <1>3, <1>4, <1>5
  <2> QED BY <2>1, QuotientIs
<1> QED BY <1>1, <1>2, <1>3, <1>6

\* The elements of a finite set of integers have the ranks 1, 2, ... each once.
Place(S, b) == Cardinality({c \in S : c <= b})

LEMMA PlacesGrow ==
  ASSUME NEW S \in SUBSET Int, IsFiniteSet(S), NEW a \in S, NEW b \in S, a < b
  PROVE  Place(S, a) \in Nat /\ Place(S, b) \in Nat /\ Place(S, a) < Place(S, b)
<1> DEFINE A == {c \in S : c <= a}
           B == {c \in S : c <= b}
<1>1. IsFiniteSet(B) /\ Cardinality(B) \in Nat
  BY FS_Subset, FS_CardinalityType
<1>2. A \in SUBSET B /\ b \in B /\ b \notin A
  <2>1. a \in Int /\ b \in Int /\ \A c \in S : c \in Int
    OBVIOUS
  <2>2. b <= b /\ ~(b <= a) /\ \A c \in S : c <= a => c <= b
    BY <2>1
  <2> QED BY <2>2
<1> HIDE DEF A, B
<1>3. IsFiniteSet(A) /\ Cardinality(A) \in Nat /\ Cardinality(A) <= Cardinality(B)
      /\ (Cardinality(B) = Cardinality(A) => B = A)
  BY <1>1, <1>2, FS_Subset, FS_CardinalityType
<1>4. Cardinality(A) < Cardinality(B)
  BY <1>1, <1>2, <1>3
<1> QED BY <1>1, <1>3, <1>4 DEF A, B, Place

LEMMA EveryPlaceTaken ==
  ASSUME NEW S \in SUBSET Int, IsFiniteSet(S), NEW i \in 1 .. Cardinality(S)
  PROVE  \E b \in S : Place(S, b) = i
<1> DEFINE n == Cardinality(S)
           f == [b \in S |-> Place(S, b)]
<1>1. n \in Nat
  BY FS_CardinalityType
<1>2. ASSUME NEW b \in S  PROVE Place(S, b) \in 1 .. n
  <2> DEFINE B == {c \in S : c <= b}
  <2>1. IsFiniteSet(B) /\ Cardinality(B) \in Nat /\ Cardinality(B) <= n
    BY FS_Subset, FS_CardinalityType
  <2>2. B # {}
    OBVIOUS
  <2>3. Cardinality(B) # 0
    BY <2>1, <2>2, FS_EmptySet
  <2> QED BY <1>1, <2>1, <2>3 DEF Place
<1>3. f \in [S -> 1 .. n]
  BY <1>2
<1>4. ASSUME NEW a \in S, NEW b \in S, f[a] = f[b]  PROVE a = b
  <2>1. CASE a < b
    BY <2>1, <1>4, PlacesGrow
  <2>2. CASE b < a
    BY <2>2, <1>4, PlacesGrow
  <2> QED BY <2>1, <2>2
<1>5. f \in Injection(S, 1 .. n)
  BY <1>3, <1>4 DEF Injection, IsInjective
<1>6. IsFiniteSet(1 .. n) /\ Cardinality(1 .. n) = n
  BY <1>1, FS_Interval
<1>7. f \in Surjection(S, 1 .. n)
  BY <1>5, <1>6, FS_Injection
<1> QED BY <1>7 DEF Surjection

=============================================================================
