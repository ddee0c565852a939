----------------------------- MODULE Arithmetic -----------------------------
(* Facts about numbers that the proofs of several components rest on.      *)
EXTENDS Integers, FiniteSetsExt, FiniteSetTheorems, TLAPS

LEMMA DivMod ==
  ASSUME NEW a \in Int, NEW b \in Nat \ {0}
  PROVE  /\ a \div b \in Int
         /\ a % b \in 0 .. b - 1
         /\ a = b * (a \div b) + (a % b)
  OBVIOUS

LEMMA MulLess ==
  ASSUME NEW a \in Int, NEW b \in Int, NEW k \in Nat \ {0}, a * k < b * k + k
  PROVE  a <= b
  OBVIOUS

LEMMA MulMod ==
  ASSUME NEW a \in Nat, NEW k \in Nat \ {0}
  PROVE  (a * k) % k = 0
  OBVIOUS

(* The remainder is the one number below the divisor that fits.            *)
LEMMA ModUnique ==
  ASSUME NEW q \in Int, NEW n \in Nat \ {0}, NEW r \in 0 .. n - 1
  PROVE  (n * q + r) % n = r
<1> DEFINE a == n * q + r
           p == a \div n
           t == a % n
<1>1. a \in Int
  OBVIOUS
<1>2. p \in Int /\ t \in 0 .. n - 1 /\ a = n * p + t
  BY <1>1, DivMod
<1> HIDE DEF p, t
<1>3. p * n < q * n + n /\ q * n < p * n + n
  BY <1>2
<1>4. p = q
  BY <1>2, <1>3, MulLess
<1>5. t = r
  BY <1>2, <1>4
<1> QED BY <1>5 DEF t

(* Counting on from a remainder goes around to every other one.            *)
LEMMA ModReaches ==
  ASSUME NEW h \in Nat, NEW n \in Nat \ {0}, NEW s \in 0 .. n - 1
  PROVE  \E d \in 0 .. n - 1 : (h + d) % n = s
<1> DEFINE q == h \div n
           r == h % n
<1>1. q \in Int /\ r \in 0 .. n - 1 /\ h = n * q + r
  BY DivMod
<1> HIDE DEF q, r
<1>2. CASE r <= s
  <2>1. h + (s - r) = n * q + s /\ s - r \in 0 .. n - 1
    BY <1>1, <1>2
  <2> QED BY <1>1, <2>1, ModUnique
<1>3. CASE s < r
  <2>1. h + (n + s - r) = n * (q + 1) + s /\ n + s - r \in 0 .. n - 1
    BY <1>1, <1>3
  <2>2. q + 1 \in Int
    BY <1>1
  <2> QED BY <2>1, <2>2, ModUnique
<1> QED BY <1>1, <1>2, <1>3

(* The remainder after the next number is the next one, going around.      *)
LEMMA ModNext ==
  ASSUME NEW a \in Nat, NEW n \in Nat \ {0}
  PROVE  (a + 1) % n = ((a % n) + 1) % n
<1> DEFINE q == a \div n
           r == a % n
<1>1. q \in Int /\ r \in 0 .. n - 1 /\ a = n * q + r
  BY DivMod
<1> HIDE DEF q, r
<1>2. CASE r + 1 = n
  <2>1. a + 1 = n * (q + 1) + 0 /\ r + 1 = n * 1 + 0 /\ q + 1 \in Int /\ 0 \in 0 .. n - 1
    BY <1>1, <1>2
  <2>2. (n * (q + 1) + 0) % n = 0 /\ (n * 1 + 0) % n = 0
    BY <2>1, ModUnique
  <2> QED BY <2>1, <2>2 DEF r
<1>3. CASE r + 1 # n
  <2>1. a + 1 = n * q + (r + 1) /\ r + 1 = n * 0 + (r + 1) /\ r + 1 \in 0 .. n - 1
    BY <1>1, <1>3
  <2>2. (n * q + (r + 1)) % n = r + 1 /\ (n * 0 + (r + 1)) % n = r + 1
    BY <1>1, <2>1, ModUnique
  <2> QED BY <2>1, <2>2 DEF r
<1> QED BY <1>2, <1>3

(* Every set of natural numbers that is not empty has a least one.         *)
LEMMA LeastNat ==
  ASSUME NEW T \in SUBSET Nat, T # {}
  PROVE  \E x \in T : \A y \in T : x <= y
<1> DEFINE Below(x) == 0 .. x - 1
           R == StrictSubsetOrdering(Nat)
           U == {Below(x) : x \in T}
<1>1. U \subseteq FiniteSubsetsOf(Nat)
  <2>1. ASSUME NEW x \in T PROVE Below(x) \in SUBSET Nat /\ IsFiniteSet(Below(x))
    BY FS_Interval
  <2> QED BY <2>1 DEF FiniteSubsetsOf
<1>2. PICK u \in U : \A v \in U : <<v, u>> \notin R
  <2>1. IsWellFoundedOn(R, FiniteSubsetsOf(Nat)) /\ U # {}
    BY FS_StrictSubsetOrderingWellFounded
  <2> HIDE DEF R, U
  <2> QED BY <1>1, <2>1, WFMin
<1>3. PICK x \in T : u = Below(x)
  BY <1>2
<1>4. ASSUME NEW y \in T, y < x PROVE FALSE
  <2>1. Below(y) \subseteq Below(x) /\ Below(y) # Below(x)
    BY <1>4
  <2>2. Below(y) \in SUBSET Nat /\ Below(x) \in SUBSET Nat
    OBVIOUS
  <2>3. <<Below(y), Below(x)>> \in R
    BY <2>1, <2>2 DEF StrictSubsetOrdering
  <2> QED BY <1>2, <1>3, <2>3
<1> QED BY <1>4

(* Induction from n down to 1: a set with p in it whenever all larger      *)
(* numbers are has every number.                                           *)
LEMMA Descending ==
  ASSUME NEW n \in Nat, NEW T,
         \A p \in 1 .. n : (\A q \in p + 1 .. n : q \in T) => p \in T
  PROVE  \A p \in 1 .. n : p \in T
<1> DEFINE Missing == {m \in 0 .. n - 1 : n - m \notin T}
<1> SUFFICES ASSUME NEW p \in 1 .. n, p \notin T PROVE FALSE
  OBVIOUS
<1>1. n - p \in Missing
  <2>1. n - p \in 0 .. n - 1 /\ n - (n - p) = p
    OBVIOUS
  <2> QED BY <2>1
<1>2. PICK m \in Missing : \A y \in Missing : m <= y
  <2>1. Missing \in SUBSET Nat
    OBVIOUS
  <2> HIDE DEF Missing
  <2> QED BY <1>1, <2>1, LeastNat
<1>3. m \in 0 .. n - 1 /\ n - m \notin T /\ n - m \in 1 .. n
  BY <1>2
<1>4. PICK q \in n - m + 1 .. n : q \notin T
  BY <1>3
<1>5. n - q \in 0 .. n - 1 /\ n - (n - q) = q /\ n - q < m
  BY <1>3, <1>4
<1>6. n - q \in Missing
  BY <1>4, <1>5
<1> QED BY <1>2, <1>5, <1>6

(* Min chooses it.                                                         *)
LEMMA MinOfNats ==
  ASSUME NEW T \in SUBSET Nat, T # {}
  PROVE  Min(T) \in T /\ \A y \in T : Min(T) <= y
BY LeastNat DEF Min

(* Max of numbers with a bound.                                            *)
LEMMA MaxOfNats ==
  ASSUME NEW b \in Nat, NEW T \in SUBSET (0 .. b), T # {}
  PROVE  Max(T) \in T /\ \A y \in T : y <= Max(T)
<1> DEFINE D == {b - x : x \in T}
<1>1. D \in SUBSET Nat /\ D # {}
  <2>1. \A x \in T : x \in 0 .. b /\ b - x \in Nat
    OBVIOUS
  <2> QED BY <2>1
<1>2. PICK d \in D : \A y \in D : d <= y
  <2> HIDE DEF D
  <2> QED BY <1>1, LeastNat
<1>3. PICK x \in T : d = b - x
  BY <1>2
<1>4. \A y \in T : y <= x
  <2> TAKE y \in T
  <2>1. b - x <= b - y
    BY <1>2, <1>3
  <2>2. x \in 0 .. b /\ y \in 0 .. b
    OBVIOUS
  <2> QED BY <2>1, <2>2
<1>5. \A y \in T : x >= y
  <2> TAKE y \in T
  <2>1. x \in 0 .. b /\ y \in 0 .. b /\ y <= x
    BY <1>4
  <2> QED BY <2>1
<1>6. Max(T) \in T /\ \A y \in T : Max(T) >= y
  BY <1>5 DEF Max
<1>7. ASSUME NEW y \in T PROVE y <= Max(T)
  <2>1. Max(T) \in 0 .. b /\ y \in 0 .. b /\ Max(T) >= y
    BY <1>6
  <2> QED BY <2>1
<1> QED BY <1>6, <1>7

=============================================================================
