--------------------------- MODULE PirExpandProofs ---------------------------
(***************************************************************************)
(* The expansion of a query, for every degree that is a power of 2, every  *)
(* odd modulus and every number of plaintexts: each round halves the       *)
(* indices that a ciphertext may stand for, and what is returned selects   *)
(* the plaintext asked for and no other.                                   *)
(*                                                                         *)
(* The facts about numbers are proved by induction: a set of naturals that *)
(* holds 0 and with each number the next is all of them.                   *)
(***************************************************************************)
EXTENDS PirExpand, SequenceTheorems, WellFoundedInduction, TLAPS

-----------------------------------------------------------------------------
(* Induction, quotients and remainders.                                    *)

LEMMA Induction ==
    ASSUME NEW S, 0 \in S, \A n \in Nat : n \in S => n + 1 \in S
    PROVE  Nat \subseteq S
<1> DEFINE R == OpToRel(<, Nat)
           Missing == Nat \ S
<1>1. IsWellFoundedOn(R, Nat)
  BY NatLessThanWellFounded
<1>2. ASSUME NEW x \in Nat, NEW y \in Nat PROVE <<y, x>> \in R <=> y < x
  BY DEF OpToRel
<1> SUFFICES ASSUME Missing # {} PROVE FALSE
  OBVIOUS
<1>3. Missing \subseteq Nat
  OBVIOUS
<1>4. PICK x \in Missing : \A y \in Missing : ~ (<<y, x>> \in R)
  <2> HIDE DEF Missing, R
  <2> QED
    BY <1>1, <1>3, WFMin
<1>5. x \in Nat /\ x # 0 /\ x \notin S
  BY <1>4
<1>6. x - 1 \in Nat /\ x - 1 < x /\ x - 1 + 1 = x
  BY <1>5
<1>7. x - 1 \notin Missing
  <2> HIDE DEF R
  <2> QED
    BY <1>2, <1>4, <1>5, <1>6
<1>8. x - 1 \in S
  BY <1>6, <1>7
<1> QED
  BY <1>5, <1>6, <1>8

LEMMA DivMod ==
    ASSUME NEW b \in Nat \ {0}, NEW q \in Int, NEW r \in 0 .. b - 1
    PROVE  (q * b + r) % b = r /\ (q * b + r) \div b = q
OBVIOUS

LEMMA DivModParts ==
    ASSUME NEW b \in Nat \ {0}, NEW x \in Int
    PROVE  /\ x = (x \div b) * b + (x % b)
           /\ x % b \in 0 .. b - 1
           /\ x \div b \in Int
           /\ x \in Nat => x \div b \in Nat
OBVIOUS

LEMMA Remainder ==
    ASSUME NEW b \in Nat \ {0}, NEW x \in Int
    PROVE  \E q \in Int, r \in 0 .. b - 1 : x = q * b + r /\ x % b = r
<1>1. x \div b \in Int /\ x % b \in 0 .. b - 1 /\ x = (x \div b) * b + (x % b)
  OBVIOUS
<1> QED
  BY <1>1

-----------------------------------------------------------------------------
(* Powers of 2.                                                            *)

LEMMA Constants ==
    /\ Degree \in Nat /\ Degree > 1
    /\ T \in Nat /\ T > 2 /\ T % 2 = 1
    /\ Degree \in Nat \ {0} /\ T \in Nat \ {0}
    /\ Sizes \subseteq 2 .. Degree
BY ExpandAssumption

LEMMA PowerType == \A k \in 0 .. Degree + 1 : 2^k \in Nat /\ 2^k > 0
<1> DEFINE S == {k \in Nat : k <= Degree + 1 => 2^k \in Nat /\ 2^k > 0}
<1>1. 0 \in S
  BY PowersAssumption
<1>2. ASSUME NEW k \in Nat, k \in S PROVE k + 1 \in S
  BY <1>2, PowersAssumption, Constants
<1>3. Nat \subseteq S
  <2> HIDE DEF S
  <2> QED
    BY <1>1, <1>2, Induction
<1> QED
  BY <1>3, Constants

LEMMA PowerSum ==
    \A k, l \in Nat : k + l <= Degree + 1 => 2^(k + l) = 2^k * 2^l
<1> SUFFICES ASSUME NEW k \in Nat
             PROVE  \A l \in Nat : k + l <= Degree + 1 => 2^(k + l) = 2^k * 2^l
  OBVIOUS
<1> DEFINE S == {l \in Nat : k + l <= Degree + 1 => 2^(k + l) = 2^k * 2^l}
<1>1. 0 \in S
  <2>1. ASSUME k <= Degree + 1 PROVE 2^k = 2^k * 1
    BY <2>1, PowerType, Constants
  <2>2. k + 0 = k
    OBVIOUS
  <2> QED
    BY <2>1, <2>2, PowersAssumption
<1>2. ASSUME NEW l \in Nat, l \in S PROVE l + 1 \in S
  <2> SUFFICES ASSUME k + (l + 1) <= Degree + 1
               PROVE  2^(k + (l + 1)) = 2^k * 2^(l + 1)
    OBVIOUS
  <2>1. /\ k + l \in 0 .. Degree /\ l \in 0 .. Degree /\ k \in 0 .. Degree + 1
        /\ k + (l + 1) = (k + l) + 1
    BY Constants
  <2>2. 2^(k + l) = 2^k * 2^l
    BY <1>2, <2>1, Constants
  <2>3. 2^((k + l) + 1) = 2 * 2^(k + l) /\ 2^(l + 1) = 2 * 2^l
    BY <2>1, PowersAssumption
  <2>4. 2^k \in Nat /\ 2^l \in Nat
    BY <2>1, PowerType, Constants
  <2>5. 2 * (2^k * 2^l) = 2^k * (2 * 2^l)
    BY <2>4
  <2> QED
    BY <2>1, <2>2, <2>3, <2>5
<1>3. Nat \subseteq S
  <2> HIDE DEF S
  <2> QED
    BY <1>1, <1>2, Induction
<1> QED
  BY <1>3

LEMMA PowerLarge == \A k \in 0 .. Degree + 1 : k < 2^k
<1> DEFINE S == {k \in Nat : k <= Degree + 1 => k < 2^k}
<1>1. 0 \in S
  BY PowersAssumption
<1>2. ASSUME NEW k \in Nat, k \in S PROVE k + 1 \in S
  BY <1>2, PowersAssumption, PowerType, Constants
<1>3. Nat \subseteq S
  <2> HIDE DEF S
  <2> QED
    BY <1>1, <1>2, Induction
<1> QED
  BY <1>3, Constants

LEMMA PowerMonotone ==
    \A k, l \in 0 .. Degree + 1 : k <= l => 2^k <= 2^l
<1> SUFFICES ASSUME NEW k \in 0 .. Degree + 1, NEW l \in 0 .. Degree + 1, k <= l
             PROVE  2^k <= 2^l
  OBVIOUS
<1>1. k \in Nat /\ l - k \in Nat /\ k + (l - k) = l /\ l - k \in 0 .. Degree + 1
  BY Constants
<1>2. 2^(k + (l - k)) = 2^k * 2^(l - k)
  BY <1>1, PowerSum, Constants
<1>3. 2^k \in Nat /\ 2^(l - k) \in Nat /\ 2^(l - k) > 0
  BY <1>1, PowerType
<1>4. 2^k * 2^(l - k) >= 2^k
  BY <1>3
<1> QED
  BY <1>1, <1>2, <1>4

\* The number of rounds: m lies between two powers of 2.
LEMMA LogFacts ==
    ASSUME NEW x \in 2 .. Degree
    PROVE  /\ Log(x) \in 1 .. Degree
           /\ x <= 2^Log(x)
           /\ 2^(Log(x) - 1) < x
<1> DEFINE Big == {k \in Nat : k <= x /\ x <= 2^k}
           R == OpToRel(<, Nat)
<1>1. x \in Nat /\ x \in Big
  BY PowerLarge, PowerType, Constants
<1>2. \A k \in Nat, l \in Nat : <<l, k>> \in R <=> l < k
  BY DEF OpToRel
<1>3. PICK least \in Big : \A k \in Big : ~ (<<k, least>> \in R)
  <2>1. IsWellFoundedOn(R, Nat) /\ Big \subseteq Nat /\ Big # {}
    BY <1>1, NatLessThanWellFounded
  <2> HIDE DEF Big, R
  <2> QED
    BY <2>1, WFMin
<1>4. \A k \in Big : ~ (k < least)
  <2>1. Big \subseteq Nat
    OBVIOUS
  <2> HIDE DEF Big, R
  <2> QED
    BY <1>2, <1>3, <2>1
<1>a. least \in Nat /\ least <= x /\ x <= 2^least
  BY <1>3
<1> HIDE DEF R
<1>5. least \in 0 .. x /\ 2^least >= x /\ (least > 0 => 2^(least - 1) < x)
  <2>1. ASSUME least > 0 PROVE 2^(least - 1) < x
    <3>1. least - 1 \in Nat /\ least - 1 < least /\ least - 1 <= x
      BY <1>1, <1>a, <2>1
    <3>2. least - 1 \notin Big
      BY <1>4, <3>1
    <3>3. 2^(least - 1) \in Nat
      BY <1>1, <3>1, PowerType, Constants
    <3> QED
      BY <1>1, <3>1, <3>2, <3>3
  <2>2. 2^least \in Nat
    BY <1>1, <1>a, PowerType, Constants
  <2> QED
    BY <1>1, <1>a, <2>1, <2>2
<1>6. Log(x) \in 0 .. x /\ 2^Log(x) >= x /\ (Log(x) > 0 => 2^(Log(x) - 1) < x)
  BY <1>5 DEF Log
<1>7. Log(x) # 0
  <2>1. ~ (2^0 >= x)
    BY PowersAssumption
  <2> QED
    BY <1>6, <2>1
<1>8. Log(x) \in 1 .. Degree /\ 2^Log(x) \in Nat
  BY <1>1, <1>6, <1>7, PowerType, Constants
<1> QED
  BY <1>1, <1>6, <1>8

\* There are no more rounds than the degree has factors of 2.
LEMMA RoundBound ==
    ASSUME NEW D \in 1 .. Degree, Degree = 2^D, NEW x \in 2 .. Degree
    PROVE  Log(x) <= D
<1>1. Log(x) \in 1 .. Degree /\ 2^(Log(x) - 1) < x
  BY LogFacts
<1>2. Log(x) - 1 \in 0 .. Degree + 1 /\ D \in 0 .. Degree + 1
  BY <1>1, Constants
<1>3. 2^(Log(x) - 1) < 2^D
  BY <1>1, <1>2, PowerType, Constants
<1>4. ~ (D <= Log(x) - 1)
  BY <1>2, <1>3, PowerMonotone, PowerType
<1> QED
  BY <1>1, <1>2, <1>4

\* What the client divides by can be divided by: the modulus is odd.
LEMMA InverseFacts ==
    ASSUME NEW k \in 0 .. Degree + 1
    PROVE  /\ InvertMod(2^k) \in 1 .. T - 1
           /\ (2^k * InvertMod(2^k)) % T = 1
<1> DEFINE S == {n \in Nat : n <= Degree + 1 => \E y \in 1 .. T - 1 : (2^n * y) % T = 1}
<1>1. 0 \in S
  <2>1. 1 \in 1 .. T - 1 /\ (1 * 1) % T = 1
    BY Constants
  <2> QED
    BY <2>1, PowersAssumption
<1>2. ASSUME NEW n \in Nat, n \in S PROVE n + 1 \in S
  <2> SUFFICES ASSUME n + 1 <= Degree + 1
               PROVE  \E y \in 1 .. T - 1 : (2^(n + 1) * y) % T = 1
    OBVIOUS
  <2>1. PICK y \in 1 .. T - 1 : (2^n * y) % T = 1
    BY <1>2, Constants
  <2>2. 2^(n + 1) = 2 * 2^n /\ 2^n \in Nat
    BY PowersAssumption, PowerType, Constants
  <2> DEFINE p == 2^n
  <2> HIDE DEF p
  <2>3. CASE y % 2 = 0
    <3> DEFINE half == y \div 2
    <3>1. half \in 1 .. T - 1 /\ y = 2 * half
      BY <2>3, Constants
    <3>2. (2 * p) * half = p * y
      BY <2>2, <3>1 DEF p
    <3> QED
      BY <2>1, <2>2, <3>1, <3>2 DEF p
  <2>4. CASE y % 2 = 1
    <3> DEFINE half == (y + T) \div 2
    <3>1. half \in 1 .. T - 1 /\ y + T = 2 * half
      BY <2>4, Constants
    <3>2. (2 * p) * half = p * y + p * T /\ p * y \in Nat /\ p \in Nat
      BY <2>1, <2>2, <3>1, Constants DEF p
    <3>3. (p * y + p * T) % T = (p * y) % T
      <4> DEFINE z == p * y
      <4>1. z = (z \div T) * T + 1
        BY <2>1, <3>2, DivModParts, Constants DEF p
      <4>2. z + p * T = ((z \div T) + p) * T + 1 /\ (z \div T) + p \in Int
        BY <3>2, <4>1, Constants
      <4>3. (z + p * T) % T = 1
        BY <4>2, DivMod, Constants
      <4> QED
        BY <2>1, <4>3 DEF p
    <3>4. ((2 * p) * half) % T = 1
      BY <2>1, <3>2, <3>3 DEF p
    <3> QED
      BY <2>2, <3>1, <3>4 DEF p
  <2> QED
    BY <2>3, <2>4, Constants
<1>3. Nat \subseteq S
  <2> HIDE DEF S
  <2> QED
    BY <1>1, <1>2, Induction
<1>4. \E y \in 1 .. T - 1 : (2^k * y) % T = 1
  <2>1. k \in Nat /\ k <= Degree + 1
    BY Constants
  <2>2. k \in S
    BY <1>3, <2>1
  <2> QED
    BY <2>1, <2>2
<1> QED
  BY <1>4 DEF InvertMod

-----------------------------------------------------------------------------
(* The rotation of a monomial.                                             *)

\* Where X^elt stands for an odd elt, elt can be cancelled modulo a power of 2.
LEMMA OddCancels ==
    ASSUME NEW h \in Int
    PROVE  \A n \in 0 .. Degree + 1 : \A d, j \in Int :
               d * (2 * h + 1) = 2^n * j => \E e \in Int : d = 2^n * e
<1> DEFINE g == 2 * h + 1
           S == {n \in Nat : n <= Degree + 1 =>
                    \A d, j \in Int : d * g = 2^n * j => \E e \in Int : d = 2^n * e}
<1>1. 0 \in S
  <2>1. \A d \in Int : d = 1 * d
    OBVIOUS
  <2> QED
    BY <2>1, PowersAssumption
<1>2. ASSUME NEW n \in Nat, n \in S PROVE n + 1 \in S
  <2> SUFFICES ASSUME n + 1 <= Degree + 1, NEW d \in Int, NEW j \in Int,
                      d * g = 2^(n + 1) * j
               PROVE  \E e \in Int : d = 2^(n + 1) * e
    OBVIOUS
  <2> DEFINE p == 2^n
  <2>1. 2^(n + 1) = 2 * p /\ p \in Nat
    BY PowersAssumption, PowerType, Constants
  <2>2. \A a, b \in Int : a * g = p * b => \E e \in Int : a = p * e
    <3>1. n <= Degree + 1
      BY Constants
    <3> HIDE DEF g
    <3> QED
      BY <1>2, <3>1
  <2> HIDE DEF p
  <2>3. d * g = 2 * (p * j) /\ p * j \in Int
    BY <2>1
  <2>4. d % 2 = 0
    <3> SUFFICES ASSUME d % 2 = 1 PROVE FALSE
      OBVIOUS
    <3> DEFINE a == d \div 2
    <3>1. a \in Int /\ d = 2 * a + 1
      OBVIOUS
    <3> HIDE DEF a
    <3>2. (2 * a + 1) * (2 * h + 1) = 2 * (2 * (a * h) + a + h) + 1 /\ a * h \in Int
      BY <3>1
    <3>3. 2 * (2 * (a * h) + a + h) + 1 = 2 * (p * j)
      BY <2>3, <3>1, <3>2
    <3> QED
      BY <2>3, <3>1, <3>2, <3>3
  <2> DEFINE a == d \div 2
  <2>5. a \in Int /\ d = 2 * a
    BY <2>4
  <2> HIDE DEF a
  <2>6. a * g = p * j
    <3>1. (2 * a) * g = 2 * (a * g) /\ a * g \in Int
      BY <2>5
    <3> QED
      BY <2>3, <2>5, <3>1
  <2>7. PICK e \in Int : a = p * e
    BY <2>2, <2>5, <2>6
  <2>8. d = (2 * p) * e
    BY <2>1, <2>5, <2>7
  <2> QED
    BY <2>1, <2>8
<1>3. Nat \subseteq S
  <2> HIDE DEF S
  <2> QED
    BY <1>1, <1>2, Induction
<1> SUFFICES ASSUME NEW n \in 0 .. Degree + 1
             PROVE  \A d, j \in Int : d * g = 2^n * j => \E e \in Int : d = 2^n * e
  OBVIOUS
<1>4. n \in Nat /\ n <= Degree + 1
  BY Constants
<1>5. n \in S
  <2> HIDE DEF S
  <2> QED
    BY <1>3, <1>4
<1> QED
  <2> HIDE DEF g
  <2> QED
    BY <1>4, <1>5

\* And every exponent is reached from one below that power.
LEMMA OddReaches ==
    ASSUME NEW h \in Int
    PROVE  \A n \in 0 .. Degree + 1 : \A f \in Int : \E e \in 0 .. 2^n - 1, j \in Int :
               e * (2 * h + 1) = f + 2^n * j
<1> DEFINE g == 2 * h + 1
           S == {n \in Nat : n <= Degree + 1 =>
                    \A f \in Int : \E e \in 0 .. 2^n - 1, j \in Int : e * g = f + 2^n * j}
<1>1. 0 \in S
  <2>1. \A f \in Int : 0 * g = f + 1 * (-f) /\ -f \in Int
    OBVIOUS
  <2>2. 0 \in 0 .. 1 - 1
    OBVIOUS
  <2> QED
    BY <2>1, <2>2, PowersAssumption
<1>2. ASSUME NEW n \in Nat, n \in S PROVE n + 1 \in S
  <2> SUFFICES ASSUME n + 1 <= Degree + 1, NEW f \in Int
               PROVE  \E e \in 0 .. 2^(n + 1) - 1, j \in Int :
                          e * g = f + 2^(n + 1) * j
    OBVIOUS
  <2> DEFINE p == 2^n
  <2>1. 2^(n + 1) = 2 * p /\ p \in Nat /\ p > 0
    BY PowersAssumption, PowerType, Constants
  <2>2. PICK e \in 0 .. p - 1, j \in Int : e * g = f + p * j
    <3>1. n <= Degree + 1
      BY Constants
    <3> HIDE DEF g
    <3> QED
      BY <1>2, <3>1
  <2> HIDE DEF p
  <2>3. CASE j % 2 = 0
    <3> DEFINE half == j \div 2
    <3>1. half \in Int /\ j = 2 * half
      BY <2>3
    <3> HIDE DEF half
    <3>2. p * j = (2 * p) * half /\ e \in 0 .. 2 * p - 1
      BY <2>1, <3>1
    <3> QED
      BY <2>1, <2>2, <3>1, <3>2
  <2>4. CASE j % 2 = 1
    <3> DEFINE half == (j + g) \div 2
    <3>1. half \in Int /\ j + g = 2 * half
      BY <2>4
    <3> HIDE DEF half
    <3>2. (e + p) * g = e * g + p * g /\ p * j + p * g = p * (j + g)
          /\ e * g \in Int /\ p * g \in Int /\ p * j \in Int
      BY <2>1
    <3>3. p * (2 * half) = (2 * p) * half
      BY <2>1, <3>1
    <3>4. (e + p) * g = f + (2 * p) * half /\ e + p \in 0 .. 2 * p - 1
      BY <2>1, <2>2, <3>1, <3>2, <3>3
    <3> QED
      BY <2>1, <3>1, <3>4
  <2> QED
    BY <2>3, <2>4
<1>3. Nat \subseteq S
  <2> HIDE DEF S
  <2> QED
    BY <1>1, <1>2, Induction
<1> SUFFICES ASSUME NEW n \in 0 .. Degree + 1
             PROVE  \A f \in Int : \E e \in 0 .. 2^n - 1, j \in Int : e * g = f + 2^n * j
  OBVIOUS
<1>4. n \in Nat /\ n <= Degree + 1
  BY Constants
<1>5. n \in S
  <2> HIDE DEF S
  <2> QED
    BY <1>3, <1>4
<1> QED
  <2> HIDE DEF g
  <2> QED
    BY <1>4, <1>5

LEMMA NegatedFacts ==
    /\ Negated(0) = 0
    /\ \A v \in 0 .. T - 1 :
           /\ Negated(v) \in 0 .. T - 1
           /\ (v + Negated(v)) % T = 0
           /\ (Negated(v) + v) % T = 0
           /\ Negated(Negated(v)) = v
<1>1. Negated(0) = 0
  BY Constants DEF Negated
<1>2. \A v \in 1 .. T - 1 : Negated(v) = T - v
  BY Constants DEF Negated
<1>3. T % T = 0
  BY Constants
<1> QED
  BY <1>1, <1>2, <1>3, Constants

LEMMA TwiceRemainder ==
    ASSUME NEW c \in Nat
    PROVE  /\ c % T \in 0 .. T - 1
           /\ (2 * (c % T)) % T = (2 * c) % T
<1>0. c \in Int
  OBVIOUS
<1>1. PICK q \in Int, v \in 0 .. T - 1 : c = q * T + v /\ c % T = v
  BY <1>0, Remainder, Constants
<1>2. 2 * v \in Int
  OBVIOUS
<1>3. PICK z \in Int, y \in 0 .. T - 1 : 2 * v = z * T + y /\ (2 * v) % T = y
  BY <1>2, Remainder, Constants
<1>4. 2 * c = (2 * q + z) * T + y /\ 2 * q + z \in Int
  <2>1. (2 * q) * T + z * T = (2 * q + z) * T /\ q * T \in Int /\ z * T \in Int
    BY Constants
  <2>2. 2 * (q * T + v) = (2 * q) * T + 2 * v
    BY Constants
  <2>3. 2 * c = (2 * q) * T + 2 * v
    BY <1>1, <2>2
  <2>4. 2 * c = (2 * q) * T + (z * T + y)
    BY <1>3, <2>3
  <2>5. (2 * q) * T \in Int
    BY Constants
  <2> DEFINE l == (2 * q) * T
             n == z * T
             k == (2 * q + z) * T
             w == 2 * c
  <2>6. w = l + (n + y) /\ l + n = k /\ l \in Int /\ n \in Int /\ y \in Int
    BY <2>1, <2>4, <2>5
  <2>7. w = k + y
    <3> HIDE DEF k, l, n, w
    <3> QED
      BY <2>6
  <2> QED
    BY <2>7
<1>5. (2 * c) % T = y
  <2> DEFINE k == 2 * q + z
             w == 2 * c
  <2>1. w = k * T + y /\ k \in Int
    BY <1>4
  <2> HIDE DEF k, w
  <2>2. w % T = y
    BY <2>1, DivMod, Constants
  <2> QED
    BY <2>2 DEF w
<1> QED
  BY <1>1, <1>3, <1>5

\* The rotation of round r: its element is odd, and turns a whole multiple of
\* 2^r by as many half turns.
LEMMA GaloisFacts ==
    ASSUME NEW D \in 1 .. Degree, Degree = 2^D, NEW r \in 0 .. D - 1
    PROVE  \E q \in Nat \ {0} :
               GaloisElt(r) = 2 * q + 1 /\ 2^r * (2 * q) = Degree
<1>1. /\ r \in Nat /\ D - r - 1 \in Nat /\ r + (D - r - 1) = D - 1
      /\ D - 1 \in 0 .. Degree /\ (D - 1) + 1 = D
  BY Constants
<1> DEFINE s == 2^r
           q == 2^(D - r - 1)
<1>2. 2^(D - 1) = s * q
  BY <1>1, PowerSum, Constants
<1>3. Degree = 2 * 2^(D - 1)
  BY <1>1, PowersAssumption
<1>4. s \in Nat /\ s > 0 /\ q \in Nat /\ q > 0
  BY <1>1, PowerType, Constants
<1>5. GaloisElt(r) = (Degree + s) \div s
  BY DEF GaloisElt
<1> HIDE DEF s, q
<1>6. s * (2 * q) = Degree
  BY <1>2, <1>3, <1>4
<1>7. Degree + s = (2 * q + 1) * s + 0
  BY <1>4, <1>6
<1>8. (Degree + s) \div s = 2 * q + 1
  BY <1>4, <1>7, DivMod
<1> QED
  BY <1>4, <1>5, <1>6, <1>8 DEF s

\* An odd rotation permutes the places.
LEMMA GaloisPermutes ==
    ASSUME NEW D \in 1 .. Degree, Degree = 2^D, NEW q \in Nat
    PROVE  /\ \A f \in 0 .. Degree - 1 :
                  \E e \in 0 .. Degree - 1 : (e * (2 * q + 1)) % Degree = f
           /\ \A e1, e2 \in 0 .. Degree - 1 :
                  (e1 * (2 * q + 1)) % Degree = (e2 * (2 * q + 1)) % Degree
                      => e1 = e2
<1> DEFINE g == 2 * q + 1
<1>g. g \in Nat /\ q \in Int /\ D \in 0 .. Degree + 1
  BY Constants
<1>1. ASSUME NEW f \in 0 .. Degree - 1
      PROVE  \E e \in 0 .. Degree - 1 : (e * g) % Degree = f
  <2>1. PICK e \in 0 .. Degree - 1, j \in Int : e * g = f + Degree * j
    <3>1. \A x \in Int : \E e \in 0 .. 2^D - 1, j \in Int : e * g = x + 2^D * j
      BY <1>g, OddReaches
    <3>2. f \in Int
      BY Constants
    <3> HIDE DEF g
    <3> QED
      BY <3>1, <3>2
  <2>2. e * g = j * Degree + f
    BY <2>1, Constants
  <2>3. (e * g) % Degree = f
    BY <2>1, <2>2, DivMod, Constants
  <2> QED
    BY <2>1, <2>3
<1>2. ASSUME NEW e1 \in 0 .. Degree - 1, NEW e2 \in 0 .. Degree - 1,
             (e1 * g) % Degree = (e2 * g) % Degree
      PROVE  e1 = e2
  <2> DEFINE x1 == e1 * g
             x2 == e2 * g
  <2>0. x1 \in Int /\ x2 \in Int
    BY <1>g, Constants
  <2>1. PICK j1 \in Int, v1 \in 0 .. Degree - 1 :
            x1 = j1 * Degree + v1 /\ x1 % Degree = v1
    <3> HIDE DEF x1
    <3> QED
      BY <2>0, Remainder, Constants
  <2>a. PICK j2 \in Int, v2 \in 0 .. Degree - 1 :
            x2 = j2 * Degree + v2 /\ x2 % Degree = v2
    <3> HIDE DEF x2
    <3> QED
      BY <2>0, Remainder, Constants
  <2>2. x1 - x2 = Degree * (j1 - j2)
    <3>1. v1 = v2
      BY <1>2, <2>1, <2>a
    <3>2. j1 * Degree - j2 * Degree = Degree * (j1 - j2)
          /\ j1 * Degree \in Int /\ j2 * Degree \in Int
      BY Constants
    <3> HIDE DEF x1, x2
    <3> QED
      BY <2>1, <2>a, <3>1, <3>2
  <2>3. (e1 - e2) * g = x1 - x2 /\ e1 - e2 \in Int /\ j1 - j2 \in Int
    BY <1>g, Constants
  <2>4. (e1 - e2) * g = Degree * (j1 - j2)
    <3> HIDE DEF g, x1, x2
    <3> QED
      BY <2>2, <2>3
  <2>5. \A d, j \in Int : d * g = 2^D * j => \E e \in Int : d = 2^D * e
    BY <1>g, OddCancels
  <2>6. PICK e \in Int : e1 - e2 = Degree * e
    <3> HIDE DEF g
    <3> QED
      BY <2>3, <2>4, <2>5
  <2>7. ~ (e > 0) /\ ~ (e < 0)
    <3>1. e > 0 => Degree * e >= Degree
      BY <2>6, Constants
    <3>2. e < 0 => Degree * e <= -Degree
      BY <2>6, Constants
    <3> QED
      BY <2>6, <3>1, <3>2, Constants
  <2>8. e = 0
    BY <2>7
  <2> QED
    BY <2>6, <2>8, Constants
<1> QED
  BY <1>1, <1>2

\* The monomial of coefficient c and exponent k after u half turns.
HalfTurned(c, k, u) ==
    [f \in 0 .. Degree - 1 |->
        IF f = k THEN IF u % 2 = 0 THEN c % T ELSE Negated(c % T) ELSE 0]

\* A rotated monomial stays at its place: an even number of half turns leaves
\* its sign, an odd number changes it.
LEMMA RotatedMonomial ==
    ASSUME NEW D \in 1 .. Degree, Degree = 2^D, NEW r \in 0 .. D - 1,
           NEW c \in Nat, NEW u \in Nat, NEW k \in 0 .. Degree - 1, k = 2^r * u
    PROVE  ApplyGalois(Monomial(c, k), GaloisElt(r)) = HalfTurned(c, k, u)
<1> DEFINE s == 2^r
           p == Monomial(c, k)
<1>1. PICK q \in Nat \ {0} : GaloisElt(r) = 2 * q + 1 /\ s * (2 * q) = Degree
  BY GaloisFacts
<1> DEFINE elt == 2 * q + 1
           At(f) == CHOOSE e \in 0 .. Degree - 1 : (e * elt) % Degree = f
<1>2. r \in 0 .. Degree + 1 /\ s \in Nat
  BY PowerType, Constants
<1>3. k * elt = k + u * Degree
  <2>1. (s * u) * (2 * q + 1) = (s * u) + u * (s * (2 * q))
    BY <1>2
  <2> QED
    BY <1>1, <2>1
<1>4. (k * elt) % Degree = k
  <2>1. k * elt = u * Degree + k /\ u \in Int
    BY <1>3, Constants
  <2> DEFINE x == k * elt
  <2> HIDE DEF x
  <2>2. x % Degree = k
    BY <2>1, DivMod, Constants DEF x
  <2> QED
    BY <2>2 DEF x
<1>5. (k * elt) % (2 * Degree) = IF u % 2 = 0 THEN k ELSE k + Degree
  <2> DEFINE half == u \div 2
             x == k * elt
             b == 2 * Degree
  <2>0. b \in Nat \ {0} /\ half \in Int /\ k \in 0 .. b - 1 /\ k + Degree \in 0 .. b - 1
    BY Constants
  <2>1. CASE u % 2 = 0
    <3>1. u = 2 * half
      BY <2>1
    <3> HIDE DEF half
    <3>2. u * Degree = half * b
      BY <2>0, <3>1, Constants
    <3>3. x = half * b + k
      <4>1. half * b \in Int
        BY <2>0
      <4> QED
        BY <1>3, <3>2, <4>1, Constants
    <3> HIDE DEF x, b
    <3>4. x % b = k
      BY <2>0, <3>3, DivMod
    <3> QED
      BY <2>1, <3>4 DEF x, b
  <2>2. CASE u % 2 = 1
    <3>1. u = 2 * half + 1
      BY <2>2
    <3> HIDE DEF half
    <3>2. u * Degree = half * b + Degree
      BY <2>0, <3>1, Constants
    <3>3. x = half * b + (k + Degree)
      <4>1. half * b \in Int
        BY <2>0
      <4> QED
        BY <1>3, <3>2, <4>1, Constants
    <3> HIDE DEF x, b
    <3>4. x % b = k + Degree
      BY <2>0, <3>3, DivMod
    <3> QED
      BY <2>2, <3>4 DEF x, b
  <2> QED
    BY <2>1, <2>2
<1>6. ASSUME NEW f \in 0 .. Degree - 1
      PROVE  /\ At(f) \in 0 .. Degree - 1
             /\ (At(f) * elt) % Degree = f
             /\ At(f) = k <=> f = k
  <2>1. \E e \in 0 .. Degree - 1 : (e * elt) % Degree = f
    BY GaloisPermutes
  <2>2. At(f) \in 0 .. Degree - 1 /\ (At(f) * elt) % Degree = f
    <3> HIDE DEF elt
    <3> QED
      BY <2>1
  <2>3. \A e1, e2 \in 0 .. Degree - 1 :
            (e1 * elt) % Degree = (e2 * elt) % Degree => e1 = e2
    BY GaloisPermutes
  <2> HIDE DEF At, elt
  <2> QED
    BY <1>4, <2>2, <2>3
<1>7. ApplyGalois(p, elt) =
          [f \in 0 .. Degree - 1 |->
              IF (At(f) * elt) % (2 * Degree) = f THEN p[At(f)] ELSE Negated(p[At(f)])]
  BY DEF ApplyGalois
<1>8. \A e \in 0 .. Degree - 1 : p[e] = IF e = k THEN c % T ELSE 0
  BY DEF Monomial
<1>9. k # k + Degree
  BY Constants
<1> HIDE DEF At, elt, p
<1>10. ASSUME NEW f \in 0 .. Degree - 1
       PROVE  (IF (At(f) * elt) % (2 * Degree) = f
               THEN p[At(f)] ELSE Negated(p[At(f)]))
              = IF f = k THEN IF u % 2 = 0 THEN c % T ELSE Negated(c % T) ELSE 0
  <2>1. CASE f = k
    <3>1. At(f) = k /\ p[At(f)] = c % T
      BY <1>6, <1>8, <2>1
    <3>2. (At(f) * elt) % (2 * Degree) = IF u % 2 = 0 THEN k ELSE k + Degree
      BY <1>5, <3>1 DEF elt
    <3> QED
      BY <1>9, <2>1, <3>1, <3>2
  <2>2. CASE f # k
    <3>1. p[At(f)] = 0
      BY <1>6, <1>8, <2>2
    <3> QED
      BY <2>2, <3>1, NegatedFacts
  <2> QED
    BY <2>1, <2>2
<1> QED
  BY <1>1, <1>7, <1>10 DEF elt, p, HalfTurned

\* One round keeps a monomial at an even multiple of 2^r and drops an odd one.
LEMMA EvenMonomial ==
    ASSUME NEW D \in 1 .. Degree, Degree = 2^D, NEW r \in 0 .. D - 1,
           NEW c \in Nat, NEW u \in Nat, NEW k \in 0 .. Degree - 1, k = 2^r * u
    PROVE  Even(Monomial(c, k), r) =
               IF u % 2 = 0 THEN Monomial(2 * c, k) ELSE Monomial(0, 0)
<1>0. ApplyGalois(Monomial(c, k), GaloisElt(r)) = HalfTurned(c, k, u)
  BY RotatedMonomial
<1>t. c % T \in 0 .. T - 1 /\ (2 * (c % T)) % T = (2 * c) % T
  BY TwiceRemainder
<1>z. 0 % T = 0 /\ (0 + 0) % T = 0
  BY Constants
<1> DEFINE a == ApplyGalois(Monomial(c, k), GaloisElt(r))
           v == c % T
<1>1. a = [f \in 0 .. Degree - 1 |->
              IF f = k THEN IF u % 2 = 0 THEN v ELSE Negated(v) ELSE 0]
  BY <1>0 DEF HalfTurned
<1>2. v \in 0 .. T - 1 /\ (2 * v) % T = (2 * c) % T /\ 0 % T = 0
  BY <1>t, <1>z
<1>3. Even(Monomial(c, k), r) =
          [e \in 0 .. Degree - 1 |-> (Monomial(c, k)[e] + a[e]) % T]
  BY DEF Even, Add
<1>4. \A e \in 0 .. Degree - 1 : Monomial(c, k)[e] = IF e = k THEN v ELSE 0
  BY DEF Monomial
<1>5. (v + Negated(v)) % T = 0 /\ (0 + 0) % T = 0 /\ v + v = 2 * v
  BY <1>2, NegatedFacts
<1> HIDE DEF a, v
<1>6. CASE u % 2 = 0
  <2>1. \A e \in 0 .. Degree - 1 :
            (Monomial(c, k)[e] + a[e]) % T = IF e = k THEN (2 * c) % T ELSE 0
    BY <1>1, <1>2, <1>4, <1>5, <1>6
  <2> QED
    BY <1>3, <1>6, <2>1 DEF Monomial
<1>7. CASE ~ (u % 2 = 0)
  <2>1. \A e \in 0 .. Degree - 1 : (Monomial(c, k)[e] + a[e]) % T = 0
    BY <1>1, <1>2, <1>4, <1>5, <1>7
  <2>2. Monomial(0, 0) = [e \in 0 .. Degree - 1 |-> 0]
    BY <1>2 DEF Monomial
  <2> QED
    BY <1>3, <1>7, <2>1, <2>2
<1> QED
  BY <1>6, <1>7

\* The other half of the round keeps the odd multiples, moved back by 2^r.
LEMMA OddMonomial ==
    ASSUME NEW D \in 1 .. Degree, Degree = 2^D, NEW r \in 0 .. D - 1,
           NEW c \in Nat, NEW u \in Nat, NEW k \in 0 .. Degree - 1, k = 2^r * u
    PROVE  Odd(Monomial(c, k), r) =
               IF u % 2 = 0 THEN Monomial(0, 0) ELSE Monomial(2 * c, k - 2^r)
<1>0. ApplyGalois(Monomial(c, k), GaloisElt(r)) = HalfTurned(c, k, u)
  BY RotatedMonomial
<1>t. c % T \in 0 .. T - 1 /\ (2 * (c % T)) % T = (2 * c) % T
  BY TwiceRemainder
<1>z. 0 % T = 0 /\ (0 + 0) % T = 0
  BY Constants
<1> DEFINE s == 2^r
           p == Monomial(c, k)
           a == ApplyGalois(p, GaloisElt(r))
           v == c % T
           raw == 2 * Degree - s
<1>1. a = [f \in 0 .. Degree - 1 |->
              IF f = k THEN IF u % 2 = 0 THEN v ELSE Negated(v) ELSE 0]
  BY <1>0 DEF HalfTurned
<1>2. /\ v \in 0 .. T - 1 /\ (2 * v) % T = (2 * c) % T
      /\ 0 % T = 0 /\ (0 + 0) % T = 0 /\ v + v = 2 * v
  <2>1. (c % T) + (c % T) = 2 * (c % T)
    BY <1>t
  <2> QED
    BY <1>t, <1>z, <2>1
<1>3. /\ Negated(0) = 0 /\ (v + Negated(v)) % T = 0
      /\ (Negated(v) + v) % T = 0 /\ Negated(Negated(v)) = v
  BY <1>2, NegatedFacts
<1>4. p = [e \in 0 .. Degree - 1 |-> IF e = k THEN v ELSE 0]
  BY DEF Monomial
<1>5. PICK q \in Nat \ {0} : GaloisElt(r) = 2 * q + 1 /\ s * (2 * q) = Degree
  BY GaloisFacts
<1>6. s \in Nat /\ s > 0
  BY PowerType, Constants
<1>7. s < Degree
  <2>1. s * (2 * q) >= 2 * s
    BY <1>5, <1>6
  <2> QED
    BY <1>5, <1>6, <2>1
<1>8. (raw * GaloisElt(r)) % (2 * Degree) = Degree - s
  <2> DEFINE b == 2 * Degree
             x == raw * GaloisElt(r)
  <2>1. (2 * Degree - s) * (2 * q + 1) = (2 * q) * (2 * Degree) + 2 * Degree - s * (2 * q) - s
    BY <1>6, Constants
  <2>2. x = (2 * q) * b + (Degree - s)
    <3>1. (2 * q) * b \in Int
      BY Constants
    <3> QED
      BY <1>5, <1>6, <2>1, <3>1, Constants
  <2>3. b \in Nat \ {0} /\ 2 * q \in Int /\ Degree - s \in 0 .. b - 1
    BY <1>6, <1>7, Constants
  <2> HIDE DEF b, x
  <2>4. x % b = Degree - s
    BY <2>2, <2>3, DivMod
  <2> QED
    BY <2>4 DEF b, x
<1>9. Odd(p, r) = Add(MultiplyPowerOfX(p, raw), MultiplyPowerOfX(a, Degree - s))
  BY <1>8 DEF Odd
<1>10. k < s => u % 2 = 0
  <2>1. u >= 1 => s * u >= s
    BY <1>6
  <2> QED
    BY <1>6, <2>1
<1>11. u % 2 # 0 => k >= s /\ k - s \in 0 .. Degree - 1
  BY <1>6, <1>10
<1> DEFINE b == 2 * Degree
<1>12. ASSUME NEW e \in 0 .. Degree - 1
       PROVE  /\ (e - raw) % b = e + s
              /\ (e - (Degree - s)) % b =
                     IF e + s < Degree THEN e + s + Degree ELSE e + s - Degree
  <2>1. /\ b \in Nat \ {0} /\ 0 \in Int /\ -1 \in Int
        /\ e + s \in 0 .. b - 1 /\ e - raw = (-1) * b + (e + s)
    BY <1>6, <1>7, Constants
  <2>2. \A x, y, t \in Int : t \in 0 .. b - 1 /\ x = y * b + t => x % b = t
    <3> HIDE DEF b
    <3> QED
      BY <2>1, DivMod
  <2>3. e - raw \in Int /\ e - (Degree - s) \in Int /\ e + s \in Int
    BY <1>6, Constants
  <2>4. (e - raw) % b = e + s
    <3> DEFINE x == e - raw
               t == e + s
    <3>1. x \in Int /\ t \in Int /\ t \in 0 .. b - 1 /\ x = (-1) * b + t
      BY <2>1, <2>3
    <3> HIDE DEF b, x, t
    <3>2. x % b = t
      BY <2>1, <2>2, <3>1
    <3> QED
      BY <3>2 DEF x, t
  <2>5. ASSUME e + s < Degree
        PROVE  (e - (Degree - s)) % b = e + s + Degree
    <3> DEFINE x == e - (Degree - s)
               t == e + s + Degree
    <3>1. x \in Int /\ t \in Int /\ t \in 0 .. b - 1 /\ x = (-1) * b + t
      BY <1>6, <2>5, Constants
    <3> HIDE DEF b, x, t
    <3>2. x % b = t
      BY <2>1, <2>2, <3>1
    <3> QED
      BY <3>2 DEF x, t
  <2>6. ASSUME ~ (e + s < Degree)
        PROVE  (e - (Degree - s)) % b = e + s - Degree
    <3> DEFINE x == e - (Degree - s)
               t == e + s - Degree
    <3>1. x \in Int /\ t \in Int /\ t \in 0 .. b - 1 /\ x = 0 * b + t
      BY <1>6, <1>7, <2>6, Constants
    <3> HIDE DEF b, x, t
    <3>2. x % b = t
      BY <2>1, <2>2, <3>1
    <3> QED
      BY <3>2 DEF x, t
  <2> QED
    BY <2>4, <2>5, <2>6
<1>13. ASSUME NEW e \in 0 .. Degree - 1
       PROVE  /\ MultiplyPowerOfX(p, raw)[e] =
                     IF e + s < Degree THEN p[e + s] ELSE Negated(p[e + s - Degree])
              /\ MultiplyPowerOfX(a, Degree - s)[e] =
                     IF e + s < Degree THEN Negated(a[e + s]) ELSE a[e + s - Degree]
  <2>1. MultiplyPowerOfX(p, raw)[e] =
            IF e + s < Degree THEN p[e + s] ELSE Negated(p[e + s - Degree])
    <3> DEFINE from == (e - raw) % (2 * Degree)
    <3>1. MultiplyPowerOfX(p, raw)[e] =
              IF from < Degree THEN p[from] ELSE Negated(p[from - Degree])
      <4> HIDE DEF raw, p
      <4> QED
        BY DEF MultiplyPowerOfX
    <3>2. from = e + s
      BY <1>12
    <3>3. MultiplyPowerOfX(p, raw)[e] =
              IF e + s < Degree THEN p[e + s] ELSE Negated(p[(e + s) - Degree])
      <4> HIDE DEF from, p, raw, s
      <4> QED
        BY <3>1, <3>2, Zenon
    <3> QED
      BY <3>3
  <2>2. MultiplyPowerOfX(a, Degree - s)[e] =
            IF e + s < Degree THEN Negated(a[e + s]) ELSE a[e + s - Degree]
    <3> DEFINE from == (e - (Degree - s)) % (2 * Degree)
    <3>1. MultiplyPowerOfX(a, Degree - s)[e] =
              IF from < Degree THEN a[from] ELSE Negated(a[from - Degree])
      <4> HIDE DEF a
      <4> QED
        BY DEF MultiplyPowerOfX
    <3>2. from = IF e + s < Degree THEN e + s + Degree ELSE e + s - Degree
      BY <1>12
    <3> HIDE DEF from, a
    <3>3. CASE e + s < Degree
      <4>1. ~ (e + s + Degree < Degree) /\ e + s + Degree - Degree = e + s
        BY <1>6, Constants
      <4> QED
        BY <3>1, <3>2, <3>3, <4>1
    <3>4. CASE ~ (e + s < Degree)
      <4>1. e + s - Degree < Degree
        BY <1>6, <1>7, Constants
      <4> QED
        BY <3>1, <3>2, <3>4, <4>1
    <3> QED
      BY <3>3, <3>4
  <2> QED
    BY <2>1, <2>2
<1>14. Odd(p, r) = [e \in 0 .. Degree - 1 |->
                       (MultiplyPowerOfX(p, raw)[e]
                           + MultiplyPowerOfX(a, Degree - s)[e]) % T]
  BY <1>9 DEF Add
<1>15. ASSUME NEW e \in 0 .. Degree - 1
       PROVE  (MultiplyPowerOfX(p, raw)[e] + MultiplyPowerOfX(a, Degree - s)[e]) % T
              = IF u % 2 # 0 /\ e = k - s THEN (2 * c) % T ELSE 0
  <2>1. CASE e + s < Degree
    <3>1. e + s \in 0 .. Degree - 1 /\ (e + s = k <=> e = k - s)
      BY <1>6, <2>1, Constants
    <3>2. p[e + s] = (IF e + s = k THEN v ELSE 0)
          /\ a[e + s] = IF e + s = k THEN IF u % 2 = 0 THEN v ELSE Negated(v) ELSE 0
      <4> HIDE DEF a, p, s, v
      <4> QED
        BY <1>1, <1>4, <3>1
    <3> HIDE DEF a, p, s, v, raw
    <3> QED
      BY <1>2, <1>3, <1>13, <2>1, <3>1, <3>2
  <2>2. CASE ~ (e + s < Degree)
    <3>1. e + s - Degree \in 0 .. Degree - 1 /\ e + s - Degree < s
      BY <1>6, <1>7, <2>2, Constants
    <3>2. p[e + s - Degree] = (IF e + s - Degree = k THEN v ELSE 0)
          /\ a[e + s - Degree] = IF e + s - Degree = k
                             THEN IF u % 2 = 0 THEN v ELSE Negated(v) ELSE 0
      <4> HIDE DEF a, p, s, v
      <4> QED
        BY <1>1, <1>4, <3>1
    <3>3. ~ (u % 2 # 0 /\ e = k - s)
      BY <1>6, <2>2, Constants
    <3>4. e + s - Degree = k => u % 2 = 0
      BY <1>10, <3>1
    <3> HIDE DEF a, p, s, v, raw
    <3> QED
      BY <1>2, <1>3, <1>13, <2>2, <3>2, <3>3, <3>4
  <2> QED
    BY <2>1, <2>2
<1>16. CASE u % 2 = 0
  <2>1. Monomial(0, 0) = [e \in 0 .. Degree - 1 |-> 0]
    BY <1>2 DEF Monomial
  <2> HIDE DEF a, p, s, v, raw
  <2>2. Odd(p, r) = [e \in 0 .. Degree - 1 |-> 0]
    BY <1>14, <1>15, <1>16
  <2> QED
    BY <1>16, <2>1, <2>2 DEF p
<1>17. CASE ~ (u % 2 = 0)
  <2> HIDE DEF a, p, v, raw
  <2>2. Odd(p, r) = [e \in 0 .. Degree - 1 |-> IF e = k - s THEN (2 * c) % T ELSE 0]
    BY <1>14, <1>15, <1>17
  <2> QED
    BY <1>17, <2>2 DEF p, Monomial
<1> QED
  BY <1>16, <1>17

\* What the list holds at place a after r rounds, for the index w and the
\* factor v the client divided by.
Part(w, v, r, a) ==
    IF w % 2^r = a THEN Monomial(2^r * v, w - a) ELSE Monomial(0, 0)

LEMMA MonomialFacts ==
    /\ \A c \in Nat, k \in Int : Monomial(c, k) \in Poly
    /\ \A c \in Nat, k \in Int : Scaled(2, Monomial(c, k)) = Monomial(2 * c, k)
    /\ Monomial(1, 0) = [e \in 0 .. Degree - 1 |-> IF e = 0 THEN 1 ELSE 0]
<1>1. ASSUME NEW c \in Nat, NEW k \in Int PROVE Monomial(c, k) \in Poly
  <2>1. c % T \in 0 .. T - 1 /\ 0 \in 0 .. T - 1
    BY TwiceRemainder, Constants
  <2> QED
    BY <2>1 DEF Monomial, Poly
<1>2. ASSUME NEW c \in Nat, NEW k \in Int
      PROVE  Scaled(2, Monomial(c, k)) = Monomial(2 * c, k)
  <2>1. (2 * (c % T)) % T = (2 * c) % T
    BY TwiceRemainder
  <2>2. (2 * 0) % T = 0
    BY Constants
  <2>3. Scaled(2, Monomial(c, k)) =
            [e \in 0 .. Degree - 1 |-> (2 * Monomial(c, k)[e]) % T]
    BY DEF Scaled
  <2>4. \A e \in 0 .. Degree - 1 : Monomial(c, k)[e] = IF e = k THEN c % T ELSE 0
    BY DEF Monomial
  <2>5. \A e \in 0 .. Degree - 1 :
            (2 * Monomial(c, k)[e]) % T = IF e = k THEN (2 * c) % T ELSE 0
    BY <2>1, <2>2, <2>4
  <2> QED
    BY <2>3, <2>5 DEF Monomial
<1>3. 1 % T = 1
  BY Constants
<1> QED
  BY <1>1, <1>2, <1>3 DEF Monomial

\* An index in 2^r parts, and in twice as many.
LEMMA Halves ==
    ASSUME NEW r \in 0 .. Degree, NEW w \in Nat
    PROVE  \E u \in Nat :
               /\ w % 2^r \in 0 .. 2^r - 1
               /\ w - (w % 2^r) = 2^r * u
               /\ w % 2^(r + 1) = IF u % 2 = 0 THEN w % 2^r ELSE (w % 2^r) + 2^r
<1> DEFINE s == 2^r
           t == 2^(r + 1)
<1>1. s \in Nat \ {0} /\ t = 2 * s
  BY PowerType, PowersAssumption, Constants
<1> HIDE DEF s, t
<1>2. w \in Int
  OBVIOUS
<1>3. PICK u \in Int, a \in 0 .. s - 1 : w = u * s + a /\ w % s = a
  BY <1>1, <1>2, Remainder
<1>4. u \in Nat
  <2>1. u <= -1 => u * s <= -s
    BY <1>1
  <2> QED
    BY <1>1, <1>3, <2>1
<1>5. w - a = s * u
  <2>1. u * s = s * u /\ s * u \in Int
    BY <1>1
  <2> QED
    BY <1>1, <1>3, <2>1
<1> DEFINE half == u \div 2
<1>6. half \in Int /\ (u % 2 = 0 => u = 2 * half) /\ (u % 2 # 0 => u = 2 * half + 1)
  BY <1>4
<1> HIDE DEF half
<1>7. u % 2 = 0 => w = half * t + a /\ a \in 0 .. t - 1
  <2>1. (2 * half) * s = half * (2 * s) /\ a \in 0 .. 2 * s - 1
    BY <1>1, <1>6
  <2> QED
    BY <1>1, <1>3, <1>6, <2>1
<1>8. u % 2 # 0 => w = half * t + (a + s) /\ a + s \in 0 .. t - 1
  <2>1. (2 * half + 1) * s = half * (2 * s) + s /\ a + s \in 0 .. 2 * s - 1
        /\ half * (2 * s) \in Int
    BY <1>1, <1>6
  <2> QED
    BY <1>1, <1>3, <1>6, <2>1
<1>9. t \in Nat \ {0}
  BY <1>1
<1>10. u % 2 = 0 => w % t = a
  BY <1>6, <1>7, <1>9, DivMod
<1>11. u % 2 # 0 => w % t = a + s
  <2> DEFINE b == a + s
  <2>1. u % 2 # 0 => w = half * t + b /\ b \in 0 .. t - 1
    BY <1>8
  <2> HIDE DEF b
  <2>2. u % 2 # 0 => w % t = b
    BY <1>6, <1>9, <2>1, DivMod
  <2> QED
    BY <2>2 DEF b
<1> QED
  BY <1>3, <1>4, <1>5, <1>10, <1>11 DEF s, t

\* One round, at one place: from 2^r parts to twice as many.
LEMMA RoundHalves ==
    ASSUME NEW D \in 1 .. Degree, Degree = 2^D, NEW r \in 0 .. D - 1,
           NEW w \in 0 .. Degree - 1, NEW v \in Nat, NEW a \in 0 .. 2^r - 1
    PROVE  /\ Even(Part(w, v, r, a), r) = Part(w, v, r + 1, a)
           /\ Odd(Part(w, v, r, a), r) = Part(w, v, r + 1, a + 2^r)
<1>1. r \in 0 .. Degree /\ w \in Nat /\ Degree > 0
  BY Constants
<1>2. PICK u \in Nat :
          /\ w % 2^r \in 0 .. 2^r - 1
          /\ w - (w % 2^r) = 2^r * u
          /\ w % 2^(r + 1) = IF u % 2 = 0 THEN w % 2^r ELSE (w % 2^r) + 2^r
  BY <1>1, Halves
<1>3. 2^r \in Nat /\ 2^r > 0 /\ 2^(r + 1) = 2 * 2^r
  BY <1>1, PowerType, PowersAssumption, Constants
<1> DEFINE s == 2^r
           k == w - a
           c == s * v
           after == w % 2^(r + 1)
<1>4. CASE w % s = a
  <2>1. k \in 0 .. Degree - 1 /\ k = s * u /\ c \in Nat /\ k \in Int
    BY <1>1, <1>2, <1>3, <1>4, Constants
  <2>2. Part(w, v, r, a) = Monomial(c, k)
    BY <1>4 DEF Part
  <2>3. 2^(r + 1) * v = 2 * c
    BY <1>3
  <2>4. /\ Even(Monomial(c, k), r) =
               IF u % 2 = 0 THEN Monomial(2 * c, k) ELSE Monomial(0, 0)
        /\ Odd(Monomial(c, k), r) =
               IF u % 2 = 0 THEN Monomial(0, 0) ELSE Monomial(2 * c, k - s)
    <3>1. k = 2^r * u
      BY <2>1
    <3> HIDE DEF c, k
    <3>2. Even(Monomial(c, k), r) =
              IF u % 2 = 0 THEN Monomial(2 * c, k) ELSE Monomial(0, 0)
      BY <2>1, <3>1, EvenMonomial
    <3>3. Odd(Monomial(c, k), r) =
              IF u % 2 = 0 THEN Monomial(0, 0) ELSE Monomial(2 * c, k - 2^r)
      BY <2>1, <3>1, OddMonomial
    <3> QED
      BY <3>2, <3>3
  <2>5. after = IF u % 2 = 0 THEN a ELSE a + s
    BY <1>2, <1>4
  <2>6. a # a + s /\ w - (a + s) = k - s
    BY <1>1, <1>3
  <2>7. Part(w, v, r + 1, a) = IF u % 2 = 0 THEN Monomial(2 * c, k) ELSE Monomial(0, 0)
    <3>1. Part(w, v, r + 1, a) =
              IF after = a THEN Monomial(2^(r + 1) * v, k) ELSE Monomial(0, 0)
      BY DEF Part
    <3> HIDE DEF s, k, c, after
    <3> QED
      BY <2>3, <2>5, <2>6, <3>1
  <2>8. Part(w, v, r + 1, a + s) =
            IF u % 2 = 0 THEN Monomial(0, 0) ELSE Monomial(2 * c, k - s)
    <3>1. Part(w, v, r + 1, a + s) =
              IF after = a + s THEN Monomial(2^(r + 1) * v, w - (a + s))
                               ELSE Monomial(0, 0)
      BY DEF Part
    <3> HIDE DEF s, k, c, after
    <3> QED
      BY <2>3, <2>5, <2>6, <3>1
  <2> QED
    BY <2>2, <2>4, <2>7, <2>8
<1>5. CASE w % s # a
  <2>1. 0 = s * 0 /\ 0 \in 0 .. Degree - 1 /\ 2 * 0 = 0 /\ 0 % 2 = 0 /\ 0 \in Nat
    BY <1>1, <1>3
  <2>2. Part(w, v, r, a) = Monomial(0, 0)
    BY <1>5 DEF Part
  <2>3. /\ Even(Monomial(0, 0), r) =
               IF 0 % 2 = 0 THEN Monomial(2 * 0, 0) ELSE Monomial(0, 0)
        /\ Odd(Monomial(0, 0), r) =
               IF 0 % 2 = 0 THEN Monomial(0, 0) ELSE Monomial(2 * 0, 0 - s)
    BY <2>1, EvenMonomial, OddMonomial DEF s
  <2>4. after # a /\ after # a + s
    BY <1>2, <1>3, <1>5
  <2>5. Part(w, v, r + 1, a) = Monomial(0, 0)
    BY <2>4 DEF Part
  <2>6. Part(w, v, r + 1, a + s) = Monomial(0, 0)
    BY <2>4 DEF Part
  <2> QED
    BY <2>1, <2>2, <2>3, <2>5, <2>6
<1> QED
  BY <1>4, <1>5

-----------------------------------------------------------------------------
(* The rounds.                                                             *)

\* Between two rounds, in the words of the lemmas.
Narrowed ==
    pc = "rounds" =>
        /\ Len(temp) = 2^i
        /\ \A a \in 0 .. 2^i - 1 :
               temp[a + 1] = Part(wanted, InvertMod(2^Log(m)), i, a)

LEMMA NarrowedRounds == Narrowed <=> RoundsNarrowDown
BY DEF Narrowed, RoundsNarrowDown, Part

LEMMA PartType ==
    ASSUME NEW r \in 0 .. Degree + 1, NEW w \in Nat, NEW v \in Nat, NEW a \in Int
    PROVE  Part(w, v, r, a) \in Poly
<1>1. 2^r * v \in Nat /\ w - a \in Int /\ 0 \in Nat /\ 0 \in Int
  <2>1. 2^r \in Nat
    BY PowerType
  <2> QED
    BY <2>1
<1> QED
  BY <1>1, MonomialFacts DEF Part

\* What the lemmas need of a state.
LEMMA StateFacts ==
    ASSUME m \in Sizes, wanted \in 0 .. m - 1
    PROVE  /\ Log(m) \in 1 .. Degree
           /\ m \in Nat /\ m <= Degree /\ m <= 2^Log(m) /\ 2^(Log(m) - 1) < m
           /\ wanted \in Nat /\ wanted \in 0 .. Degree - 1
           /\ InvertMod(2^Log(m)) \in Nat
           /\ (2^Log(m) * InvertMod(2^Log(m))) % T = 1
           /\ \E D \in 1 .. Degree : Degree = 2^D /\ Log(m) <= D
<1>1. m \in 2 .. Degree
  BY Constants
<1>2. Log(m) \in 1 .. Degree /\ m <= 2^Log(m) /\ 2^(Log(m) - 1) < m
  BY <1>1, LogFacts
<1>3. InvertMod(2^Log(m)) \in 1 .. T - 1 /\ (2^Log(m) * InvertMod(2^Log(m))) % T = 1
  <2>1. Log(m) \in 0 .. Degree + 1
    BY <1>2, Constants
  <2> QED
    BY <2>1, InverseFacts
<1>4. PICK D \in 1 .. Degree : Degree = 2^D
  BY ExpandAssumption
<1>5. Log(m) <= D
  BY <1>1, <1>4, RoundBound
<1> QED
  BY <1>1, <1>2, <1>3, <1>4, <1>5, Constants

LEMMA InitNarrows == Init => TypeOK /\ Narrowed /\ ExpansionSelects
<1> SUFFICES ASSUME Init PROVE TypeOK /\ Narrowed /\ ExpansionSelects
  OBVIOUS
<1> USE DEF Init
<1>1. /\ Log(m) \in 1 .. Degree /\ wanted \in Nat /\ InvertMod(2^Log(m)) \in Nat
  BY StateFacts
<1> DEFINE v == InvertMod(2^Log(m))
           p == Monomial(v, wanted)
<1>2. temp = <<p>> /\ p \in Poly
  BY <1>1, MonomialFacts
<1>3. 2^0 = 1
  BY PowersAssumption
<1>4. Part(wanted, v, 0, 0) = p
  <2>1. wanted % 2^0 = 0 /\ 2^0 * v = v /\ wanted - 0 = wanted
    BY <1>1, <1>3
  <2> QED
    BY <2>1 DEF Part
<1>5. TypeOK
  BY <1>1, <1>2, Constants DEF TypeOK
<1>6. Narrowed
  <2>1. Len(temp) = 1 /\ temp[1] = p
    BY <1>2
  <2> HIDE DEF p, v
  <2>2. \A a \in 0 .. 2^0 - 1 : a = 0
    BY <1>3
  <2> QED
    BY <1>3, <1>4, <2>1, <2>2 DEF Narrowed, v
<1>7. ExpansionSelects
  BY DEF ExpansionSelects
<1> QED
  BY <1>5, <1>6, <1>7

\* The two halves of the new list.
LEMMA RoundLists ==
    ASSUME TypeOK, Narrowed, pc = "rounds"
    PROVE  /\ i \in 0 .. Degree /\ i + 1 \in 0 .. Degree + 1
           /\ 2^i \in Nat /\ 2^i > 0 /\ 2^(i + 1) = 2 * 2^i
           /\ Len(temp) = 2^i
           /\ \A a \in 0 .. 2^i - 1 :
                  /\ temp[a + 1] = Part(wanted, InvertMod(2^Log(m)), i, a)
                  /\ Even(temp[a + 1], i) = Part(wanted, InvertMod(2^Log(m)), i + 1, a)
                  /\ Odd(temp[a + 1], i)
                     = Part(wanted, InvertMod(2^Log(m)), i + 1, a + 2^i)
<1>1. m \in Sizes /\ wanted \in 0 .. m - 1 /\ i \in 0 .. Log(m) - 1
  BY DEF TypeOK
<1>2. /\ Log(m) \in 1 .. Degree /\ wanted \in 0 .. Degree - 1
      /\ InvertMod(2^Log(m)) \in Nat
  BY <1>1, StateFacts
<1>3. PICK D \in 1 .. Degree : Degree = 2^D /\ Log(m) <= D
  BY <1>1, StateFacts
<1>4. i \in 0 .. D - 1 /\ i \in 0 .. Degree /\ i + 1 \in 0 .. Degree + 1
  BY <1>1, <1>2, <1>3, Constants
<1>5. 2^i \in Nat /\ 2^i > 0 /\ 2^(i + 1) = 2 * 2^i
  BY <1>4, PowerType, PowersAssumption, Constants
<1> DEFINE v == InvertMod(2^Log(m))
<1> HIDE DEF v
<1>6. ASSUME NEW a \in 0 .. 2^i - 1
      PROVE  /\ temp[a + 1] = Part(wanted, v, i, a)
             /\ Even(temp[a + 1], i) = Part(wanted, v, i + 1, a)
             /\ Odd(temp[a + 1], i) = Part(wanted, v, i + 1, a + 2^i)
  <2>1. temp[a + 1] = Part(wanted, v, i, a)
    BY DEF Narrowed, v
  <2>2. v \in Nat
    BY <1>2 DEF v
  <2>3. /\ Even(Part(wanted, v, i, a), i) = Part(wanted, v, i + 1, a)
        /\ Odd(Part(wanted, v, i, a), i) = Part(wanted, v, i + 1, a + 2^i)
    BY <1>2, <1>3, <1>4, <2>2, RoundHalves
  <2> QED
    BY <2>1, <2>3
<1>7. Len(temp) = 2^i
  BY DEF Narrowed
<1> QED
  BY <1>4, <1>5, <1>6, <1>7 DEF v

LEMMA RoundNarrows ==
    TypeOK /\ Narrowed /\ Round => (TypeOK /\ Narrowed /\ ExpansionSelects)'
<1> SUFFICES ASSUME TypeOK, Narrowed, Round
             PROVE  TypeOK' /\ Narrowed' /\ ExpansionSelects'
  OBVIOUS
<1> DEFINE v == InvertMod(2^Log(m))
           half == 2^i
<1>1. /\ pc = "rounds" /\ pc' = "rounds" /\ i' = i + 1 /\ i < Log(m) - 1
      /\ m' = m /\ wanted' = wanted
  BY DEF Round
<1>2. /\ i \in 0 .. Degree /\ i + 1 \in 0 .. Degree + 1
      /\ half \in Nat /\ half > 0 /\ 2^(i + 1) = 2 * half
      /\ Len(temp) = half
  BY <1>1, RoundLists
<1>3. \A a \in 0 .. half - 1 :
          /\ Even(temp[a + 1], i) = Part(wanted, v, i + 1, a)
          /\ Odd(temp[a + 1], i) = Part(wanted, v, i + 1, a + half)
  BY <1>1, RoundLists
<1>4. m \in Sizes /\ wanted \in 0 .. m - 1 /\ i \in 0 .. Log(m) - 1 /\ wanted \in Nat
      /\ v \in Nat /\ Log(m) \in Nat
  <2>1. m \in Sizes /\ wanted \in 0 .. m - 1 /\ i \in 0 .. Log(m) - 1
    BY DEF TypeOK
  <2>a. Log(m) \in 1 .. Degree
    BY <2>1, StateFacts
  <2>b. wanted \in Nat
    BY <2>1, StateFacts
  <2>2. wanted \in Nat /\ Log(m) \in Nat
    BY <2>a, <2>b
  <2>3. InvertMod(2^Log(m)) \in Nat
    BY <2>1, StateFacts
  <2> HIDE DEF half
  <2> QED
    BY <2>1, <2>2, <2>3
<1> HIDE DEF v, half
<1>5. temp' = [a \in 1 .. 2 * half |->
                  IF a <= half THEN Even(temp[a], i) ELSE Odd(temp[a - half], i)]
  BY <1>2 DEF Round
<1>6. ASSUME NEW a \in 0 .. 2 * half - 1
      PROVE  temp'[a + 1] = Part(wanted, v, i + 1, a)
  <2>1. a + 1 \in 1 .. 2 * half
    BY <1>2
  <2>2. CASE a + 1 <= half
    <3>1. a \in 0 .. half - 1
      BY <1>2, <2>2
    <3> QED
      BY <1>3, <1>5, <2>1, <2>2, <3>1
  <2>3. CASE ~ (a + 1 <= half)
    <3> DEFINE b == a - half
    <3>1. b \in 0 .. half - 1 /\ a + 1 - half = b + 1 /\ b + half = a
      BY <1>2, <2>3
    <3>2. temp'[a + 1] = Odd(temp[b + 1], i)
      <4> DEFINE place == a + 1
      <4>1. place - half = b + 1 /\ place \in 1 .. 2 * half /\ ~ (place <= half)
        BY <1>2, <2>1, <2>3
      <4> HIDE DEF b, place
      <4>2. temp'[place] = Odd(temp[place - half], i)
        BY <1>5, <4>1
      <4> QED
        BY <4>1, <4>2 DEF place
    <3> HIDE DEF b
    <3> QED
      BY <1>3, <3>1, <3>2
  <2> QED
    BY <2>2, <2>3
<1>7. temp' \in Seq(Poly) /\ Len(temp') = 2 * half
  <2>1. ASSUME NEW a \in 1 .. 2 * half PROVE temp'[a] \in Poly
    <3>1. a - 1 \in 0 .. 2 * half - 1 /\ a - 1 + 1 = a /\ a - 1 \in Int
      BY <1>2
    <3>2. Part(wanted, v, i + 1, a - 1) \in Poly
      BY <1>2, <1>4, <3>1, PartType
    <3> QED
      BY <1>6, <3>1, <3>2
  <2>2. temp' = [a \in 1 .. 2 * half |-> temp'[a]] /\ 2 * half \in Nat
    BY <1>2, <1>5
  <2> DEFINE new == temp'
  <2> HIDE DEF new
  <2>3. new \in [1 .. 2 * half -> Poly] /\ 2 * half \in Nat
    BY <2>1, <2>2 DEF new
  <2> QED
    BY <2>3 DEF new
<1>8. TypeOK'
  <2>1. i' \in 0 .. Log(m') - 1
    BY <1>1, <1>4
  <2> QED
    BY <1>1, <1>4, <1>7, <2>1 DEF TypeOK
<1>9. Narrowed'
  <2>1. 2^(i') = 2 * half /\ InvertMod(2^Log(m')) = v
    BY <1>1, <1>2 DEF v
  <2> QED
    BY <1>1, <1>6, <1>7, <2>1 DEF Narrowed
<1>10. ExpansionSelects'
  BY <1>1 DEF ExpansionSelects
<1> QED
  BY <1>8, <1>9, <1>10

LEMMA LastRoundSelects ==
    TypeOK /\ Narrowed /\ LastRound => (TypeOK /\ Narrowed /\ ExpansionSelects)'
<1> SUFFICES ASSUME TypeOK, Narrowed, LastRound
             PROVE  TypeOK' /\ Narrowed' /\ ExpansionSelects'
  OBVIOUS
<1> DEFINE v == InvertMod(2^Log(m))
           half == 2^i
           One(j) == Monomial(IF j = wanted THEN 1 ELSE 0, 0)
<1>1. /\ pc = "rounds" /\ pc' = "done" /\ i' = i /\ i = Log(m) - 1
      /\ m' = m /\ wanted' = wanted
  BY DEF LastRound
<1>2. /\ i \in 0 .. Degree /\ i + 1 \in 0 .. Degree + 1
      /\ half \in Nat /\ half > 0 /\ 2^(i + 1) = 2 * half
      /\ Len(temp) = half
  BY <1>1, RoundLists
<1>3. \A a \in 0 .. half - 1 :
          /\ temp[a + 1] = Part(wanted, v, i, a)
          /\ Even(temp[a + 1], i) = Part(wanted, v, i + 1, a)
          /\ Odd(temp[a + 1], i) = Part(wanted, v, i + 1, a + half)
  BY <1>1, RoundLists
<1>4. m \in Sizes /\ wanted \in 0 .. m - 1 /\ i \in 0 .. Log(m) - 1
  BY DEF TypeOK
<1>5. /\ m \in Nat /\ wanted \in Nat /\ v \in Nat /\ Log(m) \in Nat
      /\ m <= 2^Log(m) /\ (2^Log(m) * v) % T = 1
  <2>a. Log(m) \in 1 .. Degree
    BY <1>4, StateFacts
  <2>b. wanted \in Nat
    BY <1>4, StateFacts
  <2>c. m \in Nat
    BY <1>4, StateFacts
  <2>d. m <= 2^Log(m)
    BY <1>4, StateFacts
  <2>1. m \in Nat /\ wanted \in Nat /\ Log(m) \in Nat /\ m <= 2^Log(m)
    BY <2>a, <2>b, <2>c, <2>d
  <2>2. InvertMod(2^Log(m)) \in Nat
    BY <1>4, StateFacts
  <2>3. (2^Log(m) * InvertMod(2^Log(m))) % T = 1
    BY <1>4, StateFacts
  <2> QED
    BY <2>1, <2>2, <2>3
<1>6. Log(m) = i + 1 /\ m <= 2 * half /\ (2 * half * v) % T = 1
      /\ 2^(Log(m) - 1) = half
  BY <1>1, <1>2, <1>5
<1> HIDE DEF v, half
<1>7. temp' = [a \in 1 .. m |->
                  IF a <= half
                  THEN IF a - 1 < m - half THEN Even(temp[a], i) ELSE Scaled(2, temp[a])
                  ELSE Odd(temp[a - half], i)]
  BY <1>2, <1>6 DEF LastRound, HasPartner
\* The factors of 2 make up for what the client divided by.
<1>8. Monomial(2 * half * v, 0) = Monomial(1, 0)
  <2>1. (2 * half * v) % T = 1 % T
    BY <1>6, Constants
  <2> QED
    BY <2>1 DEF Monomial
<1>9. ASSUME NEW j \in 0 .. m - 1 PROVE Part(wanted, v, i + 1, j) = One(j)
  <2>1. wanted % (2 * half) = wanted
    <3> DEFINE b == 2 * half
    <3>1. b \in Nat \ {0} /\ 0 \in Int /\ wanted \in 0 .. b - 1 /\ wanted = 0 * b + wanted
      BY <1>2, <1>4, <1>5, <1>6
    <3> HIDE DEF b
    <3>2. wanted % b = wanted
      BY <3>1, DivMod
    <3> QED
      BY <3>2 DEF b
  <2>2. Part(wanted, v, i + 1, j) =
            IF wanted = j THEN Monomial(2 * half * v, wanted - j) ELSE Monomial(0, 0)
    BY <1>2, <2>1 DEF Part
  <2>3. wanted = j => wanted - j = 0
    BY <1>5
  <2> QED
    BY <1>8, <2>2, <2>3
<1>10. ASSUME NEW j \in 0 .. m - 1 PROVE temp'[j + 1] = One(j)
  <2>1. j + 1 \in 1 .. m /\ j + 1 - 1 = j
    BY <1>5
  <2>2. CASE j + 1 <= half /\ j < m - half
    <3>1. j \in 0 .. half - 1
      BY <1>2, <1>5, <2>2
    <3>2. temp'[j + 1] = Even(temp[j + 1], i)
      BY <1>7, <2>1, <2>2
    <3> QED
      BY <1>3, <1>9, <3>1, <3>2
  <2>3. CASE j + 1 <= half /\ ~ (j < m - half)
    <3>1. j \in 0 .. half - 1
      BY <1>2, <1>5, <2>3
    <3>2. temp'[j + 1] = Scaled(2, temp[j + 1])
      BY <1>7, <2>1, <2>3
    <3>3. temp[j + 1] = Part(wanted, v, i, j)
      BY <1>3, <3>1
    \* Below the places that have a partner the index is its own remainder.
    <3>4. wanted % half = j <=> wanted = j
      <4>1. PICK q \in Int, a \in 0 .. half - 1 : wanted = q * half + a /\ wanted % half = a
        <5>1. half \in Nat \ {0} /\ wanted \in Int
          BY <1>2, <1>5
        <5> QED
          BY <5>1, Remainder
      <4>2. wanted < half + j
        BY <1>2, <1>4, <1>5, <2>3, <3>1
      <4>3. ASSUME a = j PROVE q = 0
        <5>1. q >= 1 => q * half >= half
          BY <1>2
        <5>2. q <= -1 => q * half <= -half
          BY <1>2
        <5>3. q * half \in Int
          BY <1>2
        <5> QED
          BY <1>2, <1>5, <3>1, <4>1, <4>2, <4>3, <5>1, <5>2, <5>3
      <4>4. ASSUME wanted = j PROVE wanted % half = j
        <5>1. half \in Nat \ {0} /\ 0 \in Int /\ j = 0 * half + j
          BY <1>2, <3>1
        <5>2. j % half = j
          BY <3>1, <5>1, DivMod
        <5> QED
          BY <4>4, <5>2
      <4>5. ASSUME a = j PROVE wanted = j
        <5>1. 0 * half = 0
          BY <1>2
        <5> QED
          BY <3>1, <4>1, <4>3, <4>5, <5>1
      <4> QED
        BY <4>1, <4>4, <4>5
    <3>5. half * v \in Nat /\ 2 * (half * v) = 2 * half * v /\ 0 \in Nat /\ 0 \in Int
          /\ 2 * 0 = 0
      BY <1>2, <1>5
    <3>6. Part(wanted, v, i, j) =
              IF wanted = j THEN Monomial(half * v, 0) ELSE Monomial(0, 0)
      <4>1. wanted = j => wanted - j = 0
        BY <1>5
      <4> QED
        BY <3>4, <4>1 DEF Part, half
    <3>7. /\ Scaled(2, Monomial(half * v, 0)) = Monomial(2 * half * v, 0)
          /\ Scaled(2, Monomial(0, 0)) = Monomial(0, 0)
      <4>1. \A c \in Nat, k \in Int : Scaled(2, Monomial(c, k)) = Monomial(2 * c, k)
        BY MonomialFacts
      <4> DEFINE c == half * v
      <4>2. c \in Nat /\ 2 * half * v = 2 * c
        BY <3>5
      <4> HIDE DEF c
      <4>3. Scaled(2, Monomial(c, 0)) = Monomial(2 * c, 0)
            /\ Scaled(2, Monomial(0, 0)) = Monomial(2 * 0, 0)
        BY <3>5, <4>1, <4>2
      <4> QED
        BY <3>5, <4>2, <4>3 DEF c
    <3> QED
      BY <1>8, <3>2, <3>3, <3>6, <3>7
  <2>4. CASE ~ (j + 1 <= half)
    <3> DEFINE b == j - half
    <3>1. b \in 0 .. half - 1 /\ j + 1 - half = b + 1 /\ b + half = j
      BY <1>2, <1>5, <1>6, <2>4
    <3>2. temp'[j + 1] = Odd(temp[b + 1], i)
      <4> DEFINE place == j + 1
      <4>1. place - half = b + 1 /\ place \in 1 .. m /\ ~ (place <= half)
        BY <1>2, <1>5, <2>1, <2>4
      <4> HIDE DEF b, place
      <4>2. temp'[place] = Odd(temp[place - half], i)
        BY <1>7, <4>1
      <4> QED
        BY <4>1, <4>2 DEF place
    <3> HIDE DEF b
    <3>3. temp'[j + 1] = Part(wanted, v, i + 1, j)
      BY <1>3, <3>1, <3>2
    <3> QED
      BY <1>9, <3>3
  <2> QED
    BY <2>2, <2>3, <2>4
<1>11. temp' \in Seq(Poly) /\ Len(temp') = m
  <2>1. ASSUME NEW a \in 1 .. m PROVE temp'[a] \in Poly
    <3>1. a - 1 \in 0 .. m - 1 /\ a - 1 + 1 = a
      BY <1>5
    <3>2. One(a - 1) \in Poly
      BY MonomialFacts
    <3>3. temp'[a - 1 + 1] = One(a - 1)
      BY <1>10, <3>1
    <3> HIDE DEF One
    <3> QED
      BY <3>1, <3>2, <3>3
  <2>2. temp' = [a \in 1 .. m |-> temp'[a]]
    BY <1>7
  <2> DEFINE new == temp'
  <2> HIDE DEF new
  <2>3. new \in [1 .. m -> Poly]
    BY <2>1, <2>2 DEF new
  <2> QED
    BY <1>5, <2>3 DEF new
<1>12. TypeOK'
  BY <1>1, <1>4, <1>11 DEF TypeOK
<1>13. Narrowed'
  BY <1>1 DEF Narrowed
<1>14. ExpansionSelects'
  <2>1. Len(temp') = m' /\ \A j \in 0 .. m' - 1 : temp'[j + 1] = One(j)
    BY <1>1, <1>10, <1>11
  <2> QED
    BY <1>1, <2>1 DEF ExpansionSelects
<1> QED
  BY <1>12, <1>13, <1>14

\* The three together are inductive as they stand.
LEMMA ExpansionInductive ==
    Spec => [](TypeOK /\ Narrowed /\ ExpansionSelects)
<1>1. Init => TypeOK /\ Narrowed /\ ExpansionSelects
  BY InitNarrows
<1>2. ASSUME TypeOK, Narrowed, ExpansionSelects, [Next]_vars
      PROVE  TypeOK' /\ Narrowed' /\ ExpansionSelects'
  <2>1. CASE Round
    BY <1>2, <2>1, RoundNarrows
  <2>2. CASE LastRound
    BY <1>2, <2>2, LastRoundSelects
  <2>3. CASE UNCHANGED vars
    BY <1>2, <2>3 DEF TypeOK, Narrowed, ExpansionSelects, vars
  <2> QED
    BY <1>2, <2>1, <2>2, <2>3 DEF Next
<1> QED
  BY <1>1, <1>2, PTL DEF Spec

-----------------------------------------------------------------------------
\* The list stays a list of polynomials of the ring, and there are no more
\* rounds than the number of plaintexts has binary digits.
THEOREM ExpansionTypeCorrect == Spec => []TypeOK
BY ExpansionInductive, PTL

\* The comment at pir_server.cpp:336, for every degree and every number of
\* plaintexts: between two rounds of expand_query the ciphertext whose place
\* agrees with the index asked for holds the monomial, and the others are zero.
THEOREM RoundsAlwaysNarrowDown == Spec => []RoundsNarrowDown
<1>1. Narrowed => RoundsNarrowDown
  BY NarrowedRounds
<1> QED
  BY <1>1, ExpansionInductive, PTL

\* What expand_query returns selects the plaintext asked for and no other,
\* also where the number of plaintexts is not a power of 2 and the last round
\* doubles the ciphertexts that have no partner.
THEOREM ExpansionAlwaysSelects == Spec => []ExpansionSelects
BY ExpansionInductive, PTL

=============================================================================
