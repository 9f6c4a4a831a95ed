---------------------------- MODULE PirCodecProofs ----------------------------
(***************************************************************************)
(* Ads are read back from the coefficients they were packed into, for any  *)
(* usable bits of a coefficient, size and contents of an ad, and number of *)
(* slots.  Both loops move bits: the invariants say of a byte, a           *)
(* coefficient or what is left of either which bits of the ad it has, and  *)
(* where.  The lemmas before them say what a shift, a remainder and | do   *)
(* to a bit.                                                               *)
(***************************************************************************)
EXTENDS PirCodec, WellFoundedInduction, TLAPS

-----------------------------------------------------------------------------
(* The bits of an ad.                                                      *)

\* The n-th bit, the most significant of each byte first, and zeros after them.
AdBit(bytes, n) ==
    IF n < 8 * EleSize THEN Bit(bytes[n \div 8 + 1], 7 - (n % 8)) ELSE 0

\* The last k bits of x are those of the ad after the first from.
Ends(x, bytes, from, k) ==
    \A n \in 0 .. k - 1 : Bit(x, n) = AdBit(bytes, from + k - 1 - n)

\* x is what these bits are as a number.
Holds(x, bytes, from, k) == x \in Nat /\ x < 2^k /\ Ends(x, bytes, from, k)

\* Of the last width bits of x the first k are those of the ad.
Starts(x, width, bytes, from, k) ==
    \A n \in width - k .. width - 1 : Bit(x, n) = AdBit(bytes, from + width - 1 - n)

NoAd == [b \in 1 .. EleSize |-> 0]

Content(e) == IF e <= Len(ads) THEN ads[e] ELSE NoAd

-----------------------------------------------------------------------------
(* The invariants.                                                         *)

PerElement == CoefficientsPerElement(limit)

PerPtxt == ElementsPerPtxt(limit)

\* How many bits of an ad coefficient t of it has.
Filled(e, t) ==
    IF e < ad \/ (e = ad /\ t < target) THEN limit
    ELSE IF e = ad /\ t = target THEN limit - room ELSE 0

Sound ==
    /\ limit \in Limits
    /\ ads \in Seq(Contents)
    /\ Len(ads) \in 1 .. PerPtxt
    /\ ad \in 1 .. Len(ads)
    /\ pc \in {"pack", "unpack"}
    /\ coeffs \in [0 .. Slots - 1 -> Nat]
    /\ \A s \in 0 .. Slots - 1 : coeffs[s] < 2^limit
    /\ output \in [0 .. SizeOut - 1 -> 0 .. 255]
    /\ src \in Nat
    /\ bitsLeft \in 0 .. 8 * EleSize

\* Packing: the bits written are those taken from the bytes.
PackPlace ==
    /\ i \in 0 .. EleSize
    /\ rest \in 0 .. 8
    /\ room \in 0 .. limit
    /\ target \in 0 .. PerElement - 1
    /\ 8 * i - rest = target * limit + limit - room
    /\ src < 256
    /\ bitsLeft = 8 * EleSize

PackBitsOf == Starts(src, 8, ads[ad], 8 * i - rest, rest)

PackCoeffs ==
    \A e \in 1 .. PerPtxt, t \in 0 .. PerElement - 1 :
        Holds(coeffs[PerElement * (e - 1) + t], Content(e), t * limit, Filled(e, t))

PackOutput == output = [b \in 0 .. SizeOut - 1 |-> 0]

Packing == PackPlace /\ PackBitsOf /\ PackCoeffs /\ PackOutput

\* Unpacking: all coefficients have their bits.
AllPacked ==
    \A e \in 1 .. PerPtxt, t \in 0 .. PerElement - 1 :
        Holds(coeffs[PerElement * (e - 1) + t], Content(e), t * limit, limit)

UnpackPlace ==
    /\ i \in 0 .. Slots
    /\ rest \in 0 .. limit
    /\ room \in 1 .. 8
    /\ target \in 0 .. SizeOut

\* What has been written, and that nothing was behind it.
Written ==
    /\ \A e \in 1 .. PerPtxt, b \in 0 .. EleSize - 1 :
           EleSize * (e - 1) + b < target => output[EleSize * (e - 1) + b] = Content(e)[b + 1]
    /\ \A p \in 0 .. SizeOut - 1 :
           p > target \/ (p = target /\ room = 8) => output[p] = 0

\* Before the first coefficient.
AtStart == i = 0 /\ target = 0 /\ room = 8 /\ rest = 0 /\ bitsLeft = 8 * EleSize

\* In coefficient t of ad e, of which taken bits have been used.
Taken == 8 * EleSize - bitsLeft

InCoeff(e, t) ==
    /\ i = PerElement * (e - 1) + t + 1
    /\ 8 * target + 8 - room = 8 * (EleSize * (e - 1)) + Taken
    /\ t * limit <= Taken
    /\ Taken + rest = Smaller(t * limit + limit, 8 * EleSize)
    /\ room < 8 /\ rest > 0 => Taken = t * limit
    /\ Taken = t * limit => src < 2^limit
    /\ Starts(src, limit, Content(e), Taken, rest)
    /\ room < 8 => Ends(output[target], Content(e), Taken - (8 - room), 8 - room)

Inside == \E e \in 1 .. PerPtxt, t \in 0 .. PerElement - 1 : InCoeff(e, t)

Unpacking ==
    /\ AllPacked /\ UnpackPlace /\ Written
    /\ target < SizeOut => AtStart \/ Inside

CodecInv ==
    /\ Sound
    /\ pc = "pack" => Packing
    /\ pc = "unpack" => Unpacking

-----------------------------------------------------------------------------
(* Numbers and powers of 2.                                                *)

LEMMA Induction ==
    ASSUME NEW S, 0 \in S, \A n \in Nat : n \in S => n + 1 \in S
    PROVE  Nat \subseteq S
<1> DEFINE R == OpToRel(<, Nat)
           Missing == Nat \ S
<1>1. IsWellFoundedOn(R, Nat)
  BY NatLessThanWellFounded
<1>2. ASSUME NEW x \in Nat, NEW y \in Nat PROVE <<y, x>> \in R <=> y < x
  BY DEF OpToRel
<1> SUFFICES ASSUME Missing # {} PROVE FALSE
  OBVIOUS
<1>3. Missing \subseteq Nat
  OBVIOUS
<1>4. PICK x \in Missing : \A y \in Missing : ~ (<<y, x>> \in R)
  <2> HIDE DEF Missing, R
  <2> QED
    BY <1>1, <1>3, WFMin
<1>5. x \in Nat /\ x # 0 /\ x \notin S
  BY <1>4
<1>6. x - 1 \in Nat /\ x - 1 < x /\ x - 1 + 1 = x
  BY <1>5
<1>7. x - 1 \notin Missing
  <2> HIDE DEF R
  <2> QED
    BY <1>2, <1>4, <1>5, <1>6
<1>8. x - 1 \in S
  BY <1>6, <1>7
<1> QED
  BY <1>5, <1>6, <1>8

LEMMA DivMod ==
    ASSUME NEW b \in Nat \ {0}, NEW q \in Nat, NEW r \in 0 .. b - 1
    PROVE  (q * b + r) % b = r /\ (q * b + r) \div b = q
OBVIOUS

LEMMA DivModParts ==
    ASSUME NEW b \in Nat \ {0}, NEW x \in Nat
    PROVE  \E q \in Nat, r \in 0 .. b - 1 :
               x = q * b + r /\ x \div b = q /\ x % b = r
<1>1. /\ x \div b \in Nat /\ x % b \in 0 .. b - 1
      /\ x = (x \div b) * b + (x % b)
  OBVIOUS
<1> QED
  BY <1>1

LEMMA MoreTimes ==
    ASSUME NEW a \in Nat, NEW b \in Nat, NEW m \in Nat, a <= b
    PROVE  a * m \in Nat /\ b * m \in Nat /\ a * m <= b * m
<1>1. PICK c \in Nat : b = a + c
  <2>1. b - a \in Nat /\ b = a + (b - a)
    OBVIOUS
  <2> QED
    BY <2>1
<1>2. b * m = a * m + c * m /\ a * m \in Nat /\ c * m \in Nat
  BY <1>1
<1> QED
  BY <1>2

\* Dividing twice is dividing by the product.
LEMMA QuotientTwice ==
    ASSUME NEW x \in Nat, NEW p \in Nat \ {0}, NEW r \in Nat \ {0}
    PROVE  (x \div p) \div r = x \div (r * p)
<1>1. PICK q \in Nat, low \in 0 .. p - 1 : x = q * p + low /\ x \div p = q
  BY DivModParts
<1>2. PICK q2 \in Nat, high \in 0 .. r - 1 : q = q2 * r + high /\ q \div r = q2
  BY DivModParts
<1>3. q * p = q2 * (r * p) + high * p
  BY <1>2
<1>4. high * p + low \in 0 .. (r * p) - 1
  <2>1. high + 1 \in Nat /\ high \in Nat /\ high + 1 <= r
    OBVIOUS
  <2>2. (high + 1) * p <= r * p /\ (high + 1) * p \in Nat /\ r * p \in Nat
    BY <2>1, MoreTimes
  <2>3. (high + 1) * p = high * p + p /\ high * p \in Nat
    BY <2>1
  <2> QED
    BY <2>2, <2>3
<1> DEFINE m == r * p
           rem == high * p + low
<1>5. m \in Nat \ {0} /\ rem \in 0 .. m - 1
  BY <1>4
<1>6. x = q2 * m + rem
  <2>1. q2 * (r * p) \in Nat /\ high * p \in Nat
    OBVIOUS
  <2> QED
    BY <1>1, <1>3, <2>1
<1>7. x \div m = q2
  <2> HIDE DEF m, rem
  <2> QED
    BY <1>5, <1>6, DivMod
<1> QED
  BY <1>1, <1>2, <1>7

\* A multiple of m is a multiple of its factors, with the quotient times the rest.
LEMMA ProductOver ==
    ASSUME NEW x \in Nat, NEW p \in Nat \ {0}, NEW r \in Nat \ {0}
    PROVE  (x * (r * p)) \div p = x * r
<1>1. x * (r * p) = (x * r) * p + 0 /\ x * r \in Nat /\ 0 \in 0 .. p - 1
  OBVIOUS
<1> DEFINE q == x * r
<1>2. (q * p + 0) \div p = q
  <2>1. q \in Nat
    BY <1>1
  <2> HIDE DEF q
  <2> QED
    BY <1>1, <2>1, DivMod
<1> QED
  BY <1>1, <1>2

LEMMA Sizes ==
    /\ WordBits \in Nat /\ WordBits >= 8
    /\ Slots \in Nat
    /\ EleSize \in Nat \ {0}
    /\ Contents \subseteq [1 .. EleSize -> 0 .. 255]
    /\ \A l \in Limits : /\ l \in Nat \ {0} /\ 2 * l <= WordBits
                         /\ l <= WordBits
                         /\ 8 * EleSize <= l * Slots
BY CodecAssumption

LEMMA PowerType == \A k \in 0 .. WordBits : 2^k \in Nat \ {0}
<1> DEFINE S == {k \in Nat : k <= WordBits => 2^k \in Nat \ {0}}
<1>1. 0 \in S
  BY PowersAssumption
<1>2. ASSUME NEW k \in Nat, k \in S PROVE k + 1 \in S
  BY <1>2, PowersAssumption, Sizes
<1>3. Nat \subseteq S
  <2> HIDE DEF S
  <2> QED
    BY <1>1, <1>2, Induction
<1> QED
  BY <1>3, Sizes

LEMMA PowerSum ==
    \A k, l \in Nat : k + l <= WordBits => 2^(k + l) = 2^k * 2^l
<1> SUFFICES ASSUME NEW k \in Nat
             PROVE  \A l \in Nat : k + l <= WordBits => 2^(k + l) = 2^k * 2^l
  OBVIOUS
<1> DEFINE S == {l \in Nat : k + l <= WordBits => 2^(k + l) = 2^k * 2^l}
<1>1. 0 \in S
  <2>1. ASSUME k <= WordBits PROVE 2^k = 2^k * 1
    BY <2>1, PowerType, Sizes
  <2>2. k + 0 = k
    OBVIOUS
  <2> QED
    BY <2>1, <2>2, PowersAssumption
<1>2. ASSUME NEW l \in Nat, l \in S PROVE l + 1 \in S
  <2> SUFFICES ASSUME k + (l + 1) <= WordBits
               PROVE  2^(k + (l + 1)) = 2^k * 2^(l + 1)
    OBVIOUS
  <2>1. /\ k + l \in 0 .. WordBits - 1 /\ l \in 0 .. WordBits - 1
        /\ k \in 0 .. WordBits /\ l \in 0 .. WordBits
        /\ k + (l + 1) = (k + l) + 1
    BY Sizes
  <2>2. 2^(k + l) = 2^k * 2^l
    BY <1>2, <2>1, Sizes
  <2>3. 2^((k + l) + 1) = 2 * 2^(k + l) /\ 2^(l + 1) = 2 * 2^l
    BY <2>1, PowersAssumption
  <2>4. 2^k \in Nat /\ 2^l \in Nat
    BY <2>1, PowerType
  <2>5. 2 * (2^k * 2^l) = 2^k * (2 * 2^l)
    BY <2>4
  <2> QED
    BY <2>1, <2>2, <2>3, <2>5
<1>3. Nat \subseteq S
  <2> HIDE DEF S
  <2> QED
    BY <1>1, <1>2, Induction
<1> QED
  BY <1>3

\* A power of 2 and what it is made of.
LEMMA PowerParts ==
    ASSUME NEW k \in Nat, NEW l \in Nat, k + l <= WordBits
    PROVE  /\ 2^k \in Nat \ {0} /\ 2^l \in Nat \ {0} /\ 2^(k + l) \in Nat \ {0}
           /\ 2^(k + l) = 2^k * 2^l
           /\ 2^k <= 2^(k + l)
<1>1. k \in 0 .. WordBits /\ l \in 0 .. WordBits /\ k + l \in 0 .. WordBits
  BY Sizes
<1>2. 2^k \in Nat \ {0} /\ 2^l \in Nat \ {0} /\ 2^(k + l) \in Nat \ {0}
  BY <1>1, PowerType
<1>3. 2^(k + l) = 2^k * 2^l
  BY PowerSum
<1>4. 1 <= 2^l /\ 1 * 2^k <= 2^l * 2^k
  BY <1>2, MoreTimes
<1> QED
  BY <1>2, <1>3, <1>4

LEMMA PowerMonotone ==
    ASSUME NEW k \in Nat, NEW l \in Nat, k <= l, l <= WordBits
    PROVE  2^k \in Nat \ {0} /\ 2^l \in Nat \ {0} /\ 2^k <= 2^l
<1>1. l - k \in Nat /\ k + (l - k) = l
  OBVIOUS
<1> QED
  BY <1>1, PowerParts

LEMMA SmallPowers == 2^0 = 1 /\ 2^1 = 2 /\ 2^8 = 256
<1>1. 2^0 = 1 /\ \A k \in 0 .. 7 : 2^(k + 1) = 2 * 2^k
  BY PowersAssumption, Sizes
<1>2. 2^(0 + 1) = 2 * 2^0 /\ 2^(1 + 1) = 2 * 2^1 /\ 2^(2 + 1) = 2 * 2^2
  BY <1>1
<1>3. 2^(3 + 1) = 2 * 2^3 /\ 2^(4 + 1) = 2 * 2^4 /\ 2^(5 + 1) = 2 * 2^5
  BY <1>1
<1>4. 2^(6 + 1) = 2 * 2^6 /\ 2^(7 + 1) = 2 * 2^7
  BY <1>1
<1>5. /\ 0 + 1 = 1 /\ 1 + 1 = 2 /\ 2 + 1 = 3 /\ 3 + 1 = 4
      /\ 4 + 1 = 5 /\ 5 + 1 = 6 /\ 6 + 1 = 7 /\ 7 + 1 = 8
  OBVIOUS
<1>6. 2^1 = 2 /\ 2^2 = 4 /\ 2^3 = 8 /\ 2^4 = 16
  BY <1>1, <1>2, <1>3, <1>5
<1> QED
  BY <1>1, <1>3, <1>4, <1>5, <1>6

-----------------------------------------------------------------------------
(* What shifts and remainders do to a bit.                                 *)

LEMMA BitType ==
    ASSUME NEW x \in Nat, NEW n \in 0 .. WordBits
    PROVE  Bit(x, n) \in {0, 1}
<1>1. 2^n \in Nat \ {0}
  BY PowerType
<1> DEFINE p == 2^n
<1>2. (x \div p) % 2 \in {0, 1}
  <2>1. p \in Nat \ {0}
    BY <1>1
  <2> HIDE DEF p
  <2>2. x \div p \in Nat
    BY <2>1
  <2> QED
    BY <2>2
<1> QED
  BY <1>2 DEF Bit

LEMMA BitOfZero == \A n \in 0 .. WordBits : Bit(0, n) = 0
<1> TAKE n \in 0 .. WordBits
<1>1. 2^n \in Nat \ {0}
  BY PowerType
<1> DEFINE p == 2^n
<1>2. 0 \div p = 0
  <2>1. p \in Nat \ {0}
    BY <1>1
  <2> HIDE DEF p
  <2> QED
    BY <2>1
<1>3. Bit(0, n) = 0 % 2
  BY <1>2 DEF Bit
<1> QED
  BY <1>3

\* Shifted to the left: zeros come in, the others move up.
LEMMA BitShiftLeft ==
    ASSUME NEW x \in Nat, NEW s \in 0 .. WordBits, NEW n \in 0 .. WordBits
    PROVE  /\ x * 2^s \in Nat
           /\ n < s => Bit(x * 2^s, n) = 0
           /\ n >= s => Bit(x * 2^s, n) = Bit(x, n - s)
<1>1. 2^s \in Nat \ {0} /\ 2^n \in Nat \ {0}
  BY PowerType
<1>2. x * 2^s \in Nat
  BY <1>1
<1>3. ASSUME n < s PROVE Bit(x * 2^s, n) = 0
  <2>1. /\ s - n - 1 \in Nat /\ (s - n - 1) + 1 = s - n /\ s - n \in Nat
        /\ n \in Nat /\ n + (s - n) = s /\ s - n <= WordBits /\ s <= WordBits
        /\ s - n - 1 \in 0 .. WordBits - 1 /\ s - n - 1 \in 0 .. WordBits
    BY <1>3, Sizes
  <2>2. 2^s = 2^n * 2^(s - n) /\ 2^(s - n) \in Nat \ {0}
    BY <2>1, PowerParts
  <2>3. 2^((s - n - 1) + 1) = 2 * 2^(s - n - 1)
    BY <2>1, PowersAssumption
  <2>4. 2^(s - n) = 2 * 2^(s - n - 1) /\ 2^(s - n - 1) \in Nat
    BY <2>1, <2>3, PowerType
  <2> DEFINE p == 2^n
             half == 2^(s - n - 1)
             q == x * (2 * half)
  <2>5. p \in Nat \ {0} /\ 2 * half \in Nat \ {0} /\ half \in Nat /\ 2^s = p * (2 * half)
    BY <1>1, <2>2, <2>4
  <2>6. (x * 2^s) \div p = x * (2 * half)
    <3> HIDE DEF p, half
    <3>1. p * (2 * half) = (2 * half) * p
      BY <2>5
    <3>2. (x * ((2 * half) * p)) \div p = x * (2 * half)
      BY <2>5, ProductOver
    <3> QED
      BY <2>5, <3>1, <3>2
  <2>7. (x * (2 * half)) % 2 = 0
    <3> HIDE DEF half
    <3>1. x * (2 * half) = (x * half) * 2 + 0 /\ x * half \in Nat /\ 0 \in 0 .. 2 - 1
      BY <2>5
    <3> DEFINE h == x * half
    <3>2. h \in Nat
      BY <3>1
    <3>3. (h * 2 + 0) % 2 = 0
      <4> HIDE DEF h
      <4> QED
        BY <3>1, <3>2, DivMod
    <3> QED
      BY <3>1, <3>3
  <2> QED
    BY <2>6, <2>7 DEF Bit
<1>4. ASSUME n >= s PROVE Bit(x * 2^s, n) = Bit(x, n - s)
  <2>1. n - s \in Nat /\ s \in Nat /\ (n - s) + s = n /\ n <= WordBits
    BY <1>4, Sizes
  <2>2. 2^n = 2^(n - s) * 2^s /\ 2^(n - s) \in Nat \ {0}
    BY <2>1, PowerParts
  <2> DEFINE p == 2^s
             r == 2^(n - s)
             y == x * p
  <2>3. p \in Nat \ {0} /\ r \in Nat \ {0} /\ 2^n = r * p /\ y \in Nat
    BY <1>1, <1>2, <2>2
  <2>4. y \div (r * p) = x \div r
    <3>1. y = x * p + 0 /\ 0 \in 0 .. p - 1
      BY <2>3
    <3> HIDE DEF p, r
    <3>2. (x * p + 0) \div p = x
      BY <2>3, <3>1, DivMod
    <3> HIDE DEF y
    <3>3. (y \div p) \div r = y \div (r * p)
      BY <2>3, QuotientTwice
    <3> QED
      BY <3>1, <3>2, <3>3
  <2> QED
    BY <2>3, <2>4 DEF Bit
<1> QED
  BY <1>2, <1>3, <1>4

\* Shifted to the right: the bits move down.
LEMMA BitShiftRight ==
    ASSUME NEW x \in Nat, NEW s \in Nat, NEW n \in Nat, n + s <= WordBits
    PROVE  /\ x \div 2^s \in Nat
           /\ Bit(x \div 2^s, n) = Bit(x, n + s)
<1>1. 2^s \in Nat \ {0} /\ 2^n \in Nat \ {0} /\ 2^(n + s) = 2^n * 2^s
  BY PowerParts
<1> DEFINE p == 2^s
           r == 2^n
<1>2. p \in Nat \ {0} /\ r \in Nat \ {0}
  BY <1>1
<1>3. (x \div p) \div r = x \div (r * p) /\ x \div p \in Nat
  <2> HIDE DEF p, r
  <2> QED
    BY <1>2, QuotientTwice
<1> QED
  BY <1>1, <1>3 DEF Bit

\* A number below a power of 2 has no bits from there on.
LEMMA BitAbove ==
    ASSUME NEW x \in Nat, NEW m \in Nat, NEW n \in Nat, m <= n, n <= WordBits, x < 2^m
    PROVE  Bit(x, n) = 0
<1>1. 2^n \in Nat \ {0} /\ 2^m \in Nat /\ 2^m <= 2^n
  BY PowerMonotone
<1> DEFINE p == 2^n
<1>2. p \in Nat \ {0} /\ x \in 0 .. p - 1
  BY <1>1
<1>3. x \div p = 0
  <2> HIDE DEF p
  <2>1. (0 * p + x) \div p = 0 /\ 0 * p + x = x
    BY <1>2, DivMod
  <2> QED
    BY <2>1
<1>4. Bit(x, n) = 0 % 2
  BY <1>3 DEF Bit
<1> QED
  BY <1>4

\* The remainder by a power of 2 keeps the bits below it.
LEMMA BitRemainder ==
    ASSUME NEW x \in Nat, NEW m \in Nat, NEW n \in Nat, m <= WordBits, n <= WordBits
    PROVE  /\ (x % 2^m) \in Nat /\ (x % 2^m) < 2^m
           /\ n < m => Bit((x % 2^m), n) = Bit(x, n)
           /\ n >= m => Bit((x % 2^m), n) = 0
<1>1. 2^m \in Nat \ {0} /\ 2^n \in Nat \ {0}
  BY PowerType, Sizes
<1>2. PICK q \in Nat, r \in 0 .. 2^m - 1 : x = q * 2^m + r /\ (x % 2^m) = r
  <2> DEFINE p == 2^m
  <2>1. p \in Nat \ {0}
    BY <1>1
  <2>2. \E q \in Nat, r \in 0 .. p - 1 : x = q * p + r /\ (x % p) = r
    <3> HIDE DEF p
    <3> QED
      BY <2>1, DivModParts
  <2> QED
    BY <2>2
<1>3. r \in Nat /\ r < 2^m
  BY <1>1
<1>4. ASSUME n >= m PROVE Bit(r, n) = 0
  BY <1>3, <1>4, BitAbove
<1>5. ASSUME n < m PROVE Bit(r, n) = Bit(x, n)
  <2>1. /\ m - n - 1 \in Nat /\ (m - n - 1) + 1 = m - n /\ m - n \in Nat
        /\ n + (m - n) = m /\ m - n - 1 \in 0 .. WordBits - 1
        /\ m - n - 1 \in 0 .. WordBits
    BY <1>5, Sizes
  <2>2. 2^m = 2^n * 2^(m - n) /\ 2^(m - n) \in Nat \ {0}
    BY <2>1, PowerParts
  <2>3. 2^((m - n - 1) + 1) = 2 * 2^(m - n - 1)
    BY <2>1, PowersAssumption
  <2>4. 2^(m - n) = 2 * 2^(m - n - 1) /\ 2^(m - n - 1) \in Nat
    BY <2>1, <2>3, PowerType
  <2> DEFINE p == 2^n
             half == 2^(m - n - 1)
  <2>5. p \in Nat \ {0} /\ half \in Nat /\ x = q * (p * (2 * half)) + r
    BY <1>1, <1>2, <2>2, <2>4
  <2> HIDE DEF p, half
  <2>6. PICK q2 \in Nat, low \in 0 .. p - 1 : r = q2 * p + low /\ r \div p = q2
    BY <1>3, <2>5, DivModParts
  <2> DEFINE more == q * (2 * half) + q2
             h == q * half
  <2>7. h \in Nat /\ more \in Nat /\ more = 2 * h + q2 /\ x = more * p + low
    <3>1. q * (p * (2 * half)) = (2 * h) * p /\ h \in Nat /\ q * (2 * half) = 2 * h
      BY <2>5
    <3> HIDE DEF h
    <3>2. (2 * h) * p + q2 * p = (2 * h + q2) * p
      BY <2>5, <3>1
    <3> DEFINE hp == (2 * h) * p
               qp == q2 * p
    <3>3. hp \in Nat /\ qp \in Nat /\ x = hp + (qp + low) /\ hp + qp = (2 * h + q2) * p
      BY <2>5, <2>6, <3>1, <3>2
    <3> HIDE DEF hp, qp
    <3>4. x = (hp + qp) + low
      BY <2>5, <3>3
    <3> QED
      BY <3>1, <3>3, <3>4
  <2>8. x \div p = more
    <3> HIDE DEF more
    <3> QED
      BY <2>5, <2>7, DivMod
  <2>9. more % 2 = q2 % 2
    <3> HIDE DEF more, h
    <3> QED
      BY <2>7
  <2> QED
    BY <2>6, <2>8, <2>9 DEF Bit, p
<1> QED
  BY <1>2, <1>3, <1>4, <1>5

\* The highest bit and the rest.
LEMMA HighestBit ==
    ASSUME NEW x \in Nat, NEW m \in Nat, m + 1 <= WordBits, x < 2^(m + 1)
    PROVE  x = Bit(x, m) * 2^m + (x % 2^m)
<1>1. 2^m \in Nat \ {0} /\ 2^(m + 1) = 2 * 2^m
  BY PowerType, PowersAssumption, Sizes
<1> DEFINE p == 2^m
<1>2. p \in Nat \ {0} /\ x < 2 * p
  BY <1>1
<1>3. Bit(x, m) = (x \div p) % 2
  BY DEF Bit
<1> HIDE DEF p
<1>4. PICK q \in Nat, r \in 0 .. p - 1 : x = q * p + r /\ x \div p = q /\ (x % p) = r
  BY <1>2, DivModParts
<1>5. q \in {0, 1}
  <2> SUFFICES ASSUME 2 <= q PROVE FALSE
    BY <1>4
  <2>1. 2 * p <= q * p /\ q * p \in Nat
    BY <1>2, MoreTimes
  <2> QED
    BY <1>2, <1>4, <2>1
<1>6. q % 2 = q
  BY <1>5
<1> QED
  BY <1>3, <1>4, <1>6 DEF p

\* A number whose bits are zero from k on is below 2^k.
LEMMA BoundFromBits ==
    ASSUME NEW x \in Nat, NEW k \in Nat, k <= WordBits, x < 2^WordBits,
           \A n \in k .. WordBits - 1 : Bit(x, n) = 0
    PROVE  x < 2^k
<1> DEFINE S == {d \in Nat : d <= WordBits - k => x < 2^(WordBits - d)}
<1>1. 0 \in S
  <2>1. WordBits - 0 = WordBits
    BY Sizes
  <2> QED
    BY <2>1
<1>2. ASSUME NEW d \in Nat, d \in S PROVE d + 1 \in S
  <2> SUFFICES ASSUME d + 1 <= WordBits - k PROVE x < 2^(WordBits - (d + 1))
    OBVIOUS
  <2> DEFINE m == WordBits - (d + 1)
  <2>1. /\ m \in Nat /\ m + 1 <= WordBits /\ m + 1 = WordBits - d
        /\ m \in k .. WordBits - 1 /\ m \in 0 .. WordBits /\ d <= WordBits - k
    BY Sizes
  <2>2. x < 2^(m + 1) /\ Bit(x, m) = 0
    BY <1>2, <2>1
  <2> HIDE DEF m
  <2>3. x = Bit(x, m) * 2^m + (x % 2^m) /\ 2^m \in Nat \ {0}
    BY <2>1, <2>2, HighestBit, PowerType
  <2>4. (x % 2^m) \in Nat /\ (x % 2^m) < 2^m
    BY <2>1, BitRemainder
  <2>5. 0 * 2^m = 0
    BY <2>3
  <2>6. x < 2^m
    BY <2>2, <2>3, <2>4, <2>5
  <2> QED
    BY <2>6 DEF m
<1>3. Nat \subseteq S
  <2> HIDE DEF S
  <2> QED
    BY <1>1, <1>2, Induction
<1>4. WordBits - k \in Nat /\ WordBits - (WordBits - k) = k
  BY Sizes
<1> QED
  BY <1>3, <1>4

\* Numbers with the same bits are the same.
SameBits(m) ==
    \A x, y \in Nat :
        /\ x < 2^m /\ y < 2^m
        /\ \A n \in 0 .. m - 1 : Bit(x, n) = Bit(y, n)
        => x = y

LEMMA BitsDetermine ==
    ASSUME NEW k \in Nat, k <= WordBits
    PROVE  SameBits(k)
<1> DEFINE S == {m \in Nat : m <= WordBits => SameBits(m)}
<1>1. 0 \in S
  <2>1. SameBits(0)
    BY SmallPowers DEF SameBits
  <2> QED
    BY <2>1
<1>2. ASSUME NEW m \in Nat, m \in S PROVE m + 1 \in S
  <2> SUFFICES ASSUME m + 1 <= WordBits PROVE SameBits(m + 1)
    OBVIOUS
  <2>1. SameBits(m) /\ m <= WordBits /\ m \in 0 .. m
    BY <1>2, Sizes
  <2> SUFFICES ASSUME NEW x \in Nat, NEW y \in Nat, x < 2^(m + 1), y < 2^(m + 1),
                      \A n \in 0 .. (m + 1) - 1 : Bit(x, n) = Bit(y, n)
               PROVE  x = y
    BY DEF SameBits
  <2>2. x = Bit(x, m) * 2^m + (x % 2^m) /\ y = Bit(y, m) * 2^m + (y % 2^m)
    BY HighestBit
  <2>3. /\ (x % 2^m) \in Nat /\ (x % 2^m) < 2^m
        /\ (y % 2^m) \in Nat /\ (y % 2^m) < 2^m
    BY <2>1, BitRemainder
  <2>4. ASSUME NEW n \in 0 .. m - 1 PROVE Bit((x % 2^m), n) = Bit((y % 2^m), n)
    <3>1. n \in Nat /\ n <= WordBits /\ n < m /\ n \in 0 .. (m + 1) - 1
      BY <2>1, Sizes
    <3>2. Bit((x % 2^m), n) = Bit(x, n) /\ Bit((y % 2^m), n) = Bit(y, n)
      BY <2>1, <3>1, BitRemainder
    <3> QED
      BY <3>1, <3>2
  <2>5. (x % 2^m) = (y % 2^m)
    BY <2>1, <2>3, <2>4 DEF SameBits
  <2>6. Bit(x, m) = Bit(y, m)
    <3>1. m \in 0 .. (m + 1) - 1
      OBVIOUS
    <3> QED
      BY <3>1
  <2> QED
    BY <2>2, <2>5, <2>6
<1>3. Nat \subseteq S
  <2> HIDE DEF S
  <2> QED
    BY <1>1, <1>2, Induction
<1> QED
  BY <1>3

-----------------------------------------------------------------------------
(* x | y has a bit where x or y has.                                       *)

OrBit(x, y, n) == IF 1 \in {Bit(x, n), Bit(y, n)} THEN 1 ELSE 0

\* BitOr is the last of the numbers that start with 0 and grow by a bit each.
LEMMA OrSteps ==
    ASSUME NEW x, NEW y
    PROVE  \E low :
               /\ low = [n \in 0 .. WordBits |->
                             IF n = 0 THEN 0
                             ELSE low[n - 1] + 2^(n - 1) * OrBit(x, y, n - 1)]
               /\ BitOr(x, y) = low[WordBits]
<1> DEFINE Step(before, n) == before + 2^(n - 1) * OrBit(x, y, n - 1)
           Grows(low, m) ==
               low = [n \in 0 .. m |-> IF n = 0 THEN 0 ELSE Step(low[n - 1], n)]
           S == {m \in Nat : \E low : Grows(low, m)}
<1>0. ASSUME NEW low, NEW m
      PROVE  Grows(low, m) <=>
                 low = [n \in 0 .. m |->
                            IF n = 0 THEN 0
                            ELSE low[n - 1] + 2^(n - 1) * OrBit(x, y, n - 1)]
  OBVIOUS
<1>1. 0 \in S
  <2> DEFINE first == [n \in 0 .. 0 |-> 0]
  <2>1. \A n \in 0 .. 0 : n = 0
    OBVIOUS
  <2> HIDE DEF Step
  <2>2. Grows(first, 0)
    BY <2>1
  <2> QED
    BY <2>2
<1> HIDE DEF Step
<1>2. ASSUME NEW m \in Nat, m \in S PROVE m + 1 \in S
  <2>1. PICK low : Grows(low, m)
    BY <1>2
  <2> DEFINE more == [n \in 0 .. m + 1 |->
                          IF n <= m THEN low[n] ELSE Step(low[m], m + 1)]
             next == [n \in 0 .. m + 1 |-> IF n = 0 THEN 0 ELSE Step(more[n - 1], n)]
  <2>2. ASSUME NEW n \in 0 .. m + 1 PROVE more[n] = next[n]
    <3>1. CASE n = 0
      BY <2>1, <3>1
    <3>2. CASE n \in 1 .. m
      <4>1. n \in 0 .. m /\ n - 1 \in 0 .. m + 1 /\ n - 1 <= m /\ n # 0 /\ n <= m
        BY <3>2
      <4>2. low[n] = Step(low[n - 1], n)
        BY <2>1, <4>1
      <4>3. more[n] = low[n] /\ more[n - 1] = low[n - 1]
        BY <4>1
      <4> QED
        BY <4>1, <4>2, <4>3
    <3>3. CASE n = m + 1
      <4>1. n - 1 = m /\ m \in 0 .. m + 1 /\ ~ (n <= m) /\ n # 0 /\ m <= m
        BY <3>3
      <4>2. more[n] = Step(low[m], m + 1) /\ more[m] = low[m]
        BY <4>1
      <4> QED
        BY <3>3, <4>1, <4>2
    <3> QED
      BY <3>1, <3>2, <3>3
  <2>3. more = next
    BY <2>2
  <2>4. \E any : Grows(any, m + 1)
    <3>1. Grows(more, m + 1)
      BY <2>3
    <3> HIDE DEF more, Grows
    <3> QED
      BY <3>1
  <2> HIDE DEF Grows
  <2> QED
    BY <2>4
<1>3. WordBits \in S
  <2> HIDE DEF S
  <2> QED
    BY <1>1, <1>2, Induction, Sizes
<1>4. \E low : Grows(low, WordBits)
  BY <1>3
<1> DEFINE chosen ==
        CHOOSE low :
            low = [n \in 0 .. WordBits |->
                       IF n = 0 THEN 0
                       ELSE low[n - 1] + 2^(n - 1) * OrBit(x, y, n - 1)]
<1>5. chosen = [n \in 0 .. WordBits |->
                    IF n = 0 THEN 0
                    ELSE chosen[n - 1] + 2^(n - 1) * OrBit(x, y, n - 1)]
  BY <1>4 DEF Step
<1>6. BitOr(x, y) = chosen[WordBits]
  BY DEF BitOr, OrBit
<1> QED
  <2> HIDE DEF chosen
  <2> QED
    BY <1>5, <1>6

\* n bits of x | y.
OrUpTo(x, y, z, n) ==
    z \in Nat /\ z < 2^n /\ \A m \in 0 .. n - 1 : Bit(z, m) = OrBit(x, y, m)

LEMMA OrGrows ==
    ASSUME NEW x, NEW y, NEW z, NEW n \in Nat, n + 1 <= WordBits, OrUpTo(x, y, z, n)
    PROVE  OrUpTo(x, y, z + 2^n * OrBit(x, y, n), n + 1)
<1> DEFINE p == 2^n
           b == OrBit(x, y, n)
           more == z + 2^n * b
<1>1. p \in Nat \ {0} /\ 2^(n + 1) = 2 * p
  BY PowerType, PowersAssumption, Sizes
<1>2. b \in {0, 1}
  BY DEF OrBit
<1>3. z \in 0 .. p - 1
  BY <1>1 DEF OrUpTo
<1>4. more \in Nat /\ more < 2 * p /\ more = b * p + z
  <2>1. more = z + p * b
    OBVIOUS
  <2> HIDE DEF p, b, more
  <2>2. CASE b = 0
    BY <1>1, <1>3, <2>1, <2>2
  <2>3. CASE b = 1
    BY <1>1, <1>3, <2>1, <2>3
  <2> QED
    BY <1>2, <2>2, <2>3
<1>5. (more % p) = z /\ more \div p = b
  <2> HIDE DEF p, b, more
  <2>1. b \in Nat
    BY <1>2
  <2>2. ((b * p + z) % p) = z /\ (b * p + z) \div p = b
    BY <1>1, <1>3, <2>1, DivMod
  <2> QED
    BY <1>4, <2>2
<1>6. ASSUME NEW m \in 0 .. (n + 1) - 1 PROVE Bit(more, m) = OrBit(x, y, m)
  <2>1. CASE m < n
    <3>1. m \in Nat /\ m <= WordBits /\ n <= WordBits /\ m \in 0 .. n - 1
      BY <2>1, Sizes
    <3> HIDE DEF more
    <3>2. Bit((more % 2^n), m) = Bit(more, m)
      BY <1>4, <2>1, <3>1, BitRemainder
    <3>3. Bit(z, m) = OrBit(x, y, m)
      BY <3>1 DEF OrUpTo
    <3> QED
      BY <1>5, <3>2, <3>3
  <2>2. CASE m = n
    <3>1. Bit(more, n) = b % 2
      BY <1>5 DEF Bit
    <3>2. b % 2 = b
      BY <1>2
    <3> QED
      BY <2>2, <3>1, <3>2
  <2> QED
    BY <2>1, <2>2
<1> QED
  BY <1>1, <1>4, <1>6 DEF OrUpTo

LEMMA OrBits ==
    ASSUME NEW x, NEW y
    PROVE  OrUpTo(x, y, BitOr(x, y), WordBits)
<1>1. PICK low : /\ low = [n \in 0 .. WordBits |->
                               IF n = 0 THEN 0
                               ELSE low[n - 1] + 2^(n - 1) * OrBit(x, y, n - 1)]
                 /\ BitOr(x, y) = low[WordBits]
  BY OrSteps
<1> DEFINE S == {n \in Nat : n <= WordBits => OrUpTo(x, y, low[n], n)}
<1>2. 0 \in S
  <2>1. low[0] = 0
    <3>1. 0 \in 0 .. WordBits
      BY Sizes
    <3> QED
      BY <1>1, <3>1
  <2>2. OrUpTo(x, y, 0, 0)
    BY SmallPowers DEF OrUpTo
  <2> QED
    BY <2>1, <2>2
<1>3. ASSUME NEW n \in Nat, n \in S PROVE n + 1 \in S
  <2> SUFFICES ASSUME n + 1 <= WordBits PROVE OrUpTo(x, y, low[n + 1], n + 1)
    OBVIOUS
  <2>1. OrUpTo(x, y, low[n], n)
    BY <1>3, Sizes
  <2>2. low[n + 1] = low[n] + 2^n * OrBit(x, y, n)
    <3>1. n + 1 \in 0 .. WordBits /\ n + 1 # 0 /\ (n + 1) - 1 = n
      BY Sizes
    <3> QED
      BY <1>1, <3>1
  <2> QED
    BY <2>1, <2>2, OrGrows
<1>4. Nat \subseteq S
  <2> HIDE DEF S
  <2> QED
    BY <1>2, <1>3, Induction
<1>5. OrUpTo(x, y, low[WordBits], WordBits)
  BY <1>4, Sizes
<1> QED
  BY <1>1, <1>5

-----------------------------------------------------------------------------
(* Bits moved from one number to another.                                  *)

\* Every bit of x | y.
LEMMA OrBitIs ==
    ASSUME NEW x, NEW y, NEW n \in 0 .. WordBits - 1
    PROVE  /\ BitOr(x, y) \in Nat /\ BitOr(x, y) < 2^WordBits
           /\ Bit(BitOr(x, y), n) = OrBit(x, y, n)
BY OrBits DEF OrUpTo

LEMMA OrType ==
    ASSUME NEW x, NEW y
    PROVE  BitOr(x, y) \in Nat /\ BitOr(x, y) < 2^WordBits
BY OrBits DEF OrUpTo

LEMMA OrWithZero ==
    ASSUME NEW x, NEW y, NEW n \in 0 .. WordBits - 1
    PROVE  /\ Bit(x, n) = 0 /\ Bit(y, n) \in {0, 1} => OrBit(x, y, n) = Bit(y, n)
           /\ Bit(y, n) = 0 /\ Bit(x, n) \in {0, 1} => OrBit(x, y, n) = Bit(x, n)
BY DEF OrBit

\* A number cut to a byte.
LEMMA ByteBits ==
    ASSUME NEW x \in Nat, NEW n \in 0 .. 7
    PROVE  (x % 256) \in 0 .. 255 /\ Bit(x % 256, n) = Bit(x, n)
<1> DEFINE m == 8
<1>1. m \in Nat /\ m <= WordBits /\ n \in Nat /\ n < m /\ n <= WordBits
  BY Sizes
<1>2. 2^m = 256
  BY SmallPowers
<1>3. Bit((x % 2^m), n) = Bit(x, n)
  <2> HIDE DEF m
  <2> QED
    BY <1>1, BitRemainder
<1> QED
  BY <1>2, <1>3

\* s bits more at the end of a number that has k.
LEMMA PushBits ==
    ASSUME NEW bytes, NEW from \in Nat, NEW k \in Nat, NEW s \in Nat,
           k + s <= WordBits, NEW x, NEW y,
           Holds(x, bytes, from, k), Holds(y, bytes, from + k, s)
    PROVE  Holds(BitOr(x * 2^s, y), bytes, from, k + s)
<1> DEFINE up == x * 2^s
           z == BitOr(up, y)
<1>1. x \in Nat /\ y \in Nat /\ x < 2^k /\ y < 2^s
  BY DEF Holds
<1>2. s \in 0 .. WordBits /\ k <= WordBits /\ k + s \in Nat
  BY Sizes
<1>3. up \in Nat
  BY <1>1, <1>2, BitShiftLeft
<1>4. z \in Nat /\ z < 2^WordBits
  <2> HIDE DEF up
  <2> QED
    BY OrType
<1>5. ASSUME NEW n \in 0 .. WordBits - 1 PROVE Bit(z, n) = OrBit(up, y, n)
  <2> HIDE DEF up
  <2> QED
    BY OrBitIs
<1>6. ASSUME NEW n \in 0 .. WordBits - 1, n < s PROVE Bit(z, n) = Bit(y, n)
  <2>1. n \in 0 .. WordBits
    BY Sizes
  <2>2. Bit(up, n) = 0
    BY <1>1, <1>2, <1>6, <2>1, BitShiftLeft
  <2>3. Bit(y, n) \in {0, 1}
    BY <1>1, <2>1, BitType
  <2> HIDE DEF up, z
  <2> QED
    BY <1>5, <2>2, <2>3, OrWithZero
<1>7. ASSUME NEW n \in 0 .. WordBits - 1, n >= s PROVE Bit(z, n) = Bit(x, n - s)
  <2>1. n \in 0 .. WordBits /\ n - s \in 0 .. WordBits /\ n \in Nat /\ n <= WordBits
    BY <1>2, <1>7, Sizes
  <2>2. Bit(up, n) = Bit(x, n - s)
    BY <1>1, <1>2, <1>7, <2>1, BitShiftLeft
  <2>3. Bit(y, n) = 0
    BY <1>1, <1>7, <2>1, BitAbove
  <2>4. Bit(x, n - s) \in {0, 1}
    BY <1>1, <2>1, BitType
  <2> HIDE DEF up, z
  <2> QED
    BY <1>5, <2>2, <2>3, <2>4, OrWithZero
<1> HIDE DEF up, z
<1>8. ASSUME NEW n \in k + s .. WordBits - 1 PROVE Bit(z, n) = 0
  <2>1. /\ n \in 0 .. WordBits - 1 /\ n >= s /\ n - s \in Nat /\ k <= n - s
        /\ n - s <= WordBits
    BY Sizes
  <2>2. Bit(x, n - s) = 0
    BY <1>1, <2>1, BitAbove
  <2> QED
    BY <1>7, <2>1, <2>2
<1>9. z < 2^(k + s)
  BY <1>2, <1>4, <1>8, BoundFromBits
<1>10. ASSUME NEW n \in 0 .. (k + s) - 1
       PROVE  Bit(z, n) = AdBit(bytes, from + (k + s) - 1 - n)
  <2>1. n \in 0 .. WordBits - 1
    BY Sizes
  <2>2. CASE n < s
    <3>1. n \in 0 .. s - 1 /\ (from + k) + s - 1 - n = from + (k + s) - 1 - n
      BY <2>2
    <3>2. Bit(y, n) = AdBit(bytes, (from + k) + s - 1 - n)
      BY <3>1 DEF Holds, Ends
    <3> QED
      BY <1>6, <2>1, <2>2, <3>1, <3>2
  <2>3. CASE n >= s
    <3>1. n - s \in 0 .. k - 1 /\ from + k - 1 - (n - s) = from + (k + s) - 1 - n
      BY <2>3
    <3>2. Bit(x, n - s) = AdBit(bytes, from + k - 1 - (n - s))
      BY <3>1 DEF Holds, Ends
    <3> QED
      BY <1>7, <2>1, <2>3, <3>1, <3>2
  <2> QED
    BY <2>2, <2>3
<1> QED
  BY <1>4, <1>9, <1>10 DEF Holds, Ends, z, up

\* The same in a byte, where y may have more bits above those if x has none.
LEMMA PushByte ==
    ASSUME NEW bytes, NEW from \in Nat, NEW k \in Nat, NEW s \in Nat, k + s <= 8,
           NEW x \in Nat, NEW y \in Nat,
           Ends(x, bytes, from, k), Ends(y, bytes, from + k, s),
           (x = 0 /\ k = 0) \/ y < 2^s
    PROVE  /\ (BitOr((x * 2^s) % 256, y) % 256) \in 0 .. 255
           /\ Ends(BitOr((x * 2^s) % 256, y) % 256, bytes, from, k + s)
<1> DEFINE wide == x * 2^s
           up == wide % 256
           whole == BitOr(up, y)
           z == whole % 256
<1>1. s \in 0 .. WordBits /\ 8 <= WordBits /\ 2^8 = 256
  BY Sizes, SmallPowers
<1>2. wide \in Nat
  BY <1>1, BitShiftLeft
<1>3. up \in Nat /\ up < 256
  <2> HIDE DEF wide
  <2> QED
    BY <1>2
<1>4. whole \in Nat
  <2> HIDE DEF up
  <2> QED
    BY OrType
<1>5. z \in 0 .. 255
  <2> HIDE DEF whole
  <2> QED
    BY <1>1, <1>4
<1>6. ASSUME NEW n \in 0 .. 7 PROVE Bit(z, n) = OrBit(up, y, n)
  <2>1. n \in Nat /\ n <= WordBits /\ n < 8 /\ n \in 0 .. WordBits - 1
    BY <1>1, Sizes
  <2>2. Bit(whole, n) = OrBit(up, y, n)
    <3> HIDE DEF up
    <3> QED
      BY <2>1, OrBitIs
  <2>3. Bit(z, n) = Bit(whole, n)
    <3> HIDE DEF whole
    <3> QED
      BY <1>4, ByteBits
  <2> QED
    BY <2>2, <2>3
<1>7. ASSUME NEW n \in 0 .. 7 PROVE Bit(up, n) = Bit(wide, n)
  <2> HIDE DEF wide
  <2> QED
    BY <1>2, ByteBits
<1> HIDE DEF up, z, whole
<1>8. ASSUME NEW n \in 0 .. (k + s) - 1
      PROVE  Bit(z, n) = AdBit(bytes, from + (k + s) - 1 - n)
  <2>1. n \in 0 .. 7 /\ n \in 0 .. WordBits /\ n \in 0 .. WordBits - 1
    BY <1>1, Sizes
  <2>2. CASE n < s
    <3>1. n \in 0 .. s - 1 /\ (from + k) + s - 1 - n = from + (k + s) - 1 - n
      BY <2>2
    <3>2. Bit(y, n) = AdBit(bytes, (from + k) + s - 1 - n)
      BY <3>1 DEF Ends
    <3>3. Bit(up, n) = 0
      BY <1>1, <1>7, <2>1, <2>2, BitShiftLeft
    <3>4. Bit(y, n) \in {0, 1}
      BY <2>1, BitType
    <3> QED
      BY <1>6, <2>1, <3>1, <3>2, <3>3, <3>4, OrWithZero
  <2>3. CASE n >= s
    <3>1. /\ n - s \in 0 .. k - 1 /\ from + k - 1 - (n - s) = from + (k + s) - 1 - n
          /\ n - s \in 0 .. WordBits /\ k # 0 /\ n \in Nat /\ n <= WordBits
      BY <2>1, <2>3, Sizes
    <3>2. Bit(x, n - s) = AdBit(bytes, from + k - 1 - (n - s))
      BY <3>1 DEF Ends
    <3>3. Bit(up, n) = Bit(x, n - s)
      BY <1>1, <1>7, <2>1, <2>3, BitShiftLeft
    <3>4. Bit(y, n) = 0
      BY <2>3, <3>1, BitAbove
    <3>5. Bit(x, n - s) \in {0, 1}
      BY <3>1, BitType
    <3> QED
      BY <1>6, <2>1, <3>1, <3>2, <3>3, <3>4, <3>5, OrWithZero
  <2> QED
    BY <2>2, <2>3
<1>9. z = BitOr((x * 2^s) % 256, y) % 256
  BY <1>1 DEF z, whole, up
<1>10. Ends(z, bytes, from, k + s)
  BY <1>8 DEF Ends
<1> QED
  BY <1>5, <1>9, <1>10

\* The first s bits of a number, and what is left of it.
LEMMA TakeBits ==
    ASSUME NEW bytes, NEW from \in Nat, NEW width \in Nat, NEW k \in Nat, NEW s \in Nat,
           s <= k, k <= width, width <= WordBits, NEW x \in Nat,
           Starts(x, width, bytes, from, k)
    PROVE  /\ x \div 2^(width - s) \in Nat
           /\ Ends(x \div 2^(width - s), bytes, from, s)
           /\ x * 2^s \in Nat
           /\ Starts(x * 2^s, width, bytes, from + s, k - s)
           /\ x < 2^width => x \div 2^(width - s) < 2^s
<1>1. width - s \in Nat /\ width - s <= WordBits /\ s + (width - s) = width
  BY Sizes
<1>2. x \div 2^(width - s) \in Nat
  <2>1. 0 \in Nat /\ 0 + (width - s) <= WordBits
    BY <1>1
  <2> QED
    BY <1>1, <2>1, BitShiftRight
<1>3. ASSUME NEW n \in 0 .. s - 1
      PROVE  Bit(x \div 2^(width - s), n) = AdBit(bytes, from + s - 1 - n)
  <2>1. /\ n \in Nat /\ n + (width - s) <= WordBits
        /\ n + (width - s) \in width - k .. width - 1
        /\ from + width - 1 - (n + (width - s)) = from + s - 1 - n
    BY <1>1, Sizes
  <2>2. Bit(x \div 2^(width - s), n) = Bit(x, n + (width - s))
    BY <1>1, <2>1, BitShiftRight
  <2>3. Bit(x, n + (width - s)) = AdBit(bytes, from + width - 1 - (n + (width - s)))
    BY <2>1 DEF Starts
  <2> QED
    BY <2>1, <2>2, <2>3
<1>4. x * 2^s \in Nat
  <2>1. s \in 0 .. WordBits /\ 0 \in 0 .. WordBits
    BY Sizes
  <2> QED
    BY <2>1, BitShiftLeft
<1>5. ASSUME NEW n \in width - (k - s) .. width - 1
      PROVE  Bit(x * 2^s, n) = AdBit(bytes, (from + s) + width - 1 - n)
  <2>1. /\ n \in 0 .. WordBits /\ s \in 0 .. WordBits /\ n >= s
        /\ n - s \in width - k .. width - 1
        /\ from + width - 1 - (n - s) = (from + s) + width - 1 - n
    BY Sizes
  <2>2. Bit(x * 2^s, n) = Bit(x, n - s)
    BY <2>1, BitShiftLeft
  <2>3. Bit(x, n - s) = AdBit(bytes, from + width - 1 - (n - s))
    BY <2>1 DEF Starts
  <2> QED
    BY <2>1, <2>2, <2>3
<1>6. ASSUME x < 2^width PROVE x \div 2^(width - s) < 2^s
  <2>1. /\ 2^(width - s) \in Nat \ {0} /\ 2^s \in Nat \ {0}
        /\ 2^width = 2^s * 2^(width - s)
    BY <1>1, PowerParts
  <2> DEFINE p == 2^(width - s)
             r == 2^s
  <2>2. p \in Nat \ {0} /\ r \in Nat \ {0} /\ x < r * p
    BY <1>6, <2>1
  <2>3. x \div p < r
    <3> HIDE DEF p, r
    <3>1. PICK q \in Nat, low \in 0 .. p - 1 : x = q * p + low /\ x \div p = q
      BY <2>2, DivModParts
    <3> SUFFICES ASSUME r <= q PROVE FALSE
      BY <2>2, <3>1
    <3>2. r * p <= q * p /\ r * p \in Nat /\ q * p \in Nat
      BY <2>2, <3>1, MoreTimes
    <3> QED
      BY <2>2, <3>1, <3>2
  <2> QED
    BY <2>3
<1>7. Ends(x \div 2^(width - s), bytes, from, s)
  BY <1>3 DEF Ends
<1>8. Starts(x * 2^s, width, bytes, from + s, k - s)
  BY <1>5 DEF Starts
<1> QED
  BY <1>2, <1>4, <1>6, <1>7, <1>8

-----------------------------------------------------------------------------
(* Whole bytes and whole coefficients.                                     *)

LEMMA AdBitOfByte ==
    ASSUME NEW bytes, NEW j \in 0 .. EleSize - 1, NEW n \in 0 .. 7
    PROVE  AdBit(bytes, 8 * j + 7 - n) = Bit(bytes[j + 1], n)
<1> DEFINE p == 8 * j + 7 - n
<1>1. p = j * 8 + (7 - n) /\ 7 - n \in 0 .. 7 /\ j \in Nat /\ p < 8 * EleSize /\ p \in Nat
  BY Sizes
<1>2. (j * 8 + (7 - n)) \div 8 = j /\ (j * 8 + (7 - n)) % 8 = 7 - n
  BY <1>1
<1>3. p \div 8 + 1 = j + 1 /\ 7 - (p % 8) = n
  <2> HIDE DEF p
  <2> QED
    BY <1>1, <1>2
<1> HIDE DEF p
<1>4. AdBit(bytes, p) = Bit(bytes[j + 1], n)
  BY <1>1, <1>3 DEF AdBit
<1> QED
  BY <1>4 DEF p

\* A byte of the ad begins with its 8 bits.
LEMMA ByteStarts ==
    ASSUME NEW bytes, NEW j \in 0 .. EleSize - 1
    PROVE  Starts(bytes[j + 1], 8, bytes, 8 * j, 8)
<1>1. ASSUME NEW n \in 0 .. 7
      PROVE  Bit(bytes[j + 1], n) = AdBit(bytes, 8 * j + 8 - 1 - n)
  <2>1. 8 * j + 8 - 1 - n = 8 * j + 7 - n
    OBVIOUS
  <2> QED
    BY <2>1, AdBitOfByte
<1>2. 8 - 8 .. 8 - 1 = 0 .. 7
  OBVIOUS
<1> QED
  BY <1>1, <1>2 DEF Starts

\* A byte that ends with 8 bits of the ad is one of its bytes.
LEMMA ByteFromBits ==
    ASSUME NEW bytes \in [1 .. EleSize -> 0 .. 255], NEW j \in 0 .. EleSize - 1,
           NEW x \in 0 .. 255, Ends(x, bytes, 8 * j, 8)
    PROVE  x = bytes[j + 1]
<1>1. bytes[j + 1] \in 0 .. 255
  <2>1. j + 1 \in 1 .. EleSize
    BY Sizes
  <2> QED
    BY <2>1
<1> DEFINE y == bytes[j + 1]
<1>2. ASSUME NEW n \in 0 .. 8 - 1 PROVE Bit(x, n) = Bit(y, n)
  <2>1. 8 * j + 8 - 1 - n = 8 * j + 7 - n /\ n \in 0 .. 7
    OBVIOUS
  <2>2. Bit(x, n) = AdBit(bytes, 8 * j + 8 - 1 - n)
    BY DEF Ends
  <2> QED
    BY <2>1, <2>2, AdBitOfByte
<1>3. SameBits(8)
  <2>1. 8 \in Nat /\ 8 <= WordBits
    BY Sizes
  <2> QED
    BY <2>1, BitsDetermine
<1> HIDE DEF y
<1>4. x \in Nat /\ y \in Nat /\ x < 2^8 /\ y < 2^8
  <2>1. x \in Nat /\ x < 256 /\ y \in 0 .. 255
    BY <1>1 DEF y
  <2>2. y \in Nat /\ y < 256
    BY <2>1
  <2>3. 2^8 = 256
    BY SmallPowers
  <2> QED
    BY <2>1, <2>2, <2>3
<1>5. x = y
  BY <1>2, <1>3, <1>4 DEF SameBits
<1> QED
  BY <1>5 DEF y

\* A coefficient filled with zeros behind the ad's last bit.
LEMMA FillUp ==
    ASSUME NEW bytes, NEW from \in Nat, NEW k \in Nat, NEW free \in Nat,
           k + free <= WordBits, NEW x, Holds(x, bytes, from, k),
           free = 0 \/ from + k >= 8 * EleSize
    PROVE  Holds(x * 2^free, bytes, from, k + free)
<1>1. x \in Nat /\ x < 2^k /\ free \in 0 .. WordBits
  BY Sizes DEF Holds
<1>2. x * 2^free \in Nat
  <2>1. 0 \in 0 .. WordBits
    BY Sizes
  <2> QED
    BY <1>1, <2>1, BitShiftLeft
<1>3. x * 2^free < 2^(k + free)
  <2>1. /\ 2^k \in Nat \ {0} /\ 2^free \in Nat \ {0} /\ 2^(k + free) = 2^k * 2^free
    BY PowerParts
  <2> DEFINE a == 2^k
             b == 2^free
  <2>2. a \in Nat \ {0} /\ b \in Nat \ {0} /\ x + 1 <= a
    BY <1>1, <2>1
  <2>3. x * b < a * b
    <3> HIDE DEF a, b
    <3>1. (x + 1) * b <= a * b /\ (x + 1) * b = x * b + b /\ x * b \in Nat /\ a * b \in Nat
      BY <1>1, <2>2, MoreTimes
    <3> QED
      BY <2>2, <3>1
  <2> QED
    BY <2>1, <2>3
<1>4. ASSUME NEW n \in 0 .. (k + free) - 1
      PROVE  Bit(x * 2^free, n) = AdBit(bytes, from + (k + free) - 1 - n)
  <2>1. n \in 0 .. WordBits
    BY Sizes
  <2>2. CASE n < free
    <3>1. ~ (from + (k + free) - 1 - n < 8 * EleSize)
      BY <2>2, Sizes
    <3>2. AdBit(bytes, from + (k + free) - 1 - n) = 0
      BY <3>1 DEF AdBit
    <3> QED
      BY <1>1, <2>1, <2>2, <3>2, BitShiftLeft
  <2>3. CASE n >= free
    <3>1. n - free \in 0 .. k - 1 /\ from + k - 1 - (n - free) = from + (k + free) - 1 - n
      BY <2>3
    <3>2. Bit(x, n - free) = AdBit(bytes, from + k - 1 - (n - free))
      BY <3>1 DEF Holds, Ends
    <3> QED
      BY <1>1, <2>1, <2>3, <3>1, <3>2, BitShiftLeft
  <2> QED
    BY <2>2, <2>3
<1> QED
  BY <1>2, <1>3, <1>4 DEF Holds, Ends

\* A coefficient nothing was written to.
LEMMA NothingHeld == ASSUME NEW bytes, NEW from PROVE Holds(0, bytes, from, 0)
BY SmallPowers DEF Holds, Ends

LEMMA NoAdBits ==
    ASSUME NEW n \in Nat
    PROVE  AdBit(NoAd, n) = 0
<1> SUFFICES ASSUME n < 8 * EleSize PROVE Bit(NoAd[n \div 8 + 1], 7 - (n % 8)) = 0
  BY DEF AdBit
<1>1. n \div 8 + 1 \in 1 .. EleSize /\ 7 - (n % 8) \in 0 .. WordBits
  BY Sizes
<1>2. NoAd[n \div 8 + 1] = 0
  BY <1>1 DEF NoAd
<1> QED
  BY <1>1, <1>2, BitOfZero

LEMMA NoAdHeld ==
    ASSUME NEW from \in Nat, NEW k \in Nat, k <= WordBits
    PROVE  Holds(0, NoAd, from, k)
<1>1. 2^k \in Nat \ {0}
  BY PowerType, Sizes
<1>2. ASSUME NEW n \in 0 .. k - 1 PROVE Bit(0, n) = AdBit(NoAd, from + k - 1 - n)
  <2>1. n \in 0 .. WordBits /\ from + k - 1 - n \in Nat
    BY Sizes
  <2> QED
    BY <2>1, BitOfZero, NoAdBits
<1> QED
  BY <1>1, <1>2 DEF Holds, Ends

\* A coefficient begins with what it holds.
LEMMA HeldStarts ==
    ASSUME NEW bytes, NEW from \in Nat, NEW width \in Nat, NEW k \in Nat, k <= width,
           NEW x, Holds(x, bytes, from, width)
    PROVE  Starts(x, width, bytes, from, k)
<1>1. \A n \in width - k .. width - 1 : n \in 0 .. width - 1
  OBVIOUS
<1> QED
  BY <1>1 DEF Holds, Ends, Starts

-----------------------------------------------------------------------------
(* Where the coefficients of an ad are.                                    *)

LEMMA Layout ==
    ASSUME NEW l \in Limits
    PROVE  LET C == CoefficientsPerElement(l)
               K == ElementsPerPtxt(l)
           IN  /\ C \in Nat \ {0} /\ K \in Nat \ {0}
               /\ C * l \in Nat /\ 8 * EleSize <= C * l
               /\ (C - 1) * l \in Nat /\ (C - 1) * l < 8 * EleSize
               /\ C <= Slots
               /\ C * K \in Nat /\ C * K <= Slots
<1>1. /\ l \in Nat \ {0} /\ 8 * EleSize <= l * Slots /\ Slots \in Nat
      /\ EleSize \in Nat \ {0}
  BY Sizes
<1> DEFINE C == CoefficientsPerElement(l)
           K == ElementsPerPtxt(l)
<1>2. PICK q \in Nat, r \in 0 .. l - 1 : 8 * EleSize + l - 1 = q * l + r /\ C = q
  <2>1. 8 * EleSize + l - 1 \in Nat
    BY <1>1
  <2> QED
    BY <1>1, <2>1, DivModParts DEF CoefficientsPerElement
<1> HIDE DEF C
<1>3. C \in Nat /\ C * l \in Nat /\ 8 * EleSize + l - 1 = C * l + r
  <2>1. C \in Nat /\ 8 * EleSize + l - 1 = C * l + r
    BY <1>2
  <2>2. C * l \in Nat
    BY <1>1, <2>1
  <2> QED
    BY <2>1, <2>2
<1>4. 8 * EleSize <= C * l
  <2> DEFINE cl == C * l
  <2>1. cl \in Nat /\ 8 * EleSize + l - 1 = cl + r
    BY <1>3
  <2> HIDE DEF cl
  <2>2. 8 * EleSize <= cl
    BY <1>1, <2>1
  <2> QED
    BY <2>2 DEF cl
<1>5. C # 0
  <2> SUFFICES ASSUME C = 0 PROVE FALSE
    OBVIOUS
  <2>1. C * l = 0
    BY <1>1
  <2> QED
    BY <1>1, <1>4, <2>1
<1>6. (C - 1) * l \in Nat /\ (C - 1) * l = C * l - l /\ (C - 1) * l < 8 * EleSize
  <2>1. C - 1 \in Nat /\ (C - 1) * l = C * l - l /\ (C - 1) * l \in Nat
    BY <1>1, <1>3, <1>5
  <2> DEFINE cl == C * l
             less == (C - 1) * l
  <2>2. cl \in Nat /\ 8 * EleSize + l - 1 = cl + r /\ less = cl - l
    BY <1>3, <2>1
  <2> HIDE DEF cl, less
  <2>3. less < 8 * EleSize
    BY <1>1, <2>2
  <2> QED
    BY <2>1, <2>3 DEF less
<1>7. C <= Slots
  <2> SUFFICES ASSUME Slots <= C - 1 PROVE FALSE
    BY <1>1, <1>3
  <2>1. Slots * l <= (C - 1) * l /\ Slots * l \in Nat
    BY <1>1, <1>3, <1>5, MoreTimes
  <2>2. Slots * l = l * Slots
    BY <1>1
  <2> QED
    BY <1>1, <1>6, <2>1, <2>2
<1>8. PICK k \in Nat, s \in 0 .. C - 1 : Slots = k * C + s /\ K = k
  <2>1. \E k \in Nat, s \in 0 .. C - 1 : Slots = k * C + s /\ Slots \div C = k
    BY <1>1, <1>3, <1>5, DivModParts
  <2> QED
    BY <2>1 DEF ElementsPerPtxt, C
<1> HIDE DEF K
<1>9. C * K \in Nat /\ C * K <= Slots /\ K # 0
  <2>1. K * C = C * K /\ C * K \in Nat
    BY <1>3, <1>8
  <2>2. Slots = C * K + s
    BY <1>8, <2>1
  <2>3. ASSUME K = 0 PROVE FALSE
    <3>1. C * K = 0
      BY <1>3, <2>3
    <3> QED
      BY <1>3, <1>7, <2>2, <3>1
  <2> QED
    BY <1>3, <2>1, <2>2, <2>3
<1>10. /\ C \in Nat \ {0} /\ K \in Nat \ {0}
       /\ C * l \in Nat /\ 8 * EleSize <= C * l
       /\ (C - 1) * l \in Nat /\ (C - 1) * l < 8 * EleSize
       /\ C <= Slots
       /\ C * K \in Nat /\ C * K <= Slots
  BY <1>3, <1>4, <1>5, <1>6, <1>7, <1>8, <1>9
<1> QED
  BY <1>10 DEF C, K

\* The t-th of c things of the e-th, among those of k.
LEMMA PlaceAmong ==
    ASSUME NEW c \in Nat \ {0}, NEW k \in Nat, NEW e \in 1 .. k, NEW t \in 0 .. c - 1
    PROVE  /\ c * (e - 1) \in Nat /\ c * k \in Nat
           /\ c * (e - 1) + t \in 0 .. c * k - 1
           /\ c * (e - 1) + c <= c * k
           /\ c * e = c * (e - 1) + c
<1>1. e - 1 \in Nat /\ e \in Nat /\ e <= k
  OBVIOUS
<1>2. c * (e - 1) \in Nat /\ c * k \in Nat /\ c * e = c * (e - 1) + c
  BY <1>1
<1>3. e * c <= k * c /\ e * c = c * e /\ k * c = c * k
  BY <1>1, MoreTimes
<1> QED
  BY <1>2, <1>3

\* No two have the same place.
LEMMA PlaceIsOnly ==
    ASSUME NEW c \in Nat \ {0}, NEW e \in Nat \ {0}, NEW f \in Nat \ {0},
           NEW t \in 0 .. c - 1, NEW v \in 0 .. c - 1,
           c * (e - 1) + t = c * (f - 1) + v
    PROVE  e = f /\ t = v
<1>1. e - 1 \in Nat /\ f - 1 \in Nat
  OBVIOUS
<1>2. ((e - 1) * c + t) \div c = e - 1 /\ ((f - 1) * c + v) \div c = f - 1
  BY <1>1, DivMod
<1>3. ((e - 1) * c + t) % c = t /\ ((f - 1) * c + v) % c = v
  BY <1>1, DivMod
<1>4. c * (e - 1) = (e - 1) * c /\ c * (f - 1) = (f - 1) * c
  BY <1>1
<1>5. e - 1 = f - 1 /\ t = v
  BY <1>2, <1>3, <1>4
<1> QED
  BY <1>5

-----------------------------------------------------------------------------
(* The invariants hold at first, and every turn of a loop keeps them.      *)

\* The numbers of the plaintext in hand.
LEMMA Numbers ==
    ASSUME Sound
    PROVE  /\ limit \in Nat \ {0} /\ limit <= WordBits /\ 2^limit \in Nat \ {0}
           /\ EleSize \in Nat \ {0}
           /\ PerElement \in Nat \ {0} /\ PerPtxt \in Nat \ {0}
           /\ PerElement * limit \in Nat /\ 8 * EleSize <= PerElement * limit
           /\ (PerElement - 1) * limit \in Nat
           /\ (PerElement - 1) * limit < 8 * EleSize
           /\ PerElement <= Slots /\ Slots \in Nat
           /\ PerElement * PerPtxt \in Nat /\ PerElement * PerPtxt <= Slots
           /\ SizeOut \in Nat /\ SizeOut = EleSize * PerPtxt
<1>1. limit \in Limits
  BY DEF Sound
<1>2. limit \in Nat \ {0} /\ limit <= WordBits /\ EleSize \in Nat \ {0} /\ Slots \in Nat
  BY <1>1, Sizes
<1>3. 2^limit \in Nat \ {0}
  BY <1>2, PowerType, Sizes
<1>4. /\ PerElement \in Nat \ {0} /\ PerPtxt \in Nat \ {0}
      /\ PerElement * limit \in Nat /\ 8 * EleSize <= PerElement * limit
      /\ (PerElement - 1) * limit \in Nat
      /\ (PerElement - 1) * limit < 8 * EleSize
      /\ PerElement <= Slots
      /\ PerElement * PerPtxt \in Nat /\ PerElement * PerPtxt <= Slots
  BY <1>1, Layout DEF PerElement, PerPtxt
<1>5. SizeOut = PerPtxt * EleSize
  BY DEF SizeOut, PerPtxt
<1>6. PerPtxt * EleSize = EleSize * PerPtxt /\ EleSize * PerPtxt \in Nat
  BY <1>2, <1>4
<1> QED
  BY <1>2, <1>3, <1>4, <1>5, <1>6

LEMMA ContentType ==
    ASSUME Sound, NEW e \in Nat \ {0}
    PROVE  Content(e) \in [1 .. EleSize -> 0 .. 255]
<1>1. ads \in Seq(Contents) /\ Contents \subseteq [1 .. EleSize -> 0 .. 255]
  BY Sizes DEF Sound
<1>2. CASE e <= Len(ads)
  <2>1. e \in 1 .. Len(ads)
    BY <1>1, <1>2
  <2>2. ads[e] \in Contents
    BY <1>1, <2>1
  <2> QED
    BY <1>1, <1>2, <2>2 DEF Content
<1>3. CASE ~ (e <= Len(ads))
  <2>1. NoAd \in [1 .. EleSize -> 0 .. 255]
    BY DEF NoAd
  <2> QED
    BY <1>3, <2>1 DEF Content
<1> QED
  BY <1>2, <1>3

\* The slots that are an ad's.
LEMMA SlotIs ==
    ASSUME Sound, NEW e \in 1 .. PerPtxt, NEW t \in 0 .. PerElement - 1
    PROVE  /\ PerElement * (e - 1) + t \in 0 .. Slots - 1
           /\ PerElement * (e - 1) + t < PerElement * PerPtxt
           /\ PerElement * (e - 1) \in Nat /\ t * limit \in Nat
<1> DEFINE first == PerElement * (e - 1)
           all == PerElement * PerPtxt
<1>1. first \in Nat /\ all \in Nat /\ first + t \in 0 .. all - 1
  <2>1. PerElement \in Nat \ {0} /\ PerPtxt \in Nat
    BY Numbers
  <2> QED
    BY <2>1, PlaceAmong
<1>2. all <= Slots /\ Slots \in Nat
  BY Numbers
<1>3. t * limit \in Nat
  <2>1. t \in Nat /\ limit \in Nat
    BY Numbers
  <2> QED
    BY <2>1
<1>4. first + t \in 0 .. Slots - 1 /\ first + t < all
  <2>1. PerElement \in Nat
    BY Numbers
  <2> HIDE DEF first, all
  <2> QED
    BY <1>1, <1>2, <2>1
<1> QED
  BY <1>1, <1>3, <1>4

LEMMA InitSound == Init => CodecInv
<1> SUFFICES ASSUME Init PROVE CodecInv
  OBVIOUS
<1>1. PICK count \in 1 .. PerPtxt : ads \in [1 .. count -> Contents]
  BY DEF Init, PerPtxt
<1>2. limit \in Limits
  BY DEF Init
<1>3. limit \in Nat \ {0} /\ limit <= WordBits /\ 2^limit \in Nat \ {0} /\ PerPtxt \in Nat
  <2>1. limit \in Nat \ {0} /\ limit <= WordBits
    BY <1>2, Sizes
  <2> QED
    BY <1>2, <2>1, PowerType, Layout, Sizes DEF PerPtxt
<1>4. ads \in Seq(Contents) /\ Len(ads) = count
  BY <1>1, <1>3
<1>5. Sound
  <2>1. Len(ads) \in 1 .. PerPtxt /\ ad \in 1 .. Len(ads)
    BY <1>1, <1>4 DEF Init
  <2>2. coeffs \in [0 .. Slots - 1 -> Nat] /\ \A s \in 0 .. Slots - 1 : coeffs[s] < 2^limit
    BY <1>3 DEF Init
  <2>3. output \in [0 .. SizeOut - 1 -> 0 .. 255]
    BY DEF Init
  <2>4. src \in Nat /\ bitsLeft \in 0 .. 8 * EleSize /\ pc \in {"pack", "unpack"}
    BY Sizes DEF Init
  <2> QED
    BY <1>2, <1>4, <2>1, <2>2, <2>3, <2>4 DEF Sound
<1>6. PackPlace
  <2>1. PerElement \in Nat \ {0}
    BY <1>5, Numbers
  <2>2. 0 * limit = 0
    BY <1>3
  <2> QED
    BY <1>3, <2>1, <2>2, Sizes DEF PackPlace, Init
<1>7. PackBitsOf
  <2>1. 8 - rest .. 8 - 1 = {}
    BY DEF Init
  <2> QED
    BY <2>1 DEF PackBitsOf, Starts
<1>8. PackCoeffs
  <2> SUFFICES ASSUME NEW e \in 1 .. PerPtxt, NEW t \in 0 .. PerElement - 1
               PROVE  Holds(coeffs[PerElement * (e - 1) + t], Content(e), t * limit,
                            Filled(e, t))
    BY DEF PackCoeffs
  <2>1. Filled(e, t) = 0
    <3>1. ad = 1 /\ target = 0 /\ room = limit /\ e >= 1 /\ t >= 0 /\ limit - limit = 0
      BY <1>3, <1>5, Numbers DEF Init
    <3>2. ~ (e < ad) /\ ~ (t < target)
      BY <1>5, <3>1, Numbers
    <3> QED
      BY <3>1, <3>2 DEF Filled
  <2>2. coeffs[PerElement * (e - 1) + t] = 0
    <3>1. PerElement * (e - 1) + t \in 0 .. Slots - 1
      BY <1>5, SlotIs
    <3> QED
      BY <3>1 DEF Init
  <2> QED
    BY <2>1, <2>2, NothingHeld
<1>9. PackOutput
  BY DEF Init, PackOutput
<1> QED
  BY <1>5, <1>6, <1>7, <1>8, <1>9 DEF CodecInv, Packing, Init

\* What no step changes.
LEMMA SameNumbers ==
    ASSUME UNCHANGED <<limit, ads>>
    PROVE  /\ PerElement' = PerElement /\ PerPtxt' = PerPtxt /\ SizeOut' = SizeOut
           /\ \A e : Content(e)' = Content(e)
<1>1. limit' = limit /\ ads' = ads
  OBVIOUS
<1> QED
  BY <1>1 DEF PerElement, PerPtxt, SizeOut, Content, ElementsPerPtxt,
              CoefficientsPerElement

LEMMA PackByteKeeps ==
    ASSUME CodecInv, PackByte
    PROVE  CodecInv'
<1>1. Sound /\ PackPlace /\ PackCoeffs /\ PackOutput /\ pc = "pack"
  BY DEF CodecInv, Packing, PackByte
<1>2. UNCHANGED <<limit, ads>>
  BY DEF PackByte
<1>3. /\ PerElement' = PerElement /\ PerPtxt' = PerPtxt /\ SizeOut' = SizeOut
      /\ \A e : Content(e)' = Content(e)
  BY <1>2, SameNumbers
<1>4. i \in 0 .. EleSize - 1 /\ rest = 0
  BY <1>1, Sizes DEF PackByte, PackPlace
<1>5. ads[ad] \in [1 .. EleSize -> 0 .. 255]
  <2>1. ad \in Nat \ {0} /\ ad <= Len(ads)
    BY <1>1 DEF Sound
  <2>2. Content(ad) \in [1 .. EleSize -> 0 .. 255]
    BY <1>1, <2>1, ContentType
  <2> QED
    BY <2>1, <2>2 DEF Content
<1>6. src' \in 0 .. 255
  <2>1. i + 1 \in 1 .. EleSize /\ src' = ads[ad][i + 1]
    BY <1>4, Sizes DEF PackByte
  <2> QED
    BY <1>5, <2>1
<1>7. Sound'
  <2>1. src' \in Nat
    BY <1>6
  <2>2. UNCHANGED <<limit, ads, coeffs, output, ad, bitsLeft, pc>>
    BY DEF PackByte
  <2> QED
    BY <1>1, <1>3, <2>1, <2>2 DEF Sound
<1>8. PackPlace'
  <2>1. i' = i + 1 /\ rest' = 8 /\ UNCHANGED <<limit, target, room, bitsLeft>>
    BY DEF PackByte
  <2>2. /\ i' \in 0 .. EleSize /\ rest' \in 0 .. 8
        /\ 8 * i' - rest' = 8 * i - rest
    BY <1>4, <2>1, Sizes
  <2>3. src' < 256
    BY <1>6
  <2> QED
    BY <1>1, <1>3, <2>1, <2>2, <2>3 DEF PackPlace
<1>9. PackBitsOf'
  <2>1. 8 * i' - rest' = 8 * i /\ rest' = 8 /\ ads' = ads /\ ad' = ad
    BY <1>4 DEF PackByte
  <2>2. src' = ads[ad][i + 1]
    BY DEF PackByte
  <2>3. Starts(ads[ad][i + 1], 8, ads[ad], 8 * i, 8)
    BY <1>4, ByteStarts
  <2>4. Starts(src', 8, ads'[ad'], 8 * i' - rest', rest')
    BY <2>1, <2>2, <2>3
  <2> QED
    BY <2>4 DEF PackBitsOf, Starts
<1>10. PackCoeffs'
  <2>1. \A e, t : Filled(e, t)' = Filled(e, t)
    BY DEF PackByte, Filled
  <2> SUFFICES ASSUME NEW e \in 1 .. PerPtxt, NEW t \in 0 .. PerElement - 1
               PROVE  Holds(coeffs[PerElement * (e - 1) + t], Content(e), t * limit,
                            Filled(e, t))'
    BY <1>3 DEF PackCoeffs
  <2>2. Holds(coeffs[PerElement * (e - 1) + t], Content(e), t * limit, Filled(e, t))
    BY <1>1 DEF PackCoeffs
  <2> QED
    BY <1>2, <1>3, <2>1, <2>2 DEF PackByte, Holds, Ends
<1>11. PackOutput'
  BY <1>1, <1>3 DEF PackOutput, PackByte
<1> QED
  BY <1>1, <1>7, <1>8, <1>9, <1>10, <1>11 DEF CodecInv, Packing, PackByte

\* The room a coefficient has, and which one it is.
LEMMA FreeRoom ==
    ASSUME Sound, PackPlace, PackBits
    PROVE  LET free  == IF room = 0 THEN limit ELSE room
               shift == ShiftOf(free, rest)
           IN  /\ free \in 1 .. limit /\ rest \in 1 .. 8 /\ shift \in 1 .. 8
               /\ shift <= rest /\ shift <= free
               /\ target' \in 0 .. PerElement - 1
               /\ target' * limit \in Nat
               /\ target' * limit + limit - free = 8 * i - rest
               /\ target' = target \/ target' = target + 1
               /\ Filled(ad, target') = limit - free
<1> DEFINE free == IF room = 0 THEN limit ELSE room
           shift == ShiftOf(free, rest)
<1>1. /\ limit \in Nat \ {0} /\ PerElement \in Nat \ {0} /\ EleSize \in Nat \ {0}
      /\ PerElement * limit \in Nat /\ 8 * EleSize <= PerElement * limit
  BY Numbers
<1>2. /\ i \in 0 .. EleSize /\ rest \in 1 .. 8 /\ room \in 0 .. limit
      /\ target \in 0 .. PerElement - 1
      /\ 8 * i - rest = target * limit + limit - room
  BY DEF PackPlace, PackBits
<1>3. target' = IF room = 0 THEN target + 1 ELSE target
  BY DEF PackBits
<1>4. free \in 1 .. limit
  BY <1>1, <1>2
<1>5. shift \in 1 .. 8 /\ shift <= rest /\ shift <= free
  BY <1>2, <1>4 DEF ShiftOf, Smaller
<1>6. CASE room = 0
  <2>1. target' = target + 1 /\ free = limit /\ target \in Nat
    BY <1>2, <1>3, <1>6
  <2>2. target' * limit = target * limit + limit /\ target * limit \in Nat
    BY <1>1, <2>1
  <2> DEFINE tl == target * limit
             more == target' * limit
             all == PerElement * limit
  <2>3. /\ tl \in Nat /\ more = tl + limit /\ all \in Nat /\ 8 * EleSize <= all
        /\ 8 * i - rest = tl + limit - room
    BY <1>1, <1>2, <2>2
  <2> HIDE DEF tl, more, all
  <2>4. more < all /\ more \in Nat /\ more + limit - limit = 8 * i - rest
    BY <1>1, <1>2, <1>6, <2>3
  <2>5. target' < PerElement
    <3> SUFFICES ASSUME PerElement <= target' PROVE FALSE
      BY <1>1, <2>1
    <3>1. PerElement * limit <= target' * limit
      BY <1>1, <2>1, MoreTimes
    <3> QED
      BY <2>3, <2>4, <3>1 DEF more, all
  <2>6. target' \in 0 .. PerElement - 1
    BY <1>1, <2>1, <2>5
  <2>7. Filled(ad, target') = 0
    <3>1. ad \in Nat
      BY DEF Sound
    <3>2. ~ (ad < ad) /\ ~ (target' < target) /\ target' # target
      BY <2>1, <3>1
    <3> QED
      BY <3>2 DEF Filled
  <2>8. limit - free = 0
    BY <1>1, <2>1
  <2> QED
    BY <1>2, <1>4, <1>5, <2>1, <2>4, <2>6, <2>7, <2>8 DEF more
<1>7. CASE room # 0
  <2>1. target' = target /\ free = room /\ target \in Nat
    BY <1>2, <1>3, <1>7
  <2>2. target * limit \in Nat
    BY <1>1, <2>1
  <2>3. Filled(ad, target') = limit - room
    <3>1. ad \in Nat
      BY DEF Sound
    <3>2. ~ (ad < ad) /\ ~ (target' < target)
      BY <2>1, <3>1
    <3> QED
      BY <2>1, <3>2 DEF Filled
  <2> QED
    BY <1>2, <1>4, <1>5, <2>1, <2>2, <2>3
<1> QED
  BY <1>6, <1>7

LEMMA PackBitsKeeps ==
    ASSUME CodecInv, PackBits
    PROVE  CodecInv'
<1>1. Sound /\ PackPlace /\ PackBitsOf /\ PackCoeffs /\ PackOutput /\ pc = "pack"
  BY DEF CodecInv, Packing, PackBits
<1>2. UNCHANGED <<limit, ads, output, ad, i, bitsLeft, pc>>
  BY DEF PackBits
<1>3. /\ PerElement' = PerElement /\ PerPtxt' = PerPtxt /\ SizeOut' = SizeOut
      /\ \A e : Content(e)' = Content(e)
  BY <1>2, SameNumbers
<1> DEFINE free == IF room = 0 THEN limit ELSE room
           shift == ShiftOf(free, rest)
           slot == PerElement * (ad - 1) + target'
           from == target' * limit
           y == src \div 2^(8 - shift)
           new == BitOr(coeffs[slot] * 2^shift, y)
<1>4. /\ free \in 1 .. limit /\ rest \in 1 .. 8 /\ shift \in 1 .. 8
      /\ shift <= rest /\ shift <= free
      /\ target' \in 0 .. PerElement - 1
      /\ from \in Nat /\ from + limit - free = 8 * i - rest
      /\ target' = target \/ target' = target + 1
      /\ Filled(ad, target') = limit - free
  BY <1>1, FreeRoom
<1>5. /\ coeffs' = [coeffs EXCEPT ![slot] = new]
      /\ src' = (src * 2^shift) % 256
      /\ room' = free - shift
      /\ rest' = rest - shift
  <2>1. Slot(target') = slot
    BY DEF Slot, PerElement
  <2> QED
    BY <2>1 DEF PackBits
<1>6. /\ limit \in Nat \ {0} /\ limit <= WordBits /\ 2^limit \in Nat
      /\ PerElement \in Nat \ {0} /\ PerPtxt \in Nat \ {0}
      /\ EleSize \in Nat \ {0} /\ Slots \in Nat
  BY <1>1, Numbers
<1>7. ad \in 1 .. PerPtxt /\ ad <= Len(ads) /\ ad \in Nat \ {0}
  BY <1>1, <1>6 DEF Sound
<1>8. Content(ad) = ads[ad]
  BY <1>7 DEF Content
<1>9. slot \in 0 .. Slots - 1
  BY <1>1, <1>4, <1>7, SlotIs
<1> HIDE DEF free, shift, slot, from, new
<1>10. src \in Nat /\ src < 256
  BY <1>1 DEF Sound, PackPlace
<1>11. /\ y \in Nat /\ Ends(y, ads[ad], 8 * i - rest, shift) /\ y < 2^shift
       /\ src * 2^shift \in Nat
       /\ Starts(src * 2^shift, 8, ads[ad], (8 * i - rest) + shift, rest - shift)
  <2>1. Starts(src, 8, ads[ad], 8 * i - rest, rest)
    BY <1>1 DEF PackBitsOf
  <2>2. 8 * i - rest \in Nat
    BY <1>4, <1>6
  <2> DEFINE eight == 8
             at == 8 * i - rest
  <2>3. /\ eight \in Nat /\ rest <= eight /\ eight <= WordBits /\ at \in Nat
        /\ src < 2^eight /\ Starts(src, eight, ads[ad], at, rest)
        /\ shift \in Nat /\ rest \in Nat
    <3>1. 2^8 = 256
      BY SmallPowers
    <3> QED
      BY <1>4, <1>10, <2>1, <2>2, <3>1, Sizes
  <2>4. /\ src \div 2^(eight - shift) \in Nat
        /\ Ends(src \div 2^(eight - shift), ads[ad], at, shift)
        /\ src * 2^shift \in Nat
        /\ Starts(src * 2^shift, eight, ads[ad], at + shift, rest - shift)
        /\ src \div 2^(eight - shift) < 2^shift
    <3> HIDE DEF eight, at
    <3> QED
      BY <1>4, <1>10, <2>3, TakeBits
  <2> QED
    BY <2>4
<1> HIDE DEF y
<1>12. Holds(new, ads[ad], from, (limit - free) + shift)
  <2>1. Holds(coeffs[slot], ads[ad], from, limit - free)
    <3>1. Holds(coeffs[PerElement * (ad - 1) + target'], Content(ad), target' * limit,
                Filled(ad, target'))
      BY <1>1, <1>4, <1>7 DEF PackCoeffs
    <3> QED
      BY <1>4, <1>8, <3>1 DEF slot, from
  <2>2. Holds(y, ads[ad], from + (limit - free), shift)
    <3>1. from + (limit - free) = 8 * i - rest
      BY <1>4, <1>6
    <3> QED
      BY <1>11, <3>1 DEF Holds
  <2>3. /\ limit - free \in Nat /\ shift \in Nat /\ from \in Nat
        /\ (limit - free) + shift <= WordBits
    BY <1>4, <1>6, Sizes
  <2> DEFINE k == limit - free
  <2> HIDE DEF k
  <2>4. Holds(BitOr(coeffs[slot] * 2^shift, y), ads[ad], from, k + shift)
    BY <2>1, <2>2, <2>3, PushBits DEF k
  <2> QED
    BY <2>4 DEF new, k
<1>13. new \in Nat /\ new < 2^limit
  <2>1. /\ (limit - free) + shift \in Nat /\ (limit - free) + shift <= limit
        /\ limit \in Nat
    BY <1>4, <1>6
  <2>2. 2^((limit - free) + shift) \in Nat /\ 2^((limit - free) + shift) <= 2^limit
    BY <1>6, <2>1, PowerMonotone
  <2> QED
    BY <1>6, <1>12, <2>2 DEF Holds
<1>14. Sound'
  <2>1. /\ coeffs' \in [0 .. Slots - 1 -> Nat]
        /\ \A s \in 0 .. Slots - 1 : coeffs'[s] < 2^limit
    BY <1>1, <1>5, <1>9, <1>13 DEF Sound
  <2>2. src' \in Nat
    <3> DEFINE wide == src * 2^shift
    <3>1. wide \in Nat
      BY <1>11
    <3>2. (wide % 256) \in Nat
      <4> HIDE DEF wide
      <4> QED
        BY <3>1
    <3> QED
      BY <1>5, <3>2
  <2> QED
    BY <1>1, <1>2, <1>3, <2>1, <2>2 DEF Sound
<1>15. PackPlace'
  <2>1. rest' \in 0 .. 8 /\ room' \in 0 .. limit
    BY <1>4, <1>5, <1>6
  <2>2. i \in 0 .. EleSize /\ bitsLeft = 8 * EleSize
    BY <1>1 DEF PackPlace
  <2>3. 8 * i - rest' = target' * limit + limit - room'
    <3>1. 8 * i - rest' = from + limit - room'
      BY <1>4, <1>5, <1>6, <2>2
    <3> QED
      BY <3>1 DEF from
  <2>4. src' < 256
    <3> DEFINE wide == src * 2^shift
    <3>1. wide \in Nat
      BY <1>11
    <3>2. (wide % 256) < 256
      <4> HIDE DEF wide
      <4> QED
        BY <3>1
    <3> QED
      BY <1>5, <3>2
  <2> QED
    BY <1>2, <1>3, <1>4, <2>1, <2>2, <2>3, <2>4 DEF PackPlace
<1>16. PackBitsOf'
  <2>1. ASSUME NEW n \in 8 - rest' .. 8 - 1
        PROVE  Bit(src', n) = AdBit(ads[ad], (8 * i - rest') + 8 - 1 - n)
    <3>1. /\ n \in 0 .. 7 /\ n \in 8 - (rest - shift) .. 8 - 1
          /\ (8 * i - rest) + shift + 8 - 1 - n = (8 * i - rest') + 8 - 1 - n
      <4>1. i \in Nat
        BY <1>1, <1>6 DEF PackPlace
      <4> QED
        BY <1>4, <1>5, <4>1
    <3>2. Bit(src * 2^shift, n) = AdBit(ads[ad], ((8 * i - rest) + shift) + 8 - 1 - n)
      BY <1>11, <3>1 DEF Starts
    <3>3. Bit((src * 2^shift) % 256, n) = Bit(src * 2^shift, n)
      <4> DEFINE wide == src * 2^shift
      <4>1. wide \in Nat
        BY <1>11
      <4> HIDE DEF wide
      <4>2. Bit(wide % 256, n) = Bit(wide, n)
        BY <3>1, <4>1, ByteBits
      <4> QED
        BY <4>2 DEF wide
    <3> QED
      BY <1>5, <3>1, <3>2, <3>3
  <2>2. Starts(src', 8, ads[ad], 8 * i - rest', rest')
    BY <2>1 DEF Starts
  <2> QED
    BY <1>2, <2>2 DEF PackBitsOf, Starts
<1>17. PackCoeffs'
  <2> SUFFICES ASSUME NEW e \in 1 .. PerPtxt, NEW t \in 0 .. PerElement - 1
               PROVE  Holds(coeffs[PerElement * (e - 1) + t], Content(e), t * limit,
                            Filled(e, t))'
    BY <1>3 DEF PackCoeffs
  <2>1. PerElement * (e - 1) + t \in 0 .. Slots - 1
    BY <1>1, SlotIs
  <2>2. CASE e = ad /\ t = target'
    <3>1. coeffs'[PerElement * (e - 1) + t] = new
      <4>1. slot = PerElement * (e - 1) + t
        BY <2>2 DEF slot
      <4> QED
        BY <1>1, <1>5, <2>1, <4>1 DEF Sound
    <3>2. Filled(e, t)' = limit - room'
      <4>1. ad' = ad /\ limit' = limit /\ ~ (e < ad') /\ ~ (t < target')
        BY <1>2, <1>4, <1>7, <2>2
      <4> QED
        BY <2>2, <4>1 DEF Filled
    <3>3. limit - room' = (limit - free) + shift
      BY <1>4, <1>5, <1>6
    <3>4. t * limit' = from /\ Content(e)' = ads[ad] /\ PerElement' = PerElement
      BY <1>2, <1>3, <1>8, <2>2 DEF from
    <3>5. Holds(new, ads[ad], from, limit - room')
      BY <1>12, <3>3
    <3> QED
      BY <3>1, <3>2, <3>4, <3>5 DEF Holds, Ends
  <2>3. CASE ~ (e = ad /\ t = target')
    <3>1. PerElement * (e - 1) + t # slot
      <4>1. e \in Nat \ {0} /\ PerElement \in Nat \ {0} /\ ad \in Nat \ {0}
        BY <1>6, <1>7
      <4> DEFINE c == PerElement
                 v == target'
      <4>2. v \in 0 .. c - 1 /\ t \in 0 .. c - 1 /\ c \in Nat \ {0}
        BY <1>4, <4>1
      <4> SUFFICES ASSUME c * (e - 1) + t = c * (ad - 1) + v PROVE FALSE
        BY DEF slot
      <4>3. e = ad /\ t = v
        <5> HIDE DEF c, v
        <5> QED
          BY <4>1, <4>2, PlaceIsOnly
      <4> QED
        BY <2>3, <4>3
    <3>2. coeffs'[PerElement * (e - 1) + t] = coeffs[PerElement * (e - 1) + t]
      BY <1>1, <1>5, <2>1, <3>1 DEF Sound
    <3>3. Filled(e, t)' = Filled(e, t)
      <4>1. ad' = ad /\ limit' = limit /\ e \in Nat /\ ad \in Nat /\ t \in Nat
        BY <1>2, <1>6, <1>7
      <4>2. CASE target' = target
        BY <2>3, <4>1, <4>2 DEF Filled
      <4>3. CASE target' = target + 1 /\ target' # target
        <5>1. room = 0 /\ target \in Nat
          BY <1>1, <4>3 DEF PackBits, PackPlace
        <5>2. limit - room = limit /\ (t < target' <=> t < target \/ t = target)
          BY <1>6, <4>1, <4>3, <5>1
        <5>3. e = ad => (t # target' /\ (t < target' <=> t < target \/ t = target))
          BY <2>3, <5>2
        <5>4. Filled(e, t) = IF e < ad \/ (e = ad /\ t < target') THEN limit ELSE 0
          BY <5>2, <5>3 DEF Filled
        <5>5. Filled(e, t)' = IF e < ad \/ (e = ad /\ t < target') THEN limit ELSE 0
          BY <4>1, <5>3 DEF Filled
        <5> QED
          BY <5>4, <5>5
      <4> QED
        BY <1>4, <4>2, <4>3
    <3>4. Holds(coeffs[PerElement * (e - 1) + t], Content(e), t * limit, Filled(e, t))
      BY <1>1 DEF PackCoeffs
    <3> QED
      BY <1>2, <1>3, <3>2, <3>3, <3>4 DEF Holds, Ends
  <2> QED
    BY <2>2, <2>3
<1>18. PackOutput'
  BY <1>1, <1>2, <1>3 DEF PackOutput
<1> QED
  BY <1>1, <1>2, <1>14, <1>15, <1>16, <1>17, <1>18 DEF CodecInv, Packing

\* The coefficients of the ad when its last one is filled up.
AdPacked(filled) ==
    /\ filled \in [0 .. Slots - 1 -> Nat]
    /\ \A s \in 0 .. Slots - 1 : filled[s] < 2^limit
    /\ \A e \in 1 .. PerPtxt, t \in 0 .. PerElement - 1 :
           Holds(filled[PerElement * (e - 1) + t], Content(e), t * limit,
                 IF e <= ad THEN limit ELSE 0)

LEMMA FilledUp ==
    ASSUME Sound, PackPlace, PackCoeffs, PackEnd
    PROVE  AdPacked([coeffs EXCEPT ![Slot(target)] = @ * 2^room])
<1> DEFINE slot == PerElement * (ad - 1) + target
           from == target * limit
           new == coeffs[slot] * 2^room
           filled == [coeffs EXCEPT ![slot] = new]
<1>1. /\ limit \in Nat \ {0} /\ limit <= WordBits
      /\ PerElement \in Nat \ {0} /\ PerPtxt \in Nat \ {0}
      /\ (PerElement - 1) * limit \in Nat
      /\ (PerElement - 1) * limit < 8 * EleSize
      /\ EleSize \in Nat \ {0} /\ Slots \in Nat
  BY Numbers
<1>2. /\ room \in 0 .. limit /\ target \in 0 .. PerElement - 1
      /\ 8 * EleSize = target * limit + limit - room
  BY <1>1 DEF PackPlace, PackEnd
<1>3. ad \in 1 .. PerPtxt /\ ad <= Len(ads) /\ ad \in Nat \ {0}
  BY <1>1 DEF Sound
<1>4. slot \in 0 .. Slots - 1 /\ from \in Nat
  BY <1>2, <1>3, SlotIs
<1>5. target = PerElement - 1
  <2> SUFFICES ASSUME target + 1 <= PerElement - 1 PROVE FALSE
    BY <1>1, <1>2
  <2>1. (target + 1) * limit <= (PerElement - 1) * limit /\ (target + 1) * limit \in Nat
    BY <1>1, <1>2, MoreTimes
  <2>2. (target + 1) * limit = target * limit + limit
    BY <1>1, <1>2
  <2>3. 8 * EleSize <= target * limit + limit
    BY <1>1, <1>2, <1>4
  <2> QED
    BY <1>1, <2>1, <2>2, <2>3
<1>6. Content(ad) = ads[ad]
  BY <1>3 DEF Content
<1>7. Holds(coeffs[slot], Content(ad), from, limit - room)
  <2>1. Filled(ad, target) = limit - room
    <3>1. ~ (ad < ad) /\ ~ (target < target)
      BY <1>2, <1>3
    <3> QED
      BY <3>1 DEF Filled
  <2> QED
    BY <1>2, <1>3, <2>1 DEF PackCoeffs
<1>8. Holds(new, Content(ad), from, limit)
  <2> DEFINE k == limit - room
  <2>1. /\ k \in Nat /\ room \in Nat /\ k + room = limit /\ k + room <= WordBits
        /\ from + k >= 8 * EleSize
    BY <1>1, <1>2, <1>4
  <2> HIDE DEF k, slot, from
  <2>2. Holds(coeffs[slot] * 2^room, Content(ad), from, k + room)
    BY <1>4, <1>7, <2>1, FillUp DEF k
  <2> QED
    BY <2>1, <2>2 DEF new
<1> HIDE DEF new
<1>9. /\ filled \in [0 .. Slots - 1 -> Nat] /\ filled[slot] = new
      /\ \A s \in 0 .. Slots - 1 : s # slot => filled[s] = coeffs[s]
  BY <1>4, <1>8 DEF Sound, Holds
<1>10. \A s \in 0 .. Slots - 1 : filled[s] < 2^limit
  BY <1>8, <1>9 DEF Sound, Holds
<1> HIDE DEF filled
<1>11. ASSUME NEW e \in 1 .. PerPtxt, NEW t \in 0 .. PerElement - 1
       PROVE  Holds(filled[PerElement * (e - 1) + t], Content(e), t * limit,
                    IF e <= ad THEN limit ELSE 0)
  <2>1. PerElement * (e - 1) + t \in 0 .. Slots - 1
    BY SlotIs
  <2>2. CASE e = ad /\ t = target
    <3>1. PerElement * (e - 1) + t = slot /\ t * limit = from /\ e <= ad
      BY <1>3, <2>2
    <3> HIDE DEF slot, from
    <3> QED
      BY <1>8, <1>9, <2>2, <3>1
  <2>3. CASE ~ (e = ad /\ t = target)
    <3>1. PerElement * (e - 1) + t # slot
      <4> DEFINE c == PerElement
      <4>1. /\ e \in Nat \ {0} /\ target \in 0 .. c - 1 /\ t \in 0 .. c - 1
            /\ c \in Nat \ {0}
        BY <1>1, <1>2
      <4> SUFFICES ASSUME c * (e - 1) + t = c * (ad - 1) + target PROVE FALSE
        OBVIOUS
      <4>2. e = ad /\ t = target
        <5> HIDE DEF c
        <5> QED
          BY <1>3, <4>1, PlaceIsOnly
      <4> QED
        BY <2>3, <4>2
    <3>2. Filled(e, t) = IF e <= ad THEN limit ELSE 0
      <4>1. e \in Nat /\ ad \in Nat /\ (e <= ad <=> e < ad \/ e = ad)
        BY <1>3
      <4>2. e = ad => t < target
        BY <1>1, <1>5, <2>3
      <4> QED
        BY <2>3, <4>1, <4>2 DEF Filled
    <3>3. Holds(coeffs[PerElement * (e - 1) + t], Content(e), t * limit, Filled(e, t))
      BY DEF PackCoeffs
    <3> QED
      BY <1>9, <2>1, <3>1, <3>2, <3>3
  <2> QED
    BY <2>2, <2>3
<1>12. Slot(target) = slot
  BY DEF Slot, PerElement
<1>13. filled = [coeffs EXCEPT ![Slot(target)] = @ * 2^room]
  BY <1>12 DEF filled, new
<1>14. AdPacked(filled)
  BY <1>9, <1>10, <1>11 DEF AdPacked
<1> QED
  BY <1>13, <1>14

LEMMA PackEndKeeps ==
    ASSUME CodecInv, PackEnd
    PROVE  CodecInv'
<1>1. Sound /\ PackPlace /\ PackCoeffs /\ PackOutput /\ pc = "pack"
  BY DEF CodecInv, Packing, PackEnd
<1>2. UNCHANGED <<limit, ads, output, src, rest, bitsLeft>> /\ i' = 0 /\ target' = 0
  BY DEF PackEnd
<1>3. /\ PerElement' = PerElement /\ PerPtxt' = PerPtxt /\ SizeOut' = SizeOut
      /\ \A e : Content(e)' = Content(e)
  BY <1>2, SameNumbers
<1>4. /\ limit \in Nat \ {0} /\ limit <= WordBits /\ 2^limit \in Nat
      /\ PerElement \in Nat \ {0} /\ PerPtxt \in Nat \ {0}
      /\ PerElement * PerPtxt \in Nat /\ PerElement * PerPtxt <= Slots
      /\ EleSize \in Nat \ {0} /\ Slots \in Nat /\ SizeOut \in Nat
  BY <1>1, Numbers
<1> DEFINE filled == [coeffs EXCEPT ![Slot(target)] = @ * 2^room]
           used == PerElement * PerPtxt
<1>5. AdPacked(filled)
  BY <1>1, FilledUp
<1>6. used = CoefficientsPerElement(limit) * ElementsPerPtxt(limit)
  BY DEF PerElement, PerPtxt
<1>7. rest = 0 /\ bitsLeft = 8 * EleSize /\ src < 256
  BY <1>1 DEF PackEnd, PackPlace
<1>8. ad \in Nat /\ ad >= 1 /\ ad <= Len(ads) /\ Len(ads) \in Nat
  BY <1>1, <1>4 DEF Sound
<1>9. CASE ad < Len(ads)
  <2>1. coeffs' = filled /\ ad' = ad + 1 /\ room' = limit /\ pc' = pc
    BY <1>9 DEF PackEnd
  <2> HIDE DEF filled
  <2>2. Sound'
    <3>1. ad' \in 1 .. Len(ads')
      BY <1>2, <1>8, <1>9, <2>1
    <3> QED
      BY <1>1, <1>2, <1>3, <1>5, <2>1, <3>1 DEF Sound, AdPacked
  <2>3. PackPlace'
    <3>1. 8 * i' - rest' = target' * limit + limit - room'
      <4>1. 0 * limit = 0
        BY <1>4
      <4> QED
        BY <1>2, <1>4, <1>7, <2>1, <4>1
    <3>2. /\ i' \in 0 .. EleSize /\ rest' \in 0 .. 8 /\ room' \in 0 .. limit
          /\ target' \in 0 .. PerElement - 1
      BY <1>2, <1>4, <1>7, <2>1
    <3> QED
      BY <1>2, <1>3, <1>7, <3>1, <3>2 DEF PackPlace
  <2>4. PackBitsOf'
    <3>1. 8 - rest' .. 8 - 1 = {}
      BY <1>2, <1>7
    <3> QED
      BY <3>1 DEF PackBitsOf, Starts
  <2>5. PackCoeffs'
    <3> SUFFICES ASSUME NEW e \in 1 .. PerPtxt, NEW t \in 0 .. PerElement - 1
                 PROVE  Holds(coeffs[PerElement * (e - 1) + t], Content(e), t * limit,
                              Filled(e, t))'
      BY <1>3 DEF PackCoeffs
    <3>1. Filled(e, t)' = IF e <= ad THEN limit ELSE 0
      <4>1. limit' - room' = 0 /\ ~ (t < target') /\ (e < ad' <=> e <= ad)
        BY <1>2, <1>4, <1>8, <2>1
      <4> QED
        BY <1>2, <4>1 DEF Filled
    <3>2. Holds(filled[PerElement * (e - 1) + t], Content(e), t * limit,
                IF e <= ad THEN limit ELSE 0)
      BY <1>5 DEF AdPacked
    <3> QED
      BY <1>2, <1>3, <2>1, <3>1, <3>2 DEF Holds, Ends
  <2>6. PackOutput'
    BY <1>1, <1>2, <1>3 DEF PackOutput
  <2> QED
    BY <1>1, <2>1, <2>2, <2>3, <2>4, <2>5, <2>6 DEF CodecInv, Packing
<1>10. CASE ~ (ad < Len(ads))
  <2>1. /\ coeffs' = [s \in 0 .. Slots - 1 |-> IF s < used THEN filled[s] ELSE 1]
        /\ room' = 8 /\ pc' = "unpack" /\ ad' = ad
    BY <1>6, <1>10 DEF PackEnd
  <2>2. ad = Len(ads)
    BY <1>8, <1>10
  <2> HIDE DEF filled
  <2>3. Sound'
    <3>1. 1 < 2^limit
      <4> DEFINE one == 1
      <4>1. one \in Nat /\ one <= limit
        BY <1>4
      <4>2. 2^one <= 2^limit
        <5> HIDE DEF one
        <5> QED
          BY <1>4, <4>1, PowerMonotone
      <4>3. 2^1 = 2
        BY SmallPowers
      <4> QED
        BY <1>4, <4>2, <4>3
    <3> HIDE DEF used
    <3>2. /\ coeffs' \in [0 .. Slots - 1 -> Nat]
          /\ \A s \in 0 .. Slots - 1 : coeffs'[s] < 2^limit
      BY <1>5, <2>1, <3>1 DEF AdPacked
    <3> QED
      BY <1>1, <1>2, <1>3, <2>1, <3>2 DEF Sound
  <2>4. AllPacked'
    <3> SUFFICES ASSUME NEW e \in 1 .. PerPtxt, NEW t \in 0 .. PerElement - 1
                 PROVE  Holds(coeffs[PerElement * (e - 1) + t], Content(e), t * limit,
                              limit)'
      BY <1>3 DEF AllPacked
    <3> DEFINE s == PerElement * (e - 1) + t
    <3>1. s \in 0 .. Slots - 1 /\ s < used /\ t * limit \in Nat
      BY <1>1, SlotIs
    <3> HIDE DEF used
    <3>2. coeffs'[s] = filled[s]
      BY <2>1, <3>1
    <3>3. Holds(filled[s], Content(e), t * limit, IF e <= ad THEN limit ELSE 0)
      BY <1>5 DEF AdPacked
    <3> HIDE DEF s
    <3>4. Holds(filled[s], Content(e), t * limit, limit)
      <4>1. CASE e <= ad
        BY <3>3, <4>1
      <4>2. CASE ~ (e <= ad)
        <5>1. Content(e) = NoAd
          BY <2>2, <4>2 DEF Content
        <5>2. filled[s] = 0
          BY <3>3, <4>2, SmallPowers DEF Holds
        <5>3. limit \in Nat /\ limit <= WordBits
          BY <1>4
        <5> QED
          BY <3>1, <5>1, <5>2, <5>3, NoAdHeld
      <4> QED
        BY <4>1, <4>2
    <3> QED
      BY <1>2, <1>3, <3>2, <3>4 DEF Holds, Ends, s
  <2>5. UnpackPlace'
    BY <1>2, <1>3, <1>4, <1>7, <2>1 DEF UnpackPlace
  <2>6. Written'
    <3>1. ASSUME NEW e \in 1 .. PerPtxt, NEW b \in 0 .. EleSize - 1
          PROVE  ~ (EleSize * (e - 1) + b < target')
      <4>1. EleSize * (e - 1) \in Nat /\ b \in Nat
        BY <1>4
      <4> DEFINE w == EleSize * (e - 1)
      <4> HIDE DEF w
      <4>2. ~ (w + b < 0)
        BY <4>1 DEF w
      <4> QED
        BY <1>2, <4>2 DEF w
    <3>2. \A p \in 0 .. SizeOut - 1 : output'[p] = 0
      BY <1>1, <1>2 DEF PackOutput
    <3> QED
      BY <1>3, <3>1, <3>2 DEF Written
  <2>7. AtStart'
    BY <1>2, <1>7, <2>1 DEF AtStart
  <2>8. Unpacking'
    BY <2>4, <2>5, <2>6, <2>7 DEF Unpacking
  <2> QED
    BY <2>1, <2>3, <2>8 DEF CodecInv
<1> QED
  BY <1>9, <1>10

-----------------------------------------------------------------------------
(* Unpacking.                                                              *)

\* What an ad's last coefficient leaves.
LEMMA AdDone ==
    ASSUME Sound, UnpackPlace, NEW e \in 1 .. PerPtxt, NEW t \in 0 .. PerElement - 1,
           InCoeff(e, t), Taken = 8 * EleSize
    PROVE  room = 8 /\ target = EleSize * e
<1>1. /\ EleSize \in Nat \ {0} /\ PerPtxt \in Nat /\ e \in Nat /\ e - 1 \in Nat
  BY Numbers
<1>2. EleSize * (e - 1) \in Nat /\ EleSize * e = EleSize * (e - 1) + EleSize
  BY <1>1
<1> DEFINE w == EleSize * (e - 1)
<1>3. /\ w \in Nat /\ EleSize * e = w + EleSize
      /\ 8 * target + 8 - room = 8 * w + 8 * EleSize
  BY <1>2 DEF InCoeff
<1>4. room \in 1 .. 8 /\ target \in Nat
  <2>1. SizeOut \in Nat
    BY Numbers
  <2> QED
    BY <2>1 DEF UnpackPlace
<1> HIDE DEF w
<1>5. room = 8 /\ target = w + EleSize
  BY <1>1, <1>3, <1>4
<1> QED
  BY <1>3, <1>5

\* All bits of an ad are taken in its last coefficient, and only there.
LEMMA LastCoeff ==
    ASSUME Sound, NEW e \in 1 .. PerPtxt, NEW t \in 0 .. PerElement - 1,
           InCoeff(e, t), rest = 0, bitsLeft \in 0 .. 8 * EleSize
    PROVE  /\ Taken \in 0 .. 8 * EleSize
           /\ Taken = 8 * EleSize <=> t = PerElement - 1
           /\ t < PerElement - 1 => Taken = (t + 1) * limit
<1>1. /\ EleSize \in Nat \ {0} /\ limit \in Nat \ {0} /\ PerElement \in Nat \ {0}
      /\ PerElement * limit \in Nat /\ 8 * EleSize <= PerElement * limit
      /\ (PerElement - 1) * limit \in Nat
      /\ (PerElement - 1) * limit < 8 * EleSize
  BY Numbers
<1>2. Taken \in 0 .. 8 * EleSize
  BY <1>1 DEF Taken
<1>3. t * limit \in Nat /\ (t + 1) * limit = t * limit + limit /\ t \in Nat
  BY <1>1
<1>4. Taken = Smaller((t + 1) * limit, 8 * EleSize)
  <2>1. Taken + 0 = Taken
    BY <1>1, <1>2
  <2> QED
    BY <1>3, <2>1 DEF InCoeff
<1>5. CASE t = PerElement - 1
  <2>1. t + 1 = PerElement
    BY <1>1, <1>5
  <2>2. (t + 1) * limit = PerElement * limit
    BY <2>1
  <2>3. Taken = 8 * EleSize
    BY <1>1, <1>4, <2>2 DEF Smaller
  <2> QED
    BY <1>2, <1>5, <2>3
<1>6. CASE t < PerElement - 1
  <2>1. t + 1 <= PerElement - 1 /\ t + 1 \in Nat /\ PerElement - 1 \in Nat
    BY <1>1, <1>3, <1>6
  <2>2. (t + 1) * limit <= (PerElement - 1) * limit /\ (t + 1) * limit \in Nat
    BY <1>1, <2>1, MoreTimes
  <2>3. (t + 1) * limit < 8 * EleSize
    BY <1>1, <2>2
  <2>4. Taken = (t + 1) * limit
    BY <1>1, <1>4, <2>2, <2>3 DEF Smaller
  <2> QED
    BY <1>1, <1>2, <1>6, <2>2, <2>3, <2>4
<1> QED
  BY <1>1, <1>5, <1>6

\* When the slots of all ads are used, all bytes are written.
LEMMA AllWritten ==
    ASSUME Sound, Unpacking, i = Slots, rest = 0 \/ target >= SizeOut
    PROVE  target = SizeOut
<1>1. /\ EleSize \in Nat \ {0} /\ PerPtxt \in Nat \ {0} /\ PerElement \in Nat \ {0}
      /\ Slots \in Nat /\ PerElement <= Slots
      /\ PerElement * PerPtxt \in Nat /\ PerElement * PerPtxt <= Slots
      /\ SizeOut \in Nat /\ SizeOut = EleSize * PerPtxt
  BY Numbers
<1>2. UnpackPlace
  BY DEF Unpacking
<1>3. target \in 0 .. SizeOut
  BY <1>2 DEF UnpackPlace
<1> SUFFICES ASSUME target < SizeOut PROVE FALSE
  BY <1>1, <1>3
<1>4. rest = 0
  BY <1>1, <1>3
<1>5. ~ AtStart
  BY <1>1 DEF AtStart
<1>6. PICK e \in 1 .. PerPtxt, t \in 0 .. PerElement - 1 : InCoeff(e, t)
  BY <1>5 DEF Unpacking, Inside
<1>7. i = PerElement * (e - 1) + t + 1
  BY <1>6 DEF InCoeff
<1>8. e = PerPtxt /\ t = PerElement - 1
  <2> DEFINE first == PerElement * (e - 1)
             all == PerElement * PerPtxt
  <2>1. first \in Nat /\ first + PerElement <= all /\ all <= first + t + 1 /\ all \in Nat
    <3>1. first \in Nat /\ first + PerElement <= all
      BY <1>1, PlaceAmong
    <3> QED
      BY <1>1, <1>7, <3>1
  <2>2. t = PerElement - 1 /\ first + PerElement = all
    <3> HIDE DEF first, all
    <3> QED
      BY <1>1, <2>1
  <2>3. e = PerPtxt
    <3> SUFFICES ASSUME e <= PerPtxt - 1 PROVE FALSE
      BY <1>1
    <3>1. e \in Nat /\ PerPtxt - 1 \in Nat /\ PerElement * e = first + PerElement
      BY <1>1, PlaceAmong
    <3>2. e * PerElement <= (PerPtxt - 1) * PerElement
      BY <1>1, <3>1, MoreTimes
    <3>3. /\ e * PerElement = PerElement * e
          /\ (PerPtxt - 1) * PerElement = all - PerElement
      BY <1>1, <3>1
    <3> HIDE DEF first, all
    <3> QED
      BY <1>1, <2>1, <2>2, <3>1, <3>2, <3>3
  <2> QED
    BY <2>2, <2>3
<1>9. Taken = 8 * EleSize
  <2>1. bitsLeft \in 0 .. 8 * EleSize
    BY DEF Sound
  <2> QED
    BY <1>4, <1>6, <1>8, <2>1, LastCoeff
<1>10. target = EleSize * e
  BY <1>2, <1>6, <1>9, AdDone
<1> QED
  BY <1>1, <1>8, <1>10

LEMMA SmallerMoved ==
    ASSUME NEW x \in Nat, NEW y \in Nat, NEW z \in Nat
    PROVE  z + Smaller(x, y) = Smaller(z + x, z + y)
BY DEF Smaller

\* A coefficient that is begun.
LEMMA CoeffBegun ==
    ASSUME Sound, AllPacked, UnpackCoeff,
           NEW e \in 1 .. PerPtxt, NEW t \in 0 .. PerElement - 1,
           i = PerElement * (e - 1) + t,
           8 * EleSize - bitsLeft' = t * limit, bitsLeft' \in 1 .. 8 * EleSize,
           8 * target + 8 - room = 8 * (EleSize * (e - 1)) + t * limit,
           room < 8 => Ends(output[target], Content(e), t * limit - (8 - room), 8 - room)
    PROVE  InCoeff(e, t)'
<1>1. UNCHANGED <<limit, ads, coeffs, output, ad, target, room, pc>>
  BY DEF UnpackCoeff
<1>2. /\ PerElement' = PerElement /\ PerPtxt' = PerPtxt /\ SizeOut' = SizeOut
      /\ \A f : Content(f)' = Content(f)
  BY <1>1, SameNumbers
<1>3. limit \in Nat \ {0} /\ limit <= WordBits /\ EleSize \in Nat \ {0}
  BY Numbers
<1>4. t * limit \in Nat
  BY SlotIs
<1>5. /\ i' = PerElement * (e - 1) + t + 1 /\ src' = coeffs[i]
      /\ rest' = Smaller(limit, bitsLeft')
  BY DEF UnpackCoeff, BitsUsed
<1>6. Taken' = t * limit
  BY DEF Taken
<1>7. rest' \in 0 .. limit /\ rest' \in Nat
  BY <1>3, <1>5 DEF Smaller
<1>8. Holds(src', Content(e), t * limit, limit)
  BY <1>5 DEF AllPacked
<1>9. src' < 2^limit
  BY <1>8 DEF Holds
<1>10. Starts(src', limit, Content(e), Taken', rest')
  <2>1. rest' <= limit
    BY <1>3, <1>7
  <2> QED
    BY <1>3, <1>4, <1>6, <1>7, <1>8, <2>1, HeldStarts
<1>11. Taken' + rest' = Smaller(t * limit + limit, 8 * EleSize)
  <2> DEFINE tl == t * limit
             left == bitsLeft'
             all == 8 * EleSize
  <2>0. all \in Nat /\ limit \in Nat
    BY <1>3
  <2>1. left \in 1 .. all /\ all - left = tl /\ tl \in Nat
    BY <1>4
  <2> HIDE DEF tl, left, all
  <2>2. all = tl + left /\ left \in Nat
    BY <2>0, <2>1
  <2>3. tl + Smaller(limit, left) = Smaller(tl + limit, tl + left)
    BY <2>0, <2>1, <2>2, SmallerMoved
  <2>4. tl + rest' = Smaller(tl + limit, all)
    BY <1>5, <2>2, <2>3 DEF left
  <2> QED
    BY <1>6, <2>4 DEF tl, all
<1>12. t * limit <= Taken'
  BY <1>4, <1>6
<1>13. /\ i' = PerElement' * (e - 1) + t + 1
       /\ 8 * target' + 8 - room' = 8 * (EleSize * (e - 1)) + Taken'
  BY <1>1, <1>2, <1>5, <1>6
<1>14. room' < 8 => Ends(output'[target'], Content(e), Taken' - (8 - room'), 8 - room')
  BY <1>1, <1>6
<1> QED
  BY <1>1, <1>2, <1>6, <1>9, <1>10, <1>11, <1>12, <1>13, <1>14
  DEF InCoeff, Starts, Ends, Smaller

LEMMA UnpackCoeffKeeps ==
    ASSUME CodecInv, UnpackCoeff
    PROVE  CodecInv'
<1>1. Sound /\ Unpacking /\ pc = "unpack"
  BY DEF CodecInv, UnpackCoeff
<1>2. AllPacked /\ UnpackPlace /\ Written
  BY <1>1 DEF Unpacking
<1>3. UNCHANGED <<limit, ads, coeffs, output, ad, target, room, pc>>
  BY DEF UnpackCoeff
<1>4. /\ PerElement' = PerElement /\ PerPtxt' = PerPtxt /\ SizeOut' = SizeOut
      /\ \A e : Content(e)' = Content(e)
  BY <1>3, SameNumbers
<1>5. /\ limit \in Nat \ {0} /\ EleSize \in Nat \ {0}
      /\ PerElement \in Nat \ {0} /\ PerPtxt \in Nat \ {0}
      /\ Slots \in Nat /\ PerElement * PerPtxt <= Slots
      /\ SizeOut \in Nat /\ SizeOut = EleSize * PerPtxt
  BY <1>1, Numbers
<1>6. /\ i \in 0 .. Slots - 1 /\ bitsLeft \in 0 .. 8 * EleSize
      /\ i' = i + 1 /\ src' = coeffs[i] /\ rest' = Smaller(limit, bitsLeft')
      /\ bitsLeft' = IF bitsLeft = 0 THEN 8 * EleSize ELSE bitsLeft
  BY <1>1, <1>2, <1>5 DEF UnpackCoeff, UnpackPlace, BitsUsed, Sound
<1>7. bitsLeft' \in 1 .. 8 * EleSize
  BY <1>5, <1>6
<1>8. Sound'
  <2>1. src' \in Nat /\ bitsLeft' \in 0 .. 8 * EleSize
    BY <1>1, <1>6, <1>7 DEF Sound
  <2> QED
    BY <1>1, <1>3, <1>4, <2>1 DEF Sound
<1>9. AllPacked'
  BY <1>2, <1>3, <1>4 DEF AllPacked, Holds, Ends
<1>10. UnpackPlace'
  <2>1. i' \in 0 .. Slots /\ rest' \in 0 .. limit
    BY <1>5, <1>6, <1>7 DEF Smaller
  <2> QED
    BY <1>2, <1>3, <1>4, <2>1 DEF UnpackPlace
<1>11. Written'
  BY <1>2, <1>3, <1>4 DEF Written
<1>12. ASSUME target < SizeOut PROVE Inside'
  <2> SUFFICES ASSUME TRUE
               PROVE  \E e \in 1 .. PerPtxt, t \in 0 .. PerElement - 1 : InCoeff(e, t)'
    BY <1>4 DEF Inside
  <2>1. rest = 0
    BY <1>2, <1>5, <1>12 DEF UnpackCoeff, UnpackPlace
  <2>2. CASE AtStart
    <3>1. 1 \in 1 .. PerPtxt /\ 0 \in 0 .. PerElement - 1
      BY <1>5
    <3>2. PerElement * (1 - 1) + 0 = 0 /\ 0 * limit = 0 /\ EleSize * (1 - 1) = 0
      BY <1>5
    <3>3. i = 0 /\ target = 0 /\ room = 8 /\ bitsLeft' = 8 * EleSize
      BY <1>5, <1>6, <2>2 DEF AtStart
    <3>4. /\ i = PerElement * (1 - 1) + 0
          /\ 8 * EleSize - bitsLeft' = 0 * limit
          /\ 8 * target + 8 - room = 8 * (EleSize * (1 - 1)) + 0 * limit
          /\ ~ (room < 8)
      BY <1>5, <3>2, <3>3
    <3> DEFINE one == 1
               none == 0
    <3>5. InCoeff(one, none)'
      <4>1. /\ one \in 1 .. PerPtxt /\ none \in 0 .. PerElement - 1
            /\ i = PerElement * (one - 1) + none
            /\ 8 * EleSize - bitsLeft' = none * limit
            /\ 8 * target + 8 - room = 8 * (EleSize * (one - 1)) + none * limit
        BY <3>1, <3>4
      <4> HIDE DEF one, none
      <4> QED
        BY <1>1, <1>2, <1>7, <3>4, <4>1, CoeffBegun
    <3> QED
      BY <3>1, <3>5
  <2>3. CASE Inside
    <3>1. PICK e \in 1 .. PerPtxt, t \in 0 .. PerElement - 1 : InCoeff(e, t)
      BY <2>3 DEF Inside
    <3>2. /\ Taken \in 0 .. 8 * EleSize
          /\ Taken = 8 * EleSize <=> t = PerElement - 1
          /\ t < PerElement - 1 => Taken = (t + 1) * limit
      BY <1>1, <1>6, <2>1, <3>1, LastCoeff
    <3>3. /\ i = PerElement * (e - 1) + t + 1
          /\ 8 * target + 8 - room = 8 * (EleSize * (e - 1)) + Taken
          /\ room < 8 => Ends(output[target], Content(e), Taken - (8 - room), 8 - room)
      BY <3>1 DEF InCoeff
    <3>4. Taken = 8 * EleSize <=> bitsLeft = 0
      BY <1>5, <1>6 DEF Taken
    <3>5. PerElement * (e - 1) \in Nat /\ e \in Nat \ {0} /\ e - 1 \in Nat
      BY <1>1, <1>5, SlotIs
    <3>6. CASE bitsLeft = 0
      <4>1. t = PerElement - 1 /\ room = 8 /\ target = EleSize * e
        BY <1>1, <1>2, <3>1, <3>2, <3>4, <3>6, AdDone
      <4>2. e + 1 \in 1 .. PerPtxt
        <5> SUFFICES ASSUME e = PerPtxt PROVE FALSE
          BY <1>5
        <5> QED
          BY <1>5, <1>12, <4>1
      <4>3. 0 \in 0 .. PerElement - 1 /\ 0 * limit = 0 /\ (e + 1) - 1 = e
        BY <1>5, <3>5
      <4>4. i = PerElement * e
        <5>1. PerElement * e = PerElement * (e - 1) + PerElement
          BY <1>5, <3>5
        <5> QED
          BY <1>5, <3>3, <3>5, <4>1, <5>1
      <4>5. bitsLeft' = 8 * EleSize
        BY <1>6, <3>6
      <4>6. EleSize * e \in Nat
        BY <1>5, <3>5
      <4> DEFINE f == e + 1
                 none == 0
      <4>7. /\ f \in 1 .. PerPtxt /\ none \in 0 .. PerElement - 1
            /\ i = PerElement * (f - 1) + none
            /\ 8 * EleSize - bitsLeft' = none * limit
            /\ 8 * target + 8 - room = 8 * (EleSize * (f - 1)) + none * limit
            /\ ~ (room < 8)
        <5>1. i = PerElement * e + 0
          BY <1>6, <4>4
        <5>2. 8 * EleSize - 8 * EleSize = 0
          BY <1>5
        <5>3. 8 * target + 8 - room = 8 * (EleSize * e) + 0
          BY <4>1, <4>6
        <5> QED
          BY <4>1, <4>2, <4>3, <4>5, <5>1, <5>2, <5>3
      <4>8. InCoeff(f, none)'
        <5> HIDE DEF f, none
        <5> QED
          BY <1>1, <1>2, <1>7, <4>7, CoeffBegun
      <4> QED
        BY <4>7, <4>8
    <3>7. CASE bitsLeft # 0
      <4>1. t < PerElement - 1
        BY <1>5, <3>2, <3>4, <3>7
      <4>2. Taken = (t + 1) * limit /\ t + 1 \in 0 .. PerElement - 1
        BY <1>5, <3>2, <4>1
      <4>3. bitsLeft' = bitsLeft
        BY <1>6, <3>7
      <4> DEFINE v == t + 1
      <4>4. /\ v \in 0 .. PerElement - 1
            /\ i = PerElement * (e - 1) + v
            /\ 8 * EleSize - bitsLeft' = v * limit
            /\ 8 * target + 8 - room = 8 * (EleSize * (e - 1)) + v * limit
            /\ room < 8 => Ends(output[target], Content(e), v * limit - (8 - room),
                                8 - room)
        <5>1. i = PerElement * (e - 1) + (t + 1)
          BY <3>3, <3>5
        <5>2. 8 * EleSize - bitsLeft' = Taken
          BY <4>3 DEF Taken
        <5> QED
          BY <3>3, <4>2, <5>1, <5>2
      <4>5. InCoeff(e, v)'
        <5> HIDE DEF v
        <5> QED
          BY <1>1, <1>2, <1>7, <4>4, CoeffBegun
      <4> QED
        BY <4>4, <4>5
    <3> QED
      BY <3>6, <3>7
  <2> QED
    BY <1>1, <1>12, <2>2, <2>3 DEF Unpacking
<1>13. Unpacking'
  BY <1>3, <1>4, <1>9, <1>10, <1>11, <1>12 DEF Unpacking
<1> QED
  BY <1>1, <1>3, <1>8, <1>13 DEF CodecInv

\* The bits that go from a coefficient of ad e to the byte begun, the q-th of it.
LEMMA ByteBegun ==
    ASSUME Sound, UnpackPlace, NEW e \in 1 .. PerPtxt, NEW t \in 0 .. PerElement - 1,
           InCoeff(e, t), rest > 0, bitsLeft \in 0 .. 8 * EleSize
    PROVE  LET q == target - EleSize * (e - 1)
           IN  /\ q \in 0 .. EleSize - 1
               /\ Taken \in Nat /\ 8 * q + (8 - room) = Taken
               /\ Taken + rest <= 8 * EleSize /\ rest <= limit - (Taken - t * limit)
<1>1. /\ EleSize \in Nat \ {0} /\ limit \in Nat \ {0} /\ PerElement \in Nat \ {0}
      /\ PerPtxt \in Nat /\ e - 1 \in Nat /\ SizeOut \in Nat
  BY Numbers
<1> DEFINE w == EleSize * (e - 1)
           tl == t * limit
           q == target - w
<1>2. w \in Nat /\ tl \in Nat
  BY <1>1
<1>3. /\ 8 * target + 8 - room = 8 * w + Taken
      /\ tl <= Taken /\ Taken + rest = Smaller(tl + limit, 8 * EleSize)
  BY DEF InCoeff
<1>4. room \in 1 .. 8 /\ target \in Nat /\ rest \in Nat
  BY <1>1 DEF UnpackPlace
<1>5. Taken \in Nat
  BY <1>1 DEF Taken
<1> HIDE DEF w, tl
<1>6. Taken + rest <= 8 * EleSize /\ Taken + rest <= tl + limit
  BY <1>1, <1>2, <1>3 DEF Smaller
<1>7. 8 * q + (8 - room) = Taken /\ q \in Int
  BY <1>2, <1>3, <1>4, <1>5
<1> HIDE DEF q
<1>8. q \in 0 .. EleSize - 1
  BY <1>1, <1>4, <1>5, <1>6, <1>7
<1>9. rest <= limit - (Taken - tl)
  BY <1>1, <1>2, <1>4, <1>5, <1>6
<1> QED
  BY <1>5, <1>6, <1>7, <1>8, <1>9 DEF q, w, tl

LEMMA UnpackBitsKeeps ==
    ASSUME CodecInv, UnpackBits
    PROVE  CodecInv'
<1>1. Sound /\ Unpacking /\ pc = "unpack" /\ rest > 0 /\ target < SizeOut
  BY DEF CodecInv, UnpackBits
<1>2. AllPacked /\ UnpackPlace /\ Written
  BY <1>1 DEF Unpacking
<1>3. UNCHANGED <<limit, ads, coeffs, ad, i, pc>>
  BY DEF UnpackBits
<1>4. /\ PerElement' = PerElement /\ PerPtxt' = PerPtxt /\ SizeOut' = SizeOut
      /\ \A e : Content(e)' = Content(e)
  BY <1>3, SameNumbers
<1>5. /\ limit \in Nat \ {0} /\ limit <= WordBits /\ EleSize \in Nat \ {0}
      /\ PerElement \in Nat \ {0} /\ PerPtxt \in Nat \ {0} /\ SizeOut \in Nat
  BY <1>1, Numbers
<1>6. /\ bitsLeft \in 0 .. 8 * EleSize /\ room \in 1 .. 8 /\ rest \in 1 .. limit
      /\ target \in 0 .. SizeOut - 1 /\ src \in Nat
  BY <1>1, <1>2, <1>5 DEF Sound, UnpackPlace
<1>7. output \in [0 .. SizeOut - 1 -> 0 .. 255] /\ output[target] \in 0 .. 255
  BY <1>1, <1>6 DEF Sound
<1>8. PICK e \in 1 .. PerPtxt, t \in 0 .. PerElement - 1 : InCoeff(e, t)
  <2>1. ~ AtStart
    BY <1>1 DEF AtStart
  <2> QED
    BY <1>1, <2>1 DEF Unpacking, Inside
<1> DEFINE shift == ShiftOf(room, rest)
           bytes == Content(e)
           q == target - EleSize * (e - 1)
           tl == t * limit
           y == src \div 2^(limit - shift)
           x == output[target]
           z == BitOr((x * 2^shift) % 256, y) % 256
<1>9. shift \in 1 .. 8 /\ shift <= rest /\ shift <= room /\ (shift = rest \/ shift = room)
  BY <1>5, <1>6 DEF ShiftOf, Smaller
<1>10. /\ output' = [output EXCEPT ![target] = z]
       /\ src' = src * 2^shift
       /\ target' = IF room = shift THEN target + 1 ELSE target
       /\ room' = IF room = shift THEN 8 ELSE room - shift
       /\ rest' = rest - shift /\ bitsLeft' = bitsLeft - shift
  BY DEF UnpackBits
<1>11. /\ q \in 0 .. EleSize - 1
       /\ Taken \in Nat /\ 8 * q + (8 - room) = Taken
       /\ Taken + rest <= 8 * EleSize /\ rest <= limit - (Taken - tl)
  BY <1>1, <1>2, <1>6, <1>8, ByteBegun
<1>12. tl \in Nat /\ EleSize * (e - 1) \in Nat
  BY <1>5
<1>13. bytes \in [1 .. EleSize -> 0 .. 255]
  <2>1. e \in Nat \ {0}
    BY <1>5
  <2> QED
    BY <1>1, <2>1, ContentType
<1>14. /\ i = PerElement * (e - 1) + t + 1
       /\ 8 * target + 8 - room = 8 * (EleSize * (e - 1)) + Taken
       /\ tl <= Taken
       /\ Taken + rest = Smaller(tl + limit, 8 * EleSize)
       /\ room < 8 => Taken = tl
       /\ Taken = tl => src < 2^limit
       /\ Starts(src, limit, bytes, Taken, rest)
       /\ room < 8 => Ends(x, bytes, Taken - (8 - room), 8 - room)
  BY <1>1, <1>8 DEF InCoeff
<1>15. Taken' = Taken + shift
  <2>1. Taken' = 8 * EleSize - bitsLeft'
    BY DEF Taken
  <2>2. 8 * EleSize - (bitsLeft - shift) = (8 * EleSize - bitsLeft) + shift
    BY <1>5, <1>6, <1>9
  <2> QED
    BY <1>10, <2>1, <2>2 DEF Taken
<1> HIDE DEF shift, bytes, q, tl
<1>16. /\ y \in Nat /\ Ends(y, bytes, Taken, shift)
       /\ src * 2^shift \in Nat
       /\ Starts(src * 2^shift, limit, bytes, Taken + shift, rest - shift)
       /\ src < 2^limit => y < 2^shift
  <2>1. /\ shift \in Nat /\ rest \in Nat /\ limit \in Nat /\ rest <= limit
        /\ shift <= rest /\ limit <= WordBits
    BY <1>5, <1>6, <1>9
  <2> QED
    BY <1>6, <1>11, <1>14, <2>1, TakeBits
<1> HIDE DEF y, x
<1>17. z \in 0 .. 255 /\ Ends(z, bytes, 8 * q, (8 - room) + shift)
  <2> DEFINE from == 8 * q
             k == 8 - room
  <2>1. /\ from \in Nat /\ k \in Nat /\ shift \in Nat /\ k + shift <= 8
        /\ x \in Nat /\ from + k = Taken
    <3>1. q \in Nat /\ k \in Nat /\ k + shift <= 8
      BY <1>5, <1>6, <1>9, <1>11
    <3>2. x \in Nat
      <4>1. x \in 0 .. 255
        BY <1>7 DEF x
      <4> HIDE DEF z
      <4> QED
        BY <4>1
    <3> QED
      BY <1>9, <1>11, <3>1, <3>2
  <2>2. Ends(x, bytes, from, k)
    <3>1. CASE room < 8
      <4>1. Taken - (8 - room) = from
        BY <1>6, <1>11
      <4> QED
        BY <1>14, <3>1, <4>1
    <3>2. CASE room = 8
      BY <3>2 DEF Ends
    <3> QED
      BY <1>6, <3>1, <3>2
  <2>3. (x = 0 /\ k = 0) \/ y < 2^shift
    <3>1. CASE room < 8
      BY <1>14, <1>16, <3>1
    <3>2. CASE room = 8
      <4>1. output[target] = 0
        BY <1>2, <1>6, <3>2 DEF Written
      <4> QED
        BY <3>2, <4>1 DEF x
    <3> QED
      BY <1>6, <3>1, <3>2
  <2>4. Ends(y, bytes, from + k, shift)
    BY <1>16, <2>1
  <2> HIDE DEF from, k
  <2>5. /\ (BitOr((x * 2^shift) % 256, y) % 256) \in 0 .. 255
        /\ Ends(BitOr((x * 2^shift) % 256, y) % 256, bytes, from, k + shift)
    <3>1. y \in Nat /\ shift \in Nat /\ x \in Nat /\ from \in Nat /\ k \in Nat
      BY <1>16, <2>1
    <3> QED
      BY <2>1, <2>2, <2>3, <2>4, <3>1, PushByte, ZenonT(60)
  <2> QED
    BY <2>5 DEF from, k
<1> HIDE DEF z
<1>18. /\ output' \in [0 .. SizeOut - 1 -> 0 .. 255] /\ output'[target] = z
       /\ \A p \in 0 .. SizeOut - 1 : p # target => output'[p] = output[p]
  BY <1>6, <1>7, <1>10, <1>17
<1>19. Sound'
  <2>1. src' \in Nat
    BY <1>10, <1>16
  <2>2. bitsLeft' \in 0 .. 8 * EleSize
    <3>1. bitsLeft >= rest
      BY <1>5, <1>6, <1>11 DEF Taken
    <3> QED
      BY <1>5, <1>6, <1>9, <1>10, <3>1
  <2> QED
    BY <1>1, <1>3, <1>4, <1>18, <2>1, <2>2 DEF Sound
<1>20. AllPacked'
  BY <1>2, <1>3, <1>4 DEF AllPacked, Holds, Ends
<1>21. UnpackPlace'
  <2>1. i \in 0 .. Slots
    BY <1>2 DEF UnpackPlace
  <2>2. rest' \in 0 .. limit /\ room' \in 1 .. 8 /\ target' \in 0 .. SizeOut
    BY <1>5, <1>6, <1>9, <1>10
  <2> QED
    BY <1>3, <1>4, <2>1, <2>2 DEF UnpackPlace
<1>22. room = shift => z = bytes[q + 1]
  <2> SUFFICES ASSUME room = shift PROVE z = bytes[q + 1]
    OBVIOUS
  <2>1. (8 - room) + shift = 8
    BY <1>6
  <2>2. Ends(z, bytes, 8 * q, 8)
    BY <1>17, <2>1
  <2> QED
    BY <1>11, <1>13, <1>17, <2>2, ByteFromBits
<1>23. Written'
  <2>1. ASSUME NEW f \in 1 .. PerPtxt, NEW b \in 0 .. EleSize - 1,
               EleSize * (f - 1) + b < target'
        PROVE  output'[EleSize * (f - 1) + b] = Content(f)[b + 1]
    <3> DEFINE p == EleSize * (f - 1) + b
    <3>1. p \in 0 .. SizeOut - 1
      <4>1. SizeOut = EleSize * PerPtxt /\ PerPtxt \in Nat
        BY <1>1, Numbers
      <4> QED
        BY <1>5, <4>1, PlaceAmong
    <3>2. CASE p < target
      <4>1. output[p] = Content(f)[b + 1]
        BY <1>2, <3>2 DEF Written
      <4>2. p # target
        <5> HIDE DEF p
        <5> QED
          BY <1>6, <3>1, <3>2
      <4> QED
        BY <1>18, <3>1, <4>1, <4>2
    <3>3. CASE ~ (p < target)
      <4>1. p = target /\ room = shift
        <5> HIDE DEF p
        <5>1. p < target'
          BY <2>1 DEF p
        <5> QED
          BY <1>6, <1>10, <3>1, <3>3, <5>1
      <4>2. EleSize * (f - 1) + b = EleSize * (e - 1) + q
        BY <1>6, <1>12, <4>1 DEF q
      <4>3. f = e /\ b = q
        <5>1. f \in Nat \ {0} /\ e \in Nat \ {0}
          BY <1>5
        <5> QED
          BY <1>5, <1>11, <4>2, <5>1, PlaceIsOnly
      <4> QED
        BY <1>18, <1>22, <4>1, <4>3 DEF bytes
    <3> QED
      BY <3>2, <3>3
  <2>2. ASSUME NEW p \in 0 .. SizeOut - 1, p > target' \/ (p = target' /\ room' = 8)
        PROVE  output'[p] = 0
    <3>1. p > target
      BY <1>6, <1>9, <1>10, <2>2
    <3>2. output[p] = 0 /\ p # target
      BY <1>2, <1>6, <3>1 DEF Written
    <3> QED
      BY <1>18, <3>2
  <2> QED
    BY <1>4, <2>1, <2>2 DEF Written
<1>24. InCoeff(e, t)'
  <2>1. i' = PerElement' * (e - 1) + t + 1
    BY <1>3, <1>4, <1>14
  <2>2. 8 * target' + 8 - room' = 8 * (EleSize * (e - 1)) + Taken'
    <3> DEFINE w == EleSize * (e - 1)
    <3>1. w \in Nat /\ 8 * target + 8 - room = 8 * w + Taken
      BY <1>12, <1>14
    <3> HIDE DEF w
    <3>2. 8 * target' + 8 - room' = 8 * w + Taken'
      BY <1>6, <1>9, <1>10, <1>11, <1>15, <3>1
    <3> QED
      BY <3>2 DEF w
  <2>3. tl < Taken' /\ tl <= Taken'
    BY <1>9, <1>11, <1>12, <1>14, <1>15
  <2>4. Taken' + rest' = Smaller(tl + limit, 8 * EleSize)
    <3>1. Taken' + rest' = Taken + rest
      BY <1>6, <1>9, <1>10, <1>11, <1>15
    <3> QED
      BY <1>14, <3>1
  <2>5. ~ (room' < 8 /\ rest' > 0)
    BY <1>6, <1>9, <1>10
  <2>6. Taken' # tl
    BY <1>11, <1>12, <1>15, <2>3
  <2>7. Starts(src', limit, bytes, Taken', rest')
    BY <1>10, <1>15, <1>16
  <2>8. ASSUME room' < 8
        PROVE  Ends(output'[target'], bytes, Taken' - (8 - room'), 8 - room')
    <3>1. room # shift
      BY <1>10, <2>8
    <3>2. target' = target /\ room' = room - shift
      BY <1>10, <3>1
    <3>3. Taken' - (8 - room') = 8 * q /\ 8 - room' = (8 - room) + shift
      BY <1>6, <1>9, <1>11, <1>15, <3>2
    <3> QED
      BY <1>17, <1>18, <3>2, <3>3
  <2>9. limit' = limit /\ Content(e)' = bytes
    BY <1>3, <1>4 DEF bytes
  <2> QED
    BY <2>1, <2>2, <2>3, <2>4, <2>5, <2>6, <2>7, <2>8, <2>9
    DEF InCoeff, Starts, Ends, Smaller, tl
<1>25. Inside'
  BY <1>4, <1>8, <1>24 DEF Inside
<1>26. Unpacking'
  BY <1>20, <1>21, <1>23, <1>25 DEF Unpacking
<1> QED
  BY <1>1, <1>3, <1>19, <1>26 DEF CodecInv

-----------------------------------------------------------------------------
(* The theorems.                                                           *)

LEMMA StepSound == CodecInv /\ [Next]_vars => CodecInv'
<1> SUFFICES ASSUME CodecInv, [Next]_vars PROVE CodecInv'
  OBVIOUS
<1>1. CASE PackByte
  BY <1>1, PackByteKeeps
<1>2. CASE PackBits
  BY <1>2, PackBitsKeeps
<1>3. CASE PackEnd
  BY <1>3, PackEndKeeps
<1>4. CASE UnpackCoeff
  BY <1>4, UnpackCoeffKeeps
<1>5. CASE UnpackBits
  BY <1>5, UnpackBitsKeeps
<1>6. CASE UNCHANGED vars
  <2>1. /\ UNCHANGED <<limit, ads, coeffs, output, ad, i, target, src, rest>>
        /\ UNCHANGED <<room, bitsLeft, pc>>
    BY <1>6 DEF vars
  <2>2. /\ PerElement' = PerElement /\ PerPtxt' = PerPtxt /\ SizeOut' = SizeOut
        /\ \A e : Content(e)' = Content(e)
    BY <2>1, SameNumbers
  <2>3. Sound'
    BY <2>1, <2>2 DEF CodecInv, Sound
  <2>4. Packing => Packing'
    <3>1. \A e, t : Filled(e, t)' = Filled(e, t)
      BY <2>1 DEF Filled
    <3>2. PackPlace => PackPlace'
      BY <2>1, <2>2 DEF PackPlace
    <3>3. PackBitsOf => PackBitsOf'
      BY <2>1 DEF PackBitsOf, Starts
    <3>4. PackCoeffs => PackCoeffs'
      BY <2>1, <2>2, <3>1 DEF PackCoeffs, Holds, Ends
    <3>5. PackOutput => PackOutput'
      BY <2>1, <2>2 DEF PackOutput
    <3> QED
      BY <3>2, <3>3, <3>4, <3>5 DEF Packing
  <2>5. Unpacking => Unpacking'
    <3>1. AllPacked => AllPacked'
      BY <2>1, <2>2 DEF AllPacked, Holds, Ends
    <3>2. (UnpackPlace => UnpackPlace') /\ (Written => Written')
      BY <2>1, <2>2 DEF UnpackPlace, Written
    <3>3. AtStart => AtStart'
      BY <2>1 DEF AtStart
    <3>4. Inside => Inside'
      <4>1. \A e, t : InCoeff(e, t) => InCoeff(e, t)'
        BY <2>1, <2>2 DEF InCoeff, Taken, Starts, Ends, Smaller
      <4> QED
        BY <2>2, <4>1 DEF Inside
    <3> QED
      BY <2>1, <2>2, <3>1, <3>2, <3>3, <3>4 DEF Unpacking
  <2> QED
    BY <2>1, <2>3, <2>4, <2>5 DEF CodecInv
<1> QED
  BY <1>1, <1>2, <1>3, <1>4, <1>5, <1>6 DEF Next

LEMMA CodecAlways == Spec => []CodecInv
<1>1. Init => CodecInv
  BY InitSound
<1>2. CodecInv /\ [Next]_vars => CodecInv'
  BY StepSound
<1> QED
  BY <1>1, <1>2, PTL DEF Spec

\* bytes_to_coeffs writes to no coefficient behind those of the plaintext,
\* coeffs_to_bytes to no byte behind size_out, and neither shifts by more bits than
\* there are.
THEOREM CodecTypeCorrect == Spec => []TypeOK
<1>1. CodecInv => TypeOK
  <2> SUFFICES ASSUME CodecInv PROVE TypeOK
    OBVIOUS
  <2>1. Sound /\ pc \in {"pack", "unpack"}
    BY DEF CodecInv, Sound
  <2>2. PerElement \in Nat /\ PerElement <= Slots /\ Slots \in Nat
    BY <2>1, Numbers
  <2>3. CASE pc = "pack"
    <3>1. /\ i \in 0 .. EleSize /\ rest \in 0 .. 8 /\ room \in 0 .. limit
          /\ target \in 0 .. PerElement - 1
      BY <2>3 DEF CodecInv, Packing, PackPlace
    <3>2. target \in 0 .. Slots - 1
      BY <2>2, <3>1
    <3>3. Slot(target) \in 0 .. Slots - 1
      <4>1. /\ PerElement \in Nat \ {0} /\ PerPtxt \in Nat /\ ad \in 1 .. PerPtxt
            /\ PerElement * PerPtxt \in Nat /\ PerElement * PerPtxt <= Slots
        BY <2>1, Numbers DEF Sound
      <4>2. PerElement * (ad - 1) + target \in 0 .. PerElement * PerPtxt - 1
        BY <3>1, <4>1, PlaceAmong
      <4>3. Slot(target) = PerElement * (ad - 1) + target
        BY DEF Slot, PerElement
      <4> QED
        BY <2>2, <4>1, <4>2, <4>3
    <3> QED
      BY <2>1, <2>3, <3>1, <3>2, <3>3 DEF TypeOK, Sound
  <2>4. CASE pc = "unpack"
    <3>1. /\ i \in 0 .. Slots /\ rest \in 0 .. limit /\ room \in 0 .. 8
          /\ target \in 0 .. SizeOut
      BY <2>4 DEF CodecInv, Unpacking, UnpackPlace
    <3> QED
      BY <2>1, <2>4, <3>1 DEF TypeOK, Sound
  <2> QED
    BY <2>1, <2>3, <2>4
<1> QED
  BY <1>1, CodecAlways, PTL

\* A coefficient gets no more bits than the plain modulus has room for, and an ad no
\* more coefficients than coefficients_per_element says.
THEOREM CoefficientsAlwaysFit == Spec => []CoefficientsFit
<1>1. CodecInv => CoefficientsFit
  <2> SUFFICES ASSUME CodecInv PROVE CoefficientsFit
    OBVIOUS
  <2>1. Sound
    BY DEF CodecInv
  <2>2. ASSUME pc = "pack" PROVE target < CoefficientsPerElement(limit)
    <3>1. target \in 0 .. PerElement - 1 /\ PerElement \in Nat
      BY <2>1, <2>2, Numbers DEF CodecInv, Packing, PackPlace
    <3> QED
      BY <3>1 DEF PerElement
  <2> QED
    BY <2>1, <2>2 DEF CoefficientsFit, Sound
<1> QED
  BY <1>1, CodecAlways, PTL

\* extract_bytes gives back the bytes that set_database packed, each at its place.
THEOREM AdsAlwaysReadBack == Spec => []AdsReadBack
<1>1. CodecInv => AdsReadBack
  <2> SUFFICES ASSUME CodecInv, pc = "unpack", i = Slots, rest = 0 \/ target >= SizeOut,
                      NEW offset \in 0 .. ElementsPerPtxt(limit) - 1,
                      NEW b \in 0 .. EleSize - 1
               PROVE  output[offset * EleSize + b] =
                          IF offset < Len(ads) THEN ads[offset + 1][b + 1] ELSE 0
    BY DEF AdsReadBack
  <2>1. Sound /\ Unpacking
    BY DEF CodecInv
  <2>2. target = SizeOut
    BY <2>1, AllWritten
  <2>3. /\ PerPtxt \in Nat \ {0} /\ EleSize \in Nat \ {0}
        /\ SizeOut = EleSize * PerPtxt /\ Len(ads) \in Nat
    BY <2>1, Numbers DEF Sound
  <2> DEFINE e == offset + 1
  <2>4. e \in 1 .. PerPtxt /\ e - 1 = offset
    BY <2>3 DEF PerPtxt
  <2> HIDE DEF e
  <2>5. EleSize * (e - 1) + b < target
    <3>1. EleSize * (e - 1) + b \in 0 .. EleSize * PerPtxt - 1
      BY <2>3, <2>4, PlaceAmong
    <3>2. EleSize * PerPtxt \in Nat
      BY <2>3
    <3> QED
      BY <2>2, <2>3, <3>1, <3>2
  <2>6. output[EleSize * (e - 1) + b] = Content(e)[b + 1]
    BY <2>1, <2>4, <2>5 DEF Unpacking, Written
  <2>7. EleSize * (e - 1) = offset * EleSize
    BY <2>3, <2>4
  <2>8. Content(e)[b + 1] = IF offset < Len(ads) THEN ads[offset + 1][b + 1] ELSE 0
    <3>1. e <= Len(ads) <=> offset < Len(ads)
      BY <2>3, <2>4
    <3>2. b + 1 \in 1 .. EleSize
      BY <2>3
    <3> QED
      BY <3>1, <3>2 DEF Content, NoAd, e
  <2> QED
    BY <2>6, <2>7, <2>8
<1> QED
  BY <1>1, CodecAlways, PTL

=============================================================================
