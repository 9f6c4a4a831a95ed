------------------------- MODULE SetupMessagesProofs -------------------------
(***************************************************************************)
(* The two messages as the client has them, for any layout, any number of  *)
(* ads and however much of either has come.  Of the parameters: what is    *)
(* read of the vector stays within what was allocated for it, nothing is   *)
(* written through the pointers of the other process, and a message that   *)
(* is not cut brings all that is used.  Of the first ads: what is cut out  *)
(* of the text for a number is the ad of that number.                      *)
(***************************************************************************)
EXTENDS SetupMessages, SequenceTheorems, WellFoundedInduction, TLAPS

-----------------------------------------------------------------------------
(* Numbers and their powers.                                               *)

LEMMA Induction ==
    ASSUME NEW S, 0 \in S, \A n \in Nat : n \in S => n + 1 \in S
    PROVE  Nat \subseteq S
<1> DEFINE R == OpToRel(<, Nat)
           Missing == Nat \ S
<1>1. IsWellFoundedOn(R, Nat)
  BY NatLessThanWellFounded
<1>2. ASSUME NEW x \in Nat, NEW y \in Nat PROVE <<y, x>> \in R <=> y < x
  BY DEF OpToRel
<1> SUFFICES ASSUME Missing # {} PROVE FALSE
  OBVIOUS
<1>3. Missing \subseteq Nat
  OBVIOUS
<1>4. PICK x \in Missing : \A y \in Missing : ~ (<<y, x>> \in R)
  <2> HIDE DEF Missing, R
  <2> QED
    BY <1>1, <1>3, WFMin
<1>5. x \in Nat /\ x # 0 /\ x \notin S
  BY <1>4
<1>6. x - 1 \in Nat /\ x - 1 < x /\ x - 1 + 1 = x
  BY <1>5
<1>7. x - 1 \notin Missing
  <2> HIDE DEF R
  <2> QED
    BY <1>2, <1>4, <1>5, <1>6
<1>8. x - 1 \in S
  BY <1>6, <1>7
<1> QED
  BY <1>5, <1>6, <1>8

\* A set of naturals that is not empty has a least one.
LEMMA LeastOf ==
    ASSUME NEW Some, Some \subseteq Nat, Some # {}
    PROVE  \E least \in Some : \A n \in Some : least <= n
<1> DEFINE R == OpToRel(<, Nat)
<1>1. IsWellFoundedOn(R, Nat)
  BY NatLessThanWellFounded
<1>2. \A x \in Nat, y \in Nat : <<y, x>> \in R <=> y < x
  BY DEF OpToRel
<1> HIDE DEF R
<1>3. PICK least \in Some : \A n \in Some : ~ (<<n, least>> \in R)
  BY <1>1, WFMin
<1>4. \A n \in Some : n \in Nat /\ least \in Nat /\ ~ (n < least)
  BY <1>2, <1>3
<1> QED
  BY <1>4

LEMMA Parameters ==
    /\ Word \in Nat \ {0} /\ EncLen \in Nat \ {0} /\ Base \in Nat /\ Base > 1
    /\ NumGroups \in Nat \ {0} /\ AdsPerGroup \in Nat \ {0} /\ AdSize \in Nat \ {0}
    /\ MaxDigits \in Nat \ {0} /\ Radix \in Nat /\ Radix > 1
BY MessagesAssumption

LEMMA BasePowers ==
    /\ \A k \in 0 .. Word : Base ^ k \in Nat \ {0}
    /\ \A k \in 1 .. Word : Base <= Base ^ k
<1> DEFINE S == {k \in Nat : k <= Word => Base ^ k \in Nat \ {0}}
<1>1. 0 \in S
  BY PowersAssumption
<1>2. ASSUME NEW k \in Nat, k \in S PROVE k + 1 \in S
  <2> SUFFICES ASSUME k + 1 <= Word PROVE Base ^ (k + 1) \in Nat \ {0}
    OBVIOUS
  <2>1. Base ^ k \in Nat \ {0} /\ k \in 0 .. Word - 1
    BY <1>2, Parameters
  <2>2. Base ^ (k + 1) = Base * Base ^ k
    BY <2>1, PowersAssumption
  <2>3. Base * Base ^ k \in Nat \ {0}
    BY <2>1, Parameters
  <2> QED
    BY <2>2, <2>3
<1>3. Nat \subseteq S
  <2> HIDE DEF S
  <2> QED
    BY <1>1, <1>2, Induction
<1>4. \A k \in 0 .. Word : Base ^ k \in Nat \ {0}
  BY <1>3, Parameters
<1>5. ASSUME NEW k \in 1 .. Word PROVE Base <= Base ^ k
  <2>1. k - 1 \in 0 .. Word - 1 /\ k - 1 \in 0 .. Word /\ (k - 1) + 1 = k
    BY Parameters
  <2>2. Base ^ ((k - 1) + 1) = Base * Base ^ (k - 1) /\ Base ^ (k - 1) \in Nat \ {0}
    BY <1>4, <2>1, PowersAssumption
  <2>3. Base * Base ^ (k - 1) >= Base
    BY <2>2, Parameters
  <2> QED
    BY <2>1, <2>2, <2>3
<1> QED
  BY <1>4, <1>5

LEMMA RadixPowers == \A k \in 0 .. MaxDigits : Radix ^ k \in Nat \ {0} /\ k < Radix ^ k
<1> DEFINE S == {k \in Nat : k <= MaxDigits => Radix ^ k \in Nat \ {0} /\ k < Radix ^ k}
<1>1. 0 \in S
  BY PowersAssumption
<1>2. ASSUME NEW k \in Nat, k \in S PROVE k + 1 \in S
  <2> SUFFICES ASSUME k + 1 <= MaxDigits
               PROVE  Radix ^ (k + 1) \in Nat \ {0} /\ k + 1 < Radix ^ (k + 1)
    OBVIOUS
  <2>1. Radix ^ k \in Nat \ {0} /\ k < Radix ^ k /\ k \in 0 .. MaxDigits - 1
    BY <1>2, Parameters
  <2>2. Radix ^ (k + 1) = Radix * Radix ^ k
    BY <2>1, PowersAssumption
  <2>3. Radix * Radix ^ k \in Nat /\ Radix * Radix ^ k >= 2 * Radix ^ k
    BY <2>1, Parameters
  <2> QED
    BY <2>1, <2>2, <2>3
<1>3. Nat \subseteq S
  <2> HIDE DEF S
  <2> QED
    BY <1>1, <1>2, Induction
<1> QED
  BY <1>3, Parameters

-----------------------------------------------------------------------------
(* Words.                                                                  *)

LEMMA Sizes ==
    /\ Word \in Nat \ {0} /\ EncLen \in Nat \ {0} /\ Base \in Nat
    /\ \A f \in PirFields : PirParams[f] \in Nat \ {0}
    /\ Base ^ Word \in Nat \ {0}
<1>1. Word \in 0 .. Word
  BY MessagesAssumption
<1> QED
  BY <1>1, MessagesAssumption, BasePowers DEF PirFields

\* A vector's size counts its two counts and its elements, and fits in a byte.
LEMMA VecSizeFacts ==
    ASSUME NEW vec \in Vectors
    PROVE  /\ Len(vec) \in Nat
           /\ Len(vec) * Word \in Nat
           /\ VecSize(vec) = 2 * Word + Len(vec) * Word
           /\ VecSize(vec) \in Nat /\ VecSize(vec) < Base
<1>1. Len(vec) \in Nat
  BY MessagesAssumption, LenProperties
<1>2. Len(vec) * Word \in Nat
  BY <1>1, Sizes
<1> QED
  BY <1>1, <1>2, Sizes, VectorAssumption DEF VecSize

\* The value of a word of which some bytes have come: never more than its own,
\* and its own once all of its bytes have come or all that are not zero.
LEMMA ReceivedFacts ==
    ASSUME NEW n \in Nat, NEW at \in Nat, NEW v \in Nat
    PROVE  /\ Received(n, at, v) \in Nat
           /\ Received(n, at, v) <= v
           /\ n >= at + Word /\ v < Base ^ Word => Received(n, at, v) = v
           /\ n > at /\ v < Base => Received(n, at, v) = v
<1> DEFINE bytes == IF n <= at THEN 0 ELSE IF n >= at + Word THEN Word ELSE n - at
<1>1. /\ bytes \in 0 .. Word
      /\ n > at => bytes \in 1 .. Word
      /\ n >= at + Word => bytes = Word
  BY Sizes
<1> HIDE DEF bytes
<1> DEFINE power == Base ^ bytes
<1>2. /\ power \in Nat \ {0}
      /\ n > at => Base <= power
      /\ n >= at + Word => power = Base ^ Word
  BY <1>1, BasePowers
<1>3. Received(n, at, v) = v % power
  BY DEF Received, bytes
<1> HIDE DEF power
<1>4. v % power \in Nat /\ v % power <= v /\ (v < power => v % power = v)
  BY <1>2
<1>5. n > at /\ v < Base => v < power
  BY <1>2, Sizes
<1> QED
  BY <1>2, <1>3, <1>4, <1>5

LEMMA EncSizeFacts ==
    ASSUME NEW n \in Nat
    PROVE  /\ EncSize(n) \in Nat
           /\ n >= Word => EncSize(n) = EncLen
<1>1. 0 \in Nat /\ EncLen \in Nat /\ EncLen < Base ^ Word
  BY Sizes, WordAssumption
<1>2. /\ Received(n, 0, EncLen) \in Nat
      /\ n >= 0 + Word => Received(n, 0, EncLen) = EncLen
  BY <1>1, ReceivedFacts
<1> QED
  BY <1>2, Sizes DEF EncSize

\* What the client reads of the vector: its two counts, and as many elements as
\* their count has come to be, which is at most the vector's.
LEMMA ElementsFacts ==
    ASSUME NEW n \in Nat, nvec \in Vectors
    PROVE  Len(Elements(n)) \in Nat /\ Len(Elements(n)) <= Len(nvec)
<1> DEFINE at == VecAt(EncSize(n))
           count == Received(n, at + (1 - 1) * Word, Serialized(nvec)[1])
<1>1. at + (1 - 1) * Word \in Nat
  BY Sizes, EncSizeFacts DEF VecAt, VecSizeAt, PirAt, PirLen
<1>2. Serialized(nvec)[1] = Len(nvec)
  BY MessagesAssumption DEF Serialized
<1>3. count \in Nat /\ count <= Len(nvec)
  BY <1>1, <1>2, ReceivedFacts, VecSizeFacts
<1>4. Len(Elements(n)) = count
  <2> HIDE DEF count
  <2> DEFINE word(i) == Received(n, at + (i - 1) * Word, Serialized(nvec)[i])
  <2>1. Elements(n) = [i \in 1 .. count |-> word(i + 2)]
    BY DEF Elements, count
  <2> HIDE DEF word
  <2>2. DOMAIN Elements(n) = 1 .. count
    BY <2>1
  <2> QED
    BY <1>3, <2>1, <2>2
<1> QED
  BY <1>3, <1>4

-----------------------------------------------------------------------------
(* The client's side of the parameters.                                    *)

MessageTypes ==
    /\ stage \in Stages
    /\ nvec \in Vectors
    /\ sent \in {0, SentLength(nvec)}
    /\ received \in 0 .. sent

\* A message that came whole brings the values of the server, and a vector read
\* within its bounds.
ShortfallInv ==
    /\ stage \in {"connect", "params"} => received = 0
    /\ stage # "connect" => sent = SentLength(nvec)
    /\ ShortfallHarmless

ParamsInv ==
    /\ MessageTypes
    /\ VectorOverreadExactlyWhenUncounted
    /\ ShortfallInv

LEMMA SentLengthFacts ==
    ASSUME NEW vec \in Vectors
    PROVE  /\ SentLength(vec) \in Nat \ {0}
           /\ SentLength(vec) = EncLen + 6 * Word + Len(vec) * Word + 2
BY Sizes, VecSizeFacts DEF SentLength, PirLen

\* The length of the vector's part is known as soon as a byte of it has come.
LEMMA VecSizeKnown ==
    ASSUME NEW n \in Nat, nvec \in Vectors, n > VecSizeAt(EncLen)
    PROVE  Parsed(n).vec_size = VecSize(nvec)
<1>1. VecSizeAt(EncLen) = EncLen + 5 * Word
  BY Sizes DEF VecSizeAt, PirAt, PirLen
<1>2. EncSize(n) = EncLen
  BY <1>1, Sizes, EncSizeFacts
<1>3. VecSizeAt(EncLen) \in Nat /\ VecSize(nvec) \in Nat /\ VecSize(nvec) < Base
  BY <1>1, Sizes, VecSizeFacts
<1>4. Received(n, VecSizeAt(EncLen), VecSize(nvec)) = VecSize(nvec)
  BY <1>3, ReceivedFacts
<1> QED
  BY <1>2, <1>4 DEF Parsed

\* Then its elements are read within it, however many of them have come.
LEMMA VectorBounded ==
    ASSUME NEW n \in Nat, nvec \in Vectors, params' = Parsed(n),
           ClientReadsVector(n), n > VecSizeAt(EncLen)
    PROVE  ~ (vecRead' > params'.vec_size)
<1>1. params'.vec_size = 2 * Word + Len(nvec) * Word
  BY VecSizeKnown, VecSizeFacts
<1>2. ~ (params'.vec_size < 2 * Word)
  BY <1>1, Sizes, VecSizeFacts
<1>3. vecRead' = 2 * Word + Len(Elements(n)) * Word
  BY <1>2 DEF ClientReadsVector
<1>4. /\ Len(Elements(n)) \in Nat /\ Len(Elements(n)) <= Len(nvec)
      /\ Len(nvec) \in Nat
  BY ElementsFacts, VecSizeFacts
<1>5. Len(Elements(n)) * Word <= Len(nvec) * Word
      /\ Len(Elements(n)) * Word \in Nat /\ Len(nvec) * Word \in Nat
  BY <1>4, Sizes
<1> QED
  BY <1>1, <1>3, <1>5, Sizes

\* Without a byte of it nothing is allocated, and its two counts are read for all
\* that.
LEMMA VectorUncounted ==
    ASSUME NEW n \in Nat, params' = Parsed(n), nvec \in Vectors,
           ClientReadsVector(n), n <= VecSizeAt(EncLen)
    PROVE  vecRead' > params'.vec_size
<1> DEFINE at == VecSizeAt(EncSize(n))
<1>1. EncSize(n) \in Nat /\ (n >= Word => EncSize(n) = EncLen)
  BY EncSizeFacts
<1>2. at \in Nat /\ at >= Word
  BY <1>1, Sizes DEF VecSizeAt, PirAt, PirLen
<1>3. n <= at
  BY <1>1, <1>2, Sizes
<1> HIDE DEF at
<1>4. Received(n, at, VecSize(nvec)) = VecSize(nvec) % (Base ^ 0)
  BY <1>2, <1>3 DEF Received
<1>5. Received(n, at, VecSize(nvec)) = 0
  <2>1. VecSize(nvec) \in Nat /\ Base ^ 0 = 1
    BY VecSizeFacts, PowersAssumption
  <2> QED
    BY <1>4, <2>1
<1>6. params'.vec_size = 0
  BY <1>1, <1>5 DEF Parsed, at
<1>7. vecRead' = 2 * Word
  <2>1. 0 < 2 * Word /\ 2 * Word + 0 = 2 * Word
    BY Sizes
  <2>2. params'.vec_size < 2 * Word
    BY <1>6, <2>1
  <2> QED
    BY <2>1, <2>2, Zenon DEF ClientReadsVector
<1> QED
  BY <1>6, <1>7, Sizes

\* A message that came as it was sent has every field that the client uses.
LEMMA WholeBrings ==
    ASSUME nvec \in Vectors
    PROVE  \A f \in PirFields : Parsed(SentLength(nvec))[f] = PirParams[f]
<1> DEFINE n == SentLength(nvec)
<1>1. n \in Nat /\ n >= EncLen + 6 * Word /\ n >= Word
  BY Sizes, SentLengthFacts, VecSizeFacts
<1> HIDE DEF n
<1>2. EncSize(n) = EncLen
  BY <1>1, EncSizeFacts
<1> DEFINE at == PirAt(EncLen)
<1>3. at = Word + EncLen
  BY DEF PirAt
<1>4. /\ at \in Nat /\ at + Word \in Nat /\ at + 2 * Word \in Nat
      /\ n >= at + Word /\ n >= (at + Word) + Word /\ n >= (at + 2 * Word) + Word
  BY <1>1, <1>3, Sizes
<1>5. \A f \in PirFields : PirParams[f] \in Nat /\ PirParams[f] < Base ^ Word
  BY Sizes, WordAssumption
<1> HIDE DEF at
<1>6. /\ Received(n, at, PirParams["ele_size"]) = PirParams["ele_size"]
      /\ Received(n, at + Word, PirParams["elements_per_plaintext"])
             = PirParams["elements_per_plaintext"]
      /\ Received(n, at + 2 * Word, PirParams["d"]) = PirParams["d"]
  <2>1. "ele_size" \in PirFields /\ "elements_per_plaintext" \in PirFields /\ "d" \in PirFields
    BY DEF PirFields
  <2>2. Received(n, at, PirParams["ele_size"]) = PirParams["ele_size"]
    BY <1>1, <1>4, <1>5, <2>1, ReceivedFacts
  <2>3. Received(n, at + Word, PirParams["elements_per_plaintext"])
             = PirParams["elements_per_plaintext"]
    BY <1>1, <1>4, <1>5, <2>1, ReceivedFacts
  <2>4. Received(n, at + 2 * Word, PirParams["d"]) = PirParams["d"]
    BY <1>1, <1>4, <1>5, <2>1, ReceivedFacts
  <2> QED
    BY <2>2, <2>3, <2>4
<1> QED
  BY <1>2, <1>6 DEF Parsed, PirFields, n, at

LEMMA ParamsRead ==
    ASSUME ParamsInv, ClientReadParams PROVE ParamsInv'
<1>1. PICK n \in 0 .. sent :
          /\ received' = n
          /\ params' = Parsed(n)
          /\ ClientReadsVector(n)
          /\ \/ n >= Word + EncLen /\ stage' = "keys"
             \/ /\ n < Word + EncLen \/ vecRead' > params'.vec_size
                /\ stage' = "badParams"
  BY DEF ClientReadParams
<1>2. /\ stage = "params" /\ nvec' = nvec /\ sent' = sent /\ nvec \in Vectors
      /\ sent = SentLength(nvec)
  BY DEF ClientReadParams, ParamsInv, MessageTypes, ShortfallInv
<1>3. n \in Nat /\ sent \in Nat
  BY <1>2, SentLengthFacts
<1>4. MessageTypes'
  BY <1>1, <1>2 DEF MessageTypes, Stages
<1>5. VectorOverreadExactlyWhenUncounted'
  <2>1. n > VecSizeAt(EncLen) => ~ (vecRead' > params'.vec_size)
    BY <1>1, <1>2, <1>3, VectorBounded
  <2>2. n > VecSizeAt(EncLen) \/ n <= VecSizeAt(EncLen)
    BY <1>3, Sizes DEF VecSizeAt, PirAt, PirLen
  <2>3. n <= VecSizeAt(EncLen) => vecRead' > params'.vec_size
    BY <1>1, <1>2, <1>3, VectorUncounted
  <2>4. ~ (n > VecSizeAt(EncLen) /\ n <= VecSizeAt(EncLen))
    BY <1>3, Sizes DEF VecSizeAt, PirAt, PirLen
  <2> QED
    BY <1>1, <2>1, <2>2, <2>3, <2>4 DEF VectorOverreadExactlyWhenUncounted
<1>6. ShortfallInv'
  <2> SUFFICES ASSUME n = sent
               PROVE  /\ stage' = "keys"
                      /\ \A f \in PirFields : params'[f] = PirParams[f]
    BY <1>1, <1>2 DEF ShortfallInv, ShortfallHarmless
  <2>1. \A f \in PirFields : params'[f] = PirParams[f]
    BY <1>1, <1>2, WholeBrings
  <2>2. n > VecSizeAt(EncLen) /\ n >= Word + EncLen
    BY <1>2, Sizes, SentLengthFacts, VecSizeFacts DEF VecSizeAt, PirAt, PirLen
  <2>3. ~ (vecRead' > params'.vec_size)
    BY <1>1, <1>2, <1>3, <2>2, VectorBounded
  <2>4. ~ (n < Word + EncLen)
    BY <1>3, <2>2, Sizes
  <2> QED
    BY <1>1, <2>1, <2>3, <2>4
<1> QED
  BY <1>4, <1>5, <1>6 DEF ParamsInv

LEMMA ParamsInit == Init => ParamsInv
<1> SUFFICES ASSUME Init PROVE ParamsInv
  OBVIOUS
<1>1. MessageTypes /\ ShortfallInv
  BY DEF Init, MessageTypes, Stages, ShortfallInv, ShortfallHarmless
<1>2. VectorOverreadExactlyWhenUncounted
  BY DEF Init, VectorOverreadExactlyWhenUncounted
<1> QED
  BY <1>1, <1>2 DEF ParamsInv

LEMMA ParamsStep == ParamsInv /\ [Next]_vars => ParamsInv'
<1> SUFFICES ASSUME ParamsInv, [Next]_vars PROVE ParamsInv'
  OBVIOUS
<1> USE DEF ParamsInv, MessageTypes, VectorOverreadExactlyWhenUncounted, ShortfallInv,
            ShortfallHarmless, Stages
<1>1. CASE ServerSendsParams
  <2>1. /\ nvec' = nvec /\ nvec \in Vectors
        /\ sent' = SentLength(nvec) /\ received' = received /\ received = 0
    BY <1>1 DEF ServerSendsParams
  <2>2. SentLength(nvec) \in Nat \ {0}
    BY <2>1, SentLengthFacts
  <2> QED
    BY <1>1, <2>1, <2>2 DEF ServerSendsParams
<1>2. CASE ClientReadParams
  BY <1>2, ParamsRead
<1>3. CASE ServerSendsAds
  BY <1>3 DEF ServerSendsAds
<1>4. CASE ClientReadAds
  BY <1>4 DEF ClientReadAds
<1>5. CASE ClientQuery
  <2>1. /\ PirParams["elements_per_plaintext"] # 0 /\ PirParams["d"] # 0
        /\ "elements_per_plaintext" \in PirFields /\ "d" \in PirFields
    BY Sizes DEF PirFields
  <2>2. received = sent => stage' = "query"
    BY <1>5, <2>1 DEF ClientQuery
  <2> QED
    BY <1>5, <2>2 DEF ClientQuery
<1>6. CASE UNCHANGED vars
  BY <1>6 DEF vars
<1> QED
  BY <1>1, <1>2, <1>3, <1>4, <1>5, <1>6 DEF Next

LEMMA ParamsAlways == Spec => []ParamsInv
BY ParamsInit, ParamsStep, PTL DEF Spec

\* For any layout of the message and any length at which it is cut, the vector is
\* read beyond what was allocated for it just when none of the bytes of its size
\* has come (user.cpp:7-25, 346-362).
THEOREM VectorOverreadJustWhenUncounted == Spec => []VectorOverreadExactlyWhenUncounted
<1>1. ParamsInv => VectorOverreadExactlyWhenUncounted
  BY DEF ParamsInv
<1> QED
  BY <1>1, ParamsAlways, PTL

\* The bytes that the server leaves out of the length it sends are never among
\* those that the client uses (main_server.cpp:324, user.cpp:332-362).
THEOREM ShortfallAlwaysHarmless == Spec => []ShortfallHarmless
<1>1. ParamsInv => ShortfallHarmless
  BY DEF ParamsInv, ShortfallInv
<1> QED
  BY <1>1, ParamsAlways, PTL

-----------------------------------------------------------------------------
(* Strings joined.                                                         *)

\* Joined is the last of the strings that start with the empty one and grow by
\* one of s each.
LEMMA JoinedSteps ==
    ASSUME NEW s, Len(s) \in Nat
    PROVE  \E upTo :
               /\ upTo = [i \in 0 .. Len(s) |->
                              IF i = 0 THEN <<>> ELSE upTo[i - 1] \o s[i]]
               /\ Joined(s) = upTo[Len(s)]
<1> DEFINE Grows(upTo, n) ==
               upTo = [i \in 0 .. n |-> IF i = 0 THEN <<>> ELSE upTo[i - 1] \o s[i]]
           S == {n \in Nat : \E upTo : Grows(upTo, n)}
<1>1. 0 \in S
  <2> DEFINE first == [i \in 0 .. 0 |-> <<>>]
  <2>1. \A i \in 0 .. 0 : i = 0
    OBVIOUS
  <2>2. Grows(first, 0)
    BY <2>1
  <2> QED
    BY <2>2
<1>2. ASSUME NEW n \in Nat, n \in S PROVE n + 1 \in S
  <2>1. PICK upTo : Grows(upTo, n)
    BY <1>2
  <2> DEFINE more == [i \in 0 .. n + 1 |->
                          IF i <= n THEN upTo[i] ELSE upTo[n] \o s[n + 1]]
             next == [i \in 0 .. n + 1 |-> IF i = 0 THEN <<>> ELSE more[i - 1] \o s[i]]
  <2>2. ASSUME NEW i \in 0 .. n + 1 PROVE more[i] = next[i]
    <3>1. CASE i = 0
      BY <2>1, <3>1
    <3>2. CASE i \in 1 .. n
      <4>1. i \in 0 .. n /\ i - 1 \in 0 .. n + 1 /\ i - 1 <= n /\ i # 0 /\ i <= n
        BY <3>2
      <4>2. upTo[i] = upTo[i - 1] \o s[i]
        BY <2>1, <4>1
      <4>3. more[i] = upTo[i] /\ more[i - 1] = upTo[i - 1]
        BY <4>1
      <4> QED
        BY <4>1, <4>2, <4>3
    <3>3. CASE i = n + 1
      <4>1. i - 1 = n /\ n \in 0 .. n + 1 /\ ~ (i <= n) /\ i # 0 /\ n <= n
        BY <3>3
      <4>2. more[i] = upTo[n] \o s[n + 1] /\ more[n] = upTo[n]
        BY <4>1
      <4> QED
        BY <3>3, <4>1, <4>2
    <3> QED
      BY <3>1, <3>2, <3>3
  <2>3. more = next
    BY <2>2
  <2>4. \E any : Grows(any, n + 1)
    <3>1. Grows(more, n + 1)
      BY <2>3
    <3> HIDE DEF more, Grows
    <3> QED
      BY <3>1
  <2> HIDE DEF Grows
  <2> QED
    BY <2>4
<1>3. Len(s) \in S
  <2> HIDE DEF S
  <2> QED
    BY <1>1, <1>2, Induction
<1>4. \E upTo : Grows(upTo, Len(s))
  BY <1>3
<1> DEFINE chosen == CHOOSE upTo : Grows(upTo, Len(s))
<1>5. Grows(chosen, Len(s))
  <2> HIDE DEF Grows
  <2> QED
    BY <1>4
<1>6. Joined(s) = chosen[Len(s)]
  BY DEF Joined
<1> QED
  <2> HIDE DEF chosen
  <2> QED
    BY <1>5, <1>6

\* The joined strings of s, the last of which is all of them.
JoinedUpTo(T, s, n, upTo) ==
    /\ upTo[0] = <<>>
    /\ \A i \in 1 .. n : upTo[i] = upTo[i - 1] \o s[i]
    /\ \A i \in 0 .. n : upTo[i] \in Seq(T)
    /\ Joined(s) = upTo[n]

LEMMA JoinedGrows ==
    ASSUME NEW T, NEW n \in Nat, NEW s \in [1 .. n -> Seq(T)]
    PROVE  \E upTo : JoinedUpTo(T, s, n, upTo)
<1>1. Len(s) = n
  BY LenProperties
<1>2. PICK upTo : /\ upTo = [i \in 0 .. n |->
                                 IF i = 0 THEN <<>> ELSE upTo[i - 1] \o s[i]]
                  /\ Joined(s) = upTo[n]
  BY <1>1, JoinedSteps
<1>3. upTo[0] = <<>>
  <2>1. 0 \in 0 .. n
    OBVIOUS
  <2> QED
    BY <1>2, <2>1
<1>4. \A i \in 1 .. n : upTo[i] = upTo[i - 1] \o s[i]
  <2> TAKE i \in 1 .. n
  <2>1. i \in 0 .. n /\ i # 0
    OBVIOUS
  <2> QED
    BY <1>2, <2>1
<1> DEFINE S == {k \in Nat : k <= n => upTo[k] \in Seq(T)}
<1>5. 0 \in S
  <2>1. <<>> \in Seq(T)
    OBVIOUS
  <2> QED
    BY <1>3, <2>1
<1>6. ASSUME NEW k \in Nat, k \in S PROVE k + 1 \in S
  <2> SUFFICES ASSUME k + 1 <= n PROVE upTo[k + 1] \in Seq(T)
    OBVIOUS
  <2>1. k + 1 \in 1 .. n /\ (k + 1) - 1 = k /\ upTo[k] \in Seq(T)
    BY <1>6
  <2>2. upTo[k + 1] = upTo[k] \o s[k + 1] /\ s[k + 1] \in Seq(T)
    BY <1>4, <2>1
  <2> QED
    BY <2>1, <2>2, ConcatProperties
<1>7. Nat \subseteq S
  <2> HIDE DEF S
  <2> QED
    BY <1>5, <1>6, Induction
<1>8. \A i \in 0 .. n : upTo[i] \in Seq(T)
  BY <1>7
<1>9. JoinedUpTo(T, s, n, upTo)
  BY <1>2, <1>3, <1>4, <1>8 DEF JoinedUpTo
<1> QED
  BY <1>9

LEMMA JoinedType ==
    ASSUME NEW T, NEW n \in Nat, NEW s \in [1 .. n -> Seq(T)]
    PROVE  Joined(s) \in Seq(T)
<1>1. PICK upTo : JoinedUpTo(T, s, n, upTo)
  BY JoinedGrows
<1>2. n \in 0 .. n
  OBVIOUS
<1> QED
  BY <1>1, <1>2 DEF JoinedUpTo

\* n strings of one length, or of at most that length.
OfLength(s, n, length)  == \A i \in 1 .. n : Len(s[i]) = length
OfAtMost(s, n, length)  == \A i \in 1 .. n : Len(s[i]) <= length

JoinedWithin(s, n, length) ==
    /\ Len(Joined(s)) \in Nat
    /\ Len(Joined(s)) <= n * length
    /\ Len(Joined(s)) = n * length => OfLength(s, n, length)

JoinedAt(s, n, length) ==
    /\ Len(Joined(s)) = n * length
    /\ \A i \in 1 .. n, j \in 1 .. length :
           /\ (i - 1) * length + j \in 1 .. n * length
           /\ Joined(s)[(i - 1) * length + j] = s[i][j]

\* Strings of at most a length are together as long as that many of them only
\* when each of them has that length.
LEMMA JoinedShort ==
    ASSUME NEW T, NEW n \in Nat, NEW s \in [1 .. n -> Seq(T)],
           NEW length \in Nat, OfAtMost(s, n, length)
    PROVE  JoinedWithin(s, n, length)
<1> USE DEF OfAtMost
<1>0. PICK upTo : JoinedUpTo(T, s, n, upTo)
  BY JoinedGrows
<1>1. /\ upTo[0] = <<>>
      /\ \A i \in 1 .. n : upTo[i] = upTo[i - 1] \o s[i]
      /\ \A i \in 0 .. n : upTo[i] \in Seq(T)
      /\ Joined(s) = upTo[n]
  BY <1>0 DEF JoinedUpTo
<1> DEFINE Short(k) == /\ Len(upTo[k]) \in Nat
                       /\ Len(upTo[k]) <= k * length
                       /\ Len(upTo[k]) = k * length =>
                              \A i \in 1 .. k : Len(s[i]) = length
           S == {k \in Nat : k <= n => Short(k)}
<1>2. 0 \in S
  <2>1. Len(upTo[0]) = 0 /\ 0 * length = 0
    BY <1>1
  <2> QED
    BY <2>1
<1>3. ASSUME NEW k \in Nat, k \in S PROVE k + 1 \in S
  <2> SUFFICES ASSUME k + 1 <= n PROVE Short(k + 1)
    OBVIOUS
  <2>1. k + 1 \in 1 .. n /\ (k + 1) - 1 = k /\ k \in 0 .. n /\ Short(k)
    BY <1>3
  <2>2. /\ upTo[k + 1] = upTo[k] \o s[k + 1]
        /\ s[k + 1] \in Seq(T) /\ upTo[k] \in Seq(T)
    BY <1>1, <2>1
  <2>3. Len(upTo[k + 1]) = Len(upTo[k]) + Len(s[k + 1])
    BY <2>2, ConcatProperties
  <2>4. Len(s[k + 1]) \in Nat /\ Len(s[k + 1]) <= length
    BY <2>1, <2>2, LenProperties
  <2> DEFINE before == k * length
             upToK == Len(upTo[k])
             one == Len(s[k + 1])
  <2>5. before \in Nat /\ (k + 1) * length = before + length
    OBVIOUS
  <2>6. upToK \in Nat /\ upToK <= before /\ one \in Nat /\ one <= length
    BY <2>1, <2>4
  <2>7. Len(upTo[k + 1]) = upToK + one
    BY <2>3
  <2> HIDE DEF before, upToK, one
  <2>8. Len(upTo[k + 1]) \in Nat /\ Len(upTo[k + 1]) <= (k + 1) * length
    BY <2>5, <2>6, <2>7
  <2>9. ASSUME Len(upTo[k + 1]) = (k + 1) * length
        PROVE  \A i \in 1 .. k + 1 : Len(s[i]) = length
    <3>1. upToK = before /\ one = length
      BY <2>5, <2>6, <2>7, <2>9
    <3>2. \A i \in 1 .. k : Len(s[i]) = length
      BY <2>1, <3>1 DEF before, upToK
    <3>3. \A i \in 1 .. k + 1 : i \in 1 .. k \/ i = k + 1
      OBVIOUS
    <3> QED
      BY <3>1, <3>2, <3>3 DEF one
  <2> QED
    BY <2>8, <2>9
<1>4. Nat \subseteq S
  <2> HIDE DEF S
  <2> QED
    BY <1>2, <1>3, Induction
<1>5. Short(n)
  <2>1. n \in S /\ n <= n
    BY <1>4
  <2> HIDE DEF Short
  <2> QED
    BY <2>1
<1> QED
  BY <1>1, <1>5 DEF JoinedWithin, OfLength

\* Strings of one length lie in what they are joined to at multiples of it.
LEMMA JoinedEven ==
    ASSUME NEW T, NEW n \in Nat, NEW s \in [1 .. n -> Seq(T)],
           NEW length \in Nat, OfLength(s, n, length)
    PROVE  JoinedAt(s, n, length)
<1> USE DEF OfLength
<1>0. PICK upTo : JoinedUpTo(T, s, n, upTo)
  BY JoinedGrows
<1>1. /\ upTo[0] = <<>>
      /\ \A i \in 1 .. n : upTo[i] = upTo[i - 1] \o s[i]
      /\ \A i \in 0 .. n : upTo[i] \in Seq(T)
      /\ Joined(s) = upTo[n]
  BY <1>0 DEF JoinedUpTo
<1> DEFINE Even(k) == /\ Len(upTo[k]) = k * length
                      /\ \A i \in 1 .. k, j \in 1 .. length :
                             /\ (i - 1) * length + j \in 1 .. k * length
                             /\ upTo[k][(i - 1) * length + j] = s[i][j]
           S == {k \in Nat : k <= n => Even(k)}
<1>2. 0 \in S
  <2>1. Len(upTo[0]) = 0 /\ 0 * length = 0
    BY <1>1
  <2> QED
    BY <2>1
<1>3. ASSUME NEW k \in Nat, k \in S PROVE k + 1 \in S
  <2> SUFFICES ASSUME k + 1 <= n PROVE Even(k + 1)
    OBVIOUS
  <2>1. k + 1 \in 1 .. n /\ (k + 1) - 1 = k /\ k \in 0 .. n /\ Even(k)
    BY <1>3
  <2>2. /\ upTo[k + 1] = upTo[k] \o s[k + 1]
        /\ s[k + 1] \in Seq(T) /\ upTo[k] \in Seq(T)
        /\ Len(s[k + 1]) = length /\ Len(upTo[k]) = k * length
    BY <1>1, <2>1
  <2>3. k * length \in Nat /\ (k + 1) * length = k * length + length
    OBVIOUS
  <2> DEFINE old == upTo[k]
             one == s[k + 1]
             both == old \o one
  <2>a. old \in Seq(T) /\ one \in Seq(T) /\ upTo[k + 1] = both
    BY <2>2
  <2>b. /\ Len(both) = Len(old) + Len(one)
        /\ \A i \in 1 .. Len(old) + Len(one) :
               both[i] = IF i <= Len(old) THEN old[i] ELSE one[i - Len(old)]
    <3> HIDE DEF old, one
    <3> QED
      BY <2>a, ConcatProperties
  <2>c. /\ Len(old) = k * length /\ Len(one) = length
        /\ \A i \in 1 .. k, j \in 1 .. length :
               /\ (i - 1) * length + j \in 1 .. k * length
               /\ old[(i - 1) * length + j] = s[i][j]
    BY <2>1, <2>2
  <2> HIDE DEF both
  <2>4. Len(upTo[k + 1]) = (k + 1) * length
    BY <2>a, <2>b, <2>c, <2>3
  <2>5. ASSUME NEW i \in 1 .. k + 1, NEW j \in 1 .. length
        PROVE  /\ (i - 1) * length + j \in 1 .. (k + 1) * length
               /\ upTo[k + 1][(i - 1) * length + j] = s[i][j]
    <3>1. CASE i \in 1 .. k
      <4> DEFINE at == (i - 1) * length + j
      <4>1. at \in 1 .. k * length /\ upTo[k][at] = s[i][j]
        BY <2>1, <3>1
      <4> HIDE DEF at
      <4>2. at \in 1 .. Len(upTo[k]) /\ at \in 1 .. (k + 1) * length
        BY <2>1, <2>3, <4>1
      <4>3. at <= Len(old) /\ at \in 1 .. Len(old) + Len(one)
        BY <2>c, <2>3, <4>1
      <4>4. both[at] = old[at]
        BY <2>b, <4>3
      <4> QED
        BY <2>a, <4>1, <4>2, <4>4 DEF at
    <3>2. CASE i = k + 1
      <4> DEFINE at == k * length + j
      <4>1. (i - 1) * length + j = at
        BY <3>2
      <4>2. at \in 1 .. k * length + length /\ at > k * length /\ at - k * length = j
        BY <2>3
      <4> HIDE DEF at
      <4>3. at \in 1 .. Len(upTo[k]) + Len(s[k + 1]) /\ at > Len(upTo[k])
            /\ at - Len(upTo[k]) = j
        BY <2>1, <2>2, <4>2
      <4>4. both[at] = one[j]
        <5>1. ~ (at <= Len(old))
          BY <2>c, <2>3, <4>2
        <5> QED
          BY <2>b, <4>3, <5>1
      <4> QED
        BY <2>a, <2>3, <3>2, <4>1, <4>2, <4>4
    <3> QED
      BY <3>1, <3>2
  <2> QED
    BY <2>4, <2>5
<1>4. Nat \subseteq S
  <2> HIDE DEF S
  <2> QED
    BY <1>2, <1>3, Induction
<1>5. Even(n)
  <2>1. n \in S /\ n <= n
    BY <1>4
  <2> HIDE DEF Even
  <2> QED
    BY <2>1
<1> QED
  BY <1>1, <1>5 DEF JoinedAt

-----------------------------------------------------------------------------
(* Numbers and their digits.                                               *)

LEMMA MoreTimes ==
    ASSUME NEW a \in Nat, NEW b \in Nat, NEW m \in Nat, a <= b
    PROVE  a * m \in Nat /\ b * m \in Nat /\ a * m <= b * m
<1>1. PICK c \in Nat : b = a + c
  <2>1. b - a \in Nat /\ b = a + (b - a)
    OBVIOUS
  <2> QED
    BY <2>1
<1>2. b * m = a * m + c * m /\ a * m \in Nat /\ c * m \in Nat
  BY <1>1
<1> QED
  BY <1>2

LEMMA QuotientIs ==
    ASSUME NEW x \in Nat, NEW m \in Nat \ {0}, NEW q \in Nat,
           q * m <= x, x < (q + 1) * m
    PROVE  x \div m = q
<1> DEFINE d == x \div m
<1>1. d \in Nat /\ d * m <= x /\ x < (d + 1) * m
  <2>1. d \in Nat /\ x % m \in 0 .. m - 1 /\ x = m * d + (x % m)
    OBVIOUS
  <2>2. m * d = d * m /\ (d + 1) * m = d * m + m /\ d * m \in Nat
    <3>1. d \in Nat /\ m \in Nat
      BY <2>1
    <3> HIDE DEF d
    <3> QED
      BY <3>1
  <2> HIDE DEF d
  <2> DEFINE dm == d * m
             r == x % m
  <2>3. dm \in Nat /\ r \in 0 .. m - 1 /\ x = dm + r /\ (d + 1) * m = dm + m
    BY <2>1, <2>2
  <2> HIDE DEF dm, r
  <2>4. dm <= x /\ x < (d + 1) * m
    BY <2>3
  <2> QED
    BY <2>1, <2>4 DEF dm
<1> HIDE DEF d
<1>2. ~ (d < q)
  <2> SUFFICES ASSUME d + 1 <= q PROVE FALSE
    BY <1>1
  <2>1. (d + 1) * m <= q * m /\ (d + 1) * m \in Nat /\ q * m \in Nat
    BY <1>1, MoreTimes
  <2> QED
    BY <1>1, <2>1
<1>3. ~ (q < d)
  <2> SUFFICES ASSUME q + 1 <= d PROVE FALSE
    BY <1>1
  <2>1. (q + 1) * m <= d * m /\ (q + 1) * m \in Nat /\ d * m \in Nat
    BY <1>1, MoreTimes
  <2> QED
    BY <1>1, <2>1
<1> QED
  BY <1>1, <1>2, <1>3 DEF d

\* Dividing and dividing again.
LEMMA QuotientTwice ==
    ASSUME NEW x \in Nat, NEW p \in Nat \ {0}, NEW r \in Nat \ {0}
    PROVE  /\ x \div p \in Nat
           /\ (x \div p) \div r = x \div (r * p)
           /\ x \div p = (x \div (r * p)) * r + ((x \div p) % r)
<1> DEFINE q == x \div p
           q2 == q \div r
           rest == q % r
<1>1. q \in Nat /\ x % p \in 0 .. p - 1 /\ x = p * q + (x % p)
  OBVIOUS
<1>2. q2 \in Nat /\ rest \in 0 .. r - 1 /\ q = r * q2 + rest
  <2> HIDE DEF q
  <2> QED
    BY <1>1
<1>3. r * p \in Nat \ {0}
  OBVIOUS
<1>4. q * p <= x /\ x < (q + 1) * p
  <2> DEFINE low == x % p
             qp == q * p
  <2>1. low \in 0 .. p - 1
    BY <1>1
  <2> HIDE DEF q
  <2>2. p * q = qp /\ qp \in Nat /\ (q + 1) * p = qp + p
    BY <1>1
  <2>3. x = qp + low
    BY <1>1, <2>2
  <2> HIDE DEF qp, low
  <2>4. qp <= x /\ x < qp + p
    BY <2>1, <2>2, <2>3
  <2> QED
    BY <2>2, <2>4 DEF qp
<1> HIDE DEF q, q2, rest
<1>5. q2 * r <= q /\ q + 1 <= (q2 + 1) * r /\ q2 * r \in Nat /\ (q2 + 1) * r \in Nat
  <2>1. r * q2 = q2 * r /\ q2 * r \in Nat /\ (q2 + 1) * r = q2 * r + r
    BY <1>2
  <2> QED
    BY <1>1, <1>2, <2>1
<1>6. (q2 * r) * p <= q * p /\ (q + 1) * p <= ((q2 + 1) * r) * p
  BY <1>1, <1>5, MoreTimes
<1>7. (q2 * r) * p = q2 * (r * p) /\ ((q2 + 1) * r) * p = (q2 + 1) * (r * p)
  BY <1>2
<1>8. /\ (q2 * r) * p \in Nat /\ q * p \in Nat /\ (q + 1) * p \in Nat
      /\ ((q2 + 1) * r) * p \in Nat
  BY <1>1, <1>5
<1>9. q2 * (r * p) <= x
  <2>1. (q2 * r) * p <= x
    BY <1>4, <1>6, <1>8
  <2> QED
    BY <1>7, <2>1
<1>10. x < (q2 + 1) * (r * p)
  <2>1. x < ((q2 + 1) * r) * p
    BY <1>4, <1>6, <1>8
  <2> QED
    BY <1>7, <2>1
<1>11. x \div (r * p) = q2
  <2> DEFINE m == r * p
  <2>1. m \in Nat \ {0} /\ q2 * m <= x /\ x < (q2 + 1) * m
    BY <1>3, <1>9, <1>10
  <2> HIDE DEF m
  <2>2. x \div m = q2
    BY <1>2, <2>1, QuotientIs
  <2> QED
    BY <2>2 DEF m
<1>12. q = q2 * r + rest
  <2>1. r * q2 = q2 * r
    BY <1>2
  <2> QED
    BY <1>2, <2>1
<1> QED
  BY <1>1, <1>11, <1>12 DEF q, q2, rest

LEMMA AdNumbersFacts ==
    /\ NumGroups * AdsPerGroup \in Nat \ {0}
    /\ AdNumbers = 0 .. NumGroups * AdsPerGroup - 1
    /\ NoLine = NumGroups * AdsPerGroup
    /\ \A ad \in AdNumbers : ad \in Nat /\ ad < Radix ^ MaxDigits
<1>1. NumGroups * AdsPerGroup \in Nat \ {0}
  BY Parameters
<1>2. MaxDigits \in 0 .. MaxDigits
  BY Parameters
<1>3. Radix ^ MaxDigits \in Nat
  BY <1>2, RadixPowers
<1> QED
  BY <1>1, <1>3, DigitsAssumption DEF AdNumbers, NoLine

\* Every number is padded to the digits that the largest has.
LEMMA Padded ==
    ASSUME NEW ad \in AdNumbers
    PROVE  Number(ad) = DigitsOf(ad, MaxDigits)
<1> DEFINE IsWidth(w) == /\ ad < Radix ^ w
                         /\ \A v \in 1 .. w - 1 : ad >= Radix ^ v
           Enough == {w \in 1 .. ad + 1 : ad < Radix ^ w}
<1>1. ad \in Nat /\ ad < Radix ^ MaxDigits /\ MaxDigits \in Nat \ {0}
  BY AdNumbersFacts, Parameters
<1>2. \A k \in 0 .. MaxDigits : Radix ^ k \in Nat /\ k < Radix ^ k
  BY RadixPowers
<1>3. \E w \in Enough : w <= MaxDigits
  <2>1. CASE ad + 1 <= MaxDigits
    <3>1. ad + 1 \in 0 .. MaxDigits /\ ad + 1 \in 1 .. ad + 1
      BY <1>1, <2>1
    <3>2. ad < Radix ^ (ad + 1)
      BY <1>1, <1>2, <3>1
    <3> QED
      BY <2>1, <3>1, <3>2
  <2>2. CASE MaxDigits <= ad + 1
    <3>1. MaxDigits \in 1 .. ad + 1 /\ MaxDigits <= MaxDigits
      BY <1>1, <2>2
    <3> QED
      BY <1>1, <3>1
  <2> QED
    BY <1>1, <2>1, <2>2
<1>4. PICK least \in Enough : \A w \in Enough : least <= w
  <2>1. Enough \subseteq Nat /\ Enough # {}
    BY <1>3
  <2> HIDE DEF Enough
  <2> QED
    BY <2>1, LeastOf
<1>5. least \in 1 .. ad + 1 /\ least <= MaxDigits /\ ad < Radix ^ least
  BY <1>1, <1>3, <1>4
<1>6. \A v \in 1 .. least - 1 : ad >= Radix ^ v
  <2> TAKE v \in 1 .. least - 1
  <2>1. v \in 1 .. ad + 1 /\ v \in 0 .. MaxDigits /\ ~ (least <= v)
    BY <1>1, <1>5
  <2>2. Radix ^ v \in Nat /\ ~ (ad < Radix ^ v)
    BY <1>2, <1>4, <2>1
  <2> QED
    BY <1>1, <2>2
<1>7. IsWidth(least)
  BY <1>5, <1>6
<1>8. \E w \in 1 .. ad + 1 : IsWidth(w)
  BY <1>5, <1>7
<1> DEFINE width == CHOOSE w \in 1 .. ad + 1 : IsWidth(w)
<1>9. width \in 1 .. ad + 1 /\ IsWidth(width)
  <2> HIDE DEF IsWidth
  <2> QED
    BY <1>8
<1>10. Width(ad) = width
  BY DEF Width
<1> HIDE DEF width
<1>11. ~ (width > MaxDigits)
  <2> SUFFICES ASSUME width > MaxDigits PROVE FALSE
    OBVIOUS
  <2>1. MaxDigits \in 1 .. width - 1 /\ MaxDigits \in 0 .. MaxDigits
    BY <1>1, <1>9
  <2>2. ad >= Radix ^ MaxDigits /\ Radix ^ MaxDigits \in Nat
    BY <1>2, <1>9, <2>1
  <2> QED
    BY <1>1, <2>2
<1>12. (IF width < MaxDigits THEN MaxDigits ELSE width) = MaxDigits
  BY <1>1, <1>9, <1>11
<1> QED
  BY <1>10, <1>12 DEF Number

-----------------------------------------------------------------------------
(* Reading a number.                                                       *)

DigitsEnd(s, k) == /\ \A i \in 1 .. k : s[i].kind = "digit"
                   /\ k < Len(s) => s[k + 1].kind # "digit"

\* The values of the first digits of s, of which Atoi(s) is the last.
ValueUpTo(s, k, value) ==
    /\ value[0] = 0
    /\ \A i \in 1 .. k : value[i] = value[i - 1] * Radix + s[i].at
    /\ Atoi(s) = value[k]

LEMMA DigitsEnded ==
    ASSUME NEW s, Len(s) \in Nat
    PROVE  \E k \in 0 .. Len(s) : DigitsEnd(s, k)
<1> DEFINE Stops == {k \in 0 .. Len(s) : k < Len(s) => s[k + 1].kind # "digit"}
<1>1. Len(s) \in Stops
  OBVIOUS
<1>2. PICK least \in Stops : \A k \in Stops : least <= k
  <2>1. Stops \subseteq Nat /\ Stops # {}
    BY <1>1
  <2> HIDE DEF Stops
  <2> QED
    BY <2>1, LeastOf
<1>3. ASSUME NEW i \in 1 .. least PROVE s[i].kind = "digit"
  <2>1. i - 1 \in 0 .. Len(s) /\ i - 1 < Len(s) /\ (i - 1) + 1 = i /\ ~ (least <= i - 1)
    BY <1>2
  <2>2. i - 1 \notin Stops
    BY <1>2, <2>1
  <2> QED
    BY <2>1, <2>2
<1> QED
  BY <1>2, <1>3 DEF DigitsEnd

LEMMA AtoiSteps ==
    ASSUME NEW s, Len(s) \in Nat
    PROVE  \E k \in 0 .. Len(s) : DigitsEnd(s, k) /\ \E value : ValueUpTo(s, k, value)
<1> DEFINE digits == CHOOSE k \in 0 .. Len(s) :
                         /\ \A i \in 1 .. k : s[i].kind = "digit"
                         /\ k < Len(s) => s[k + 1].kind # "digit"
           Grows(value, n) ==
               value = [i \in 0 .. n |->
                            IF i = 0 THEN 0 ELSE value[i - 1] * Radix + s[i].at]
           S == {n \in Nat : \E value : Grows(value, n)}
<1>1. digits \in 0 .. Len(s) /\ DigitsEnd(s, digits)
  BY DigitsEnded DEF DigitsEnd
<1>2. 0 \in S
  <2> DEFINE first == [i \in 0 .. 0 |-> 0]
  <2>1. \A i \in 0 .. 0 : i = 0
    OBVIOUS
  <2>2. Grows(first, 0)
    BY <2>1
  <2> QED
    BY <2>2
<1>3. ASSUME NEW n \in Nat, n \in S PROVE n + 1 \in S
  <2>1. PICK value : Grows(value, n)
    BY <1>3
  <2> DEFINE more == [i \in 0 .. n + 1 |->
                          IF i <= n THEN value[i] ELSE value[n] * Radix + s[n + 1].at]
             next == [i \in 0 .. n + 1 |->
                          IF i = 0 THEN 0 ELSE more[i - 1] * Radix + s[i].at]
  <2>2. ASSUME NEW i \in 0 .. n + 1 PROVE more[i] = next[i]
    <3>1. CASE i = 0
      BY <2>1, <3>1
    <3>2. CASE i \in 1 .. n
      <4>1. i \in 0 .. n /\ i - 1 \in 0 .. n + 1 /\ i - 1 <= n /\ i # 0 /\ i <= n
        BY <3>2
      <4>2. value[i] = value[i - 1] * Radix + s[i].at
        BY <2>1, <4>1
      <4>3. more[i] = value[i] /\ more[i - 1] = value[i - 1]
        BY <4>1
      <4> QED
        BY <4>1, <4>2, <4>3
    <3>3. CASE i = n + 1
      <4>1. i - 1 = n /\ n \in 0 .. n + 1 /\ ~ (i <= n) /\ i # 0 /\ n <= n
        BY <3>3
      <4>2. more[i] = value[n] * Radix + s[n + 1].at /\ more[n] = value[n]
        BY <4>1
      <4> QED
        BY <3>3, <4>1, <4>2
    <3> QED
      BY <3>1, <3>2, <3>3
  <2>3. more = next
    BY <2>2
  <2>4. \E any : Grows(any, n + 1)
    <3>1. Grows(more, n + 1)
      BY <2>3
    <3> HIDE DEF more, Grows
    <3> QED
      BY <3>1
  <2> HIDE DEF Grows
  <2> QED
    BY <2>4
<1>4. digits \in S
  <2>1. digits \in Nat
    BY <1>1
  <2> HIDE DEF S, digits
  <2> QED
    BY <1>2, <1>3, <2>1, Induction
<1>5. \E value : Grows(value, digits)
  <2> HIDE DEF digits, Grows
  <2> QED
    BY <1>4
<1> DEFINE chosen == CHOOSE value : Grows(value, digits)
<1>6. Grows(chosen, digits)
  <2> HIDE DEF Grows, digits
  <2> QED
    BY <1>5
<1>7. Atoi(s) = chosen[digits]
  BY DEF Atoi
<1> HIDE DEF digits
<1> HIDE DEF chosen
<1>8. digits \in Nat
  BY <1>1
<1>9. chosen[0] = 0
  <2>1. 0 \in 0 .. digits
    BY <1>8
  <2> QED
    BY <1>6, <2>1
<1>10. \A i \in 1 .. digits : chosen[i] = chosen[i - 1] * Radix + s[i].at
  <2> TAKE i \in 1 .. digits
  <2>1. i \in 0 .. digits /\ i # 0
    BY <1>8
  <2> QED
    BY <1>6, <2>1
<1>11. ValueUpTo(s, digits, chosen)
  BY <1>7, <1>9, <1>10 DEF ValueUpTo
<1> QED
  BY <1>1, <1>11

LEMMA AtoiType ==
    ASSUME NEW s \in Seq(Character)
    PROVE  Atoi(s) \in Nat
<1>1. Len(s) \in Nat /\ \A i \in 1 .. Len(s) : s[i].at \in Nat
  <2>1. Len(s) \in Nat /\ s \in [1 .. Len(s) -> Character]
    BY LenProperties
  <2>2. \A i \in 1 .. Len(s) : s[i] \in Character
    BY <2>1
  <2>3. \A c \in Character : c.at \in Nat
    BY DEF Character
  <2> QED
    BY <2>1, <2>2, <2>3
<1>2. PICK k \in 0 .. Len(s) : \E value : ValueUpTo(s, k, value)
  BY <1>1, AtoiSteps
<1>3. PICK value : ValueUpTo(s, k, value)
  BY <1>2
<1> DEFINE S == {i \in Nat : i <= k => value[i] \in Nat}
<1>4. 0 \in S
  BY <1>3 DEF ValueUpTo
<1>5. ASSUME NEW i \in Nat, i \in S PROVE i + 1 \in S
  <2> SUFFICES ASSUME i + 1 <= k PROVE value[i + 1] \in Nat
    OBVIOUS
  <2>1. i + 1 \in 1 .. k /\ (i + 1) - 1 = i /\ value[i] \in Nat /\ i + 1 \in 1 .. Len(s)
    BY <1>1, <1>5
  <2>2. value[i + 1] = value[i] * Radix + s[i + 1].at
    BY <1>3, <2>1 DEF ValueUpTo
  <2>3. value[i] * Radix \in Nat /\ s[i + 1].at \in Nat
    BY <1>1, <2>1, Parameters
  <2> QED
    BY <2>2, <2>3
<1>6. k \in S
  <2> HIDE DEF S
  <2> QED
    BY <1>1, <1>4, <1>5, Induction
<1> QED
  BY <1>1, <1>3, <1>6 DEF ValueUpTo

\* A number is read back from its padded digits.
LEMMA AtoiReads ==
    ASSUME NEW ad \in AdNumbers
    PROVE  Atoi(DigitsOf(ad, MaxDigits)) = ad
<1> DEFINE s == DigitsOf(ad, MaxDigits)
           left(i) == ad \div Radix ^ (MaxDigits - i)
<1>1. MaxDigits \in Nat \ {0} /\ ad \in Nat /\ ad < Radix ^ MaxDigits /\ Radix \in Nat \ {0}
  BY AdNumbersFacts, Parameters
<1>2. /\ Len(s) = MaxDigits
      /\ \A i \in 1 .. MaxDigits : s[i].kind = "digit" /\ s[i].at = left(i) % Radix
  BY <1>1 DEF DigitsOf
<1>3. left(0) = 0
  <2>1. MaxDigits \in 0 .. MaxDigits /\ MaxDigits - 0 = MaxDigits
    BY <1>1
  <2> DEFINE all == Radix ^ MaxDigits
  <2>2. all \in Nat \ {0} /\ ad < all
    BY <1>1, <2>1, RadixPowers
  <2> HIDE DEF all
  <2>3. 0 * all <= ad /\ ad < (0 + 1) * all
    BY <1>1, <2>2
  <2>4. ad \div all = 0
    BY <1>1, <2>2, <2>3, QuotientIs
  <2> QED
    BY <2>1, <2>4 DEF all
<1>4. left(MaxDigits) = ad
  <2>1. MaxDigits - MaxDigits = 0
    BY <1>1
  <2>2. Radix ^ 0 = 1
    BY PowersAssumption
  <2>3. ad \div 1 = ad
    BY <1>1
  <2> QED
    BY <2>1, <2>2, <2>3
<1>5. ASSUME NEW i \in 1 .. MaxDigits
      PROVE  left(i) \in Nat /\ left(i) = left(i - 1) * Radix + (left(i) % Radix)
  <2> DEFINE p == Radix ^ (MaxDigits - i)
             p2 == Radix ^ (MaxDigits - (i - 1))
  <2>1. /\ MaxDigits - i \in 0 .. MaxDigits - 1 /\ MaxDigits - i \in 0 .. MaxDigits
        /\ MaxDigits - (i - 1) = (MaxDigits - i) + 1
    BY <1>1
  <2>2. p \in Nat \ {0}
    BY <2>1, RadixPowers
  <2>3. p2 = Radix * p
    BY <2>1, PowersAssumption
  <2> HIDE DEF p, p2
  <2>4. ad \div p \in Nat /\ ad \div p = (ad \div (Radix * p)) * Radix + ((ad \div p) % Radix)
    BY <1>1, <2>2, QuotientTwice
  <2>5. ad \div p = (ad \div p2) * Radix + ((ad \div p) % Radix)
    BY <2>3, <2>4
  <2> QED
    BY <2>4, <2>5 DEF p, p2
<1> HIDE DEF s, left
<1>6. PICK k \in 0 .. Len(s) : DigitsEnd(s, k) /\ \E value : ValueUpTo(s, k, value)
  BY <1>1, <1>2, AtoiSteps
<1>7. k = MaxDigits
  <2> SUFFICES ASSUME k < MaxDigits PROVE FALSE
    BY <1>1, <1>2, <1>6
  <2>1. k + 1 \in 1 .. MaxDigits
    BY <1>1, <1>2, <1>6
  <2>2. s[k + 1].kind = "digit"
    BY <1>2, <2>1
  <2>3. s[k + 1].kind # "digit"
    BY <1>2, <1>6 DEF DigitsEnd
  <2> QED
    BY <2>2, <2>3
<1>8. PICK value : ValueUpTo(s, MaxDigits, value)
  BY <1>6, <1>7
<1> DEFINE S == {i \in Nat : i <= MaxDigits => value[i] = left(i)}
<1>9. 0 \in S
  BY <1>3, <1>8 DEF ValueUpTo
<1>10. ASSUME NEW i \in Nat, i \in S PROVE i + 1 \in S
  <2> SUFFICES ASSUME i + 1 <= MaxDigits PROVE value[i + 1] = left(i + 1)
    OBVIOUS
  <2>1. i + 1 \in 1 .. MaxDigits /\ (i + 1) - 1 = i /\ value[i] = left(i)
    BY <1>1, <1>10
  <2>2. value[i + 1] = value[i] * Radix + s[i + 1].at
    BY <1>8, <2>1 DEF ValueUpTo
  <2>3. s[i + 1].at = left(i + 1) % Radix
    BY <1>2, <2>1
  <2>4. left(i + 1) = left(i) * Radix + (left(i + 1) % Radix)
    BY <1>5, <2>1
  <2> QED
    BY <2>1, <2>2, <2>3, <2>4
<1>11. Nat \subseteq S
  <2> HIDE DEF S
  <2> QED
    BY <1>9, <1>10, Induction
<1>12. value[MaxDigits] = ad
  BY <1>1, <1>4, <1>11
<1> QED
  BY <1>8, <1>12 DEF ValueUpTo, s

-----------------------------------------------------------------------------
(* The text of the first ads, and how it is cut.                           *)

Blank == [kind |-> "text", ad |-> NoLine, at |-> 0]

LEMMA CharacterFacts ==
    /\ Blank \in Character
    /\ \A ad \in AdNumbers \cup {NoLine}, at \in Nat :
           [kind |-> "text", ad |-> ad, at |-> at] \in Character
    /\ \A at \in Nat : [kind |-> "digit", ad |-> NoLine, at |-> at] \in Character
BY DEF Character, Blank

LEMMA AdTextFacts ==
    ASSUME NEW ad \in AdNumbers \cup {NoLine}, NEW length \in Nat
    PROVE  AdText(ad, length) \in Seq(Character) /\ Len(AdText(ad, length)) = length
<1>1. \A i \in 1 .. length : [kind |-> "text", ad |-> ad, at |-> i] \in Character
  BY CharacterFacts
<1>2. AdText(ad, length) \in [1 .. length -> Character]
  BY <1>1 DEF AdText
<1> QED
  BY <1>2

LEMMA DigitsFacts ==
    ASSUME NEW ad \in AdNumbers
    PROVE  DigitsOf(ad, MaxDigits) \in Seq(Character) /\ Len(DigitsOf(ad, MaxDigits)) = MaxDigits
<1>1. MaxDigits \in Nat /\ ad \in Nat /\ Radix \in Nat \ {0}
  BY AdNumbersFacts, Parameters
<1>2. ASSUME NEW i \in 1 .. MaxDigits
      PROVE  [kind |-> "digit", ad |-> NoLine,
              at |-> (ad \div Radix ^ (MaxDigits - i)) % Radix] \in Character
  <2> DEFINE p == Radix ^ (MaxDigits - i)
  <2>1. p \in Nat \ {0}
    <3>1. MaxDigits - i \in 0 .. MaxDigits
      BY <1>1
    <3> QED
      BY <3>1, RadixPowers
  <2> HIDE DEF p
  <2>2. (ad \div p) % Radix \in Nat
    <3>1. ad \div p \in Nat
      BY <1>1, <2>1
    <3> QED
      BY <1>1, <3>1
  <2> QED
    BY <2>2, CharacterFacts DEF p
<1>3. DigitsOf(ad, MaxDigits) \in [1 .. MaxDigits -> Character]
  BY <1>2 DEF DigitsOf
<1> QED
  BY <1>1, <1>3

SentAds(garbage)  == [i \in 1 .. NumGroups |-> AdAt(drawn[i], garbage)]
SentNumbers       == [i \in 1 .. NumGroups |-> Number(drawn[i])]
SentText(garbage) == Joined(SentAds(garbage)) \o Joined(SentNumbers)

LEMMA SentTypes ==
    ASSUME lines \in Files, drawn \in [1 .. NumGroups -> AdNumbers],
           NEW garbage \in 0 .. AdSize
    PROVE  /\ SentAds(garbage) \in [1 .. NumGroups -> Seq(Character)]
           /\ \A i \in 1 .. NumGroups :
                  /\ Len(SentAds(garbage)[i]) = AdLength(drawn[i], garbage)
                  /\ drawn[i] < Len(lines) =>
                         SentAds(garbage)[i] = AdText(drawn[i], lines[drawn[i] + 1])
           /\ SentNumbers \in [1 .. NumGroups -> Seq(Character)]
           /\ \A i \in 1 .. NumGroups :
                  /\ SentNumbers[i] = DigitsOf(drawn[i], MaxDigits)
                  /\ Len(SentNumbers[i]) = MaxDigits
           /\ SentText(garbage) \in Seq(Character)
           /\ Len(SentText(garbage)) = Len(Joined(SentAds(garbage))) + Len(Joined(SentNumbers))
<1>1. ASSUME NEW i \in 1 .. NumGroups
      PROVE  /\ AdAt(drawn[i], garbage) \in Seq(Character)
             /\ Len(AdAt(drawn[i], garbage)) = AdLength(drawn[i], garbage)
             /\ drawn[i] < Len(lines) =>
                    AdAt(drawn[i], garbage) = AdText(drawn[i], lines[drawn[i] + 1])
  <2>1. drawn[i] \in AdNumbers /\ drawn[i] \in Nat
    BY AdNumbersFacts
  <2>2. lines \in Seq(Nat) /\ Len(lines) \in Nat
    BY MessagesAssumption, LenProperties
  <2>3. AdLength(drawn[i], garbage) \in Nat
    <3>1. CASE drawn[i] < Len(lines)
      <4>1. drawn[i] + 1 \in 1 .. Len(lines)
        BY <2>1, <2>2, <3>1
      <4>2. lines[drawn[i] + 1] \in Nat
        BY <2>2, <4>1
      <4> QED
        BY <3>1, <4>2 DEF AdLength
    <3>2. CASE ~ (drawn[i] < Len(lines))
      BY <3>2, Parameters DEF AdLength
    <3> QED
      BY <3>1, <3>2
  <2>4. (IF drawn[i] < Len(lines) THEN drawn[i] ELSE NoLine) \in AdNumbers \cup {NoLine}
    BY <2>1
  <2>5. /\ AdAt(drawn[i], garbage) \in Seq(Character)
        /\ Len(AdAt(drawn[i], garbage)) = AdLength(drawn[i], garbage)
    BY <2>3, <2>4, AdTextFacts DEF AdAt
  <2> QED
    BY <2>5 DEF AdAt, AdLength
<1>2. ASSUME NEW i \in 1 .. NumGroups
      PROVE  /\ Number(drawn[i]) = DigitsOf(drawn[i], MaxDigits)
             /\ Number(drawn[i]) \in Seq(Character)
             /\ Len(Number(drawn[i])) = MaxDigits
  <2>1. drawn[i] \in AdNumbers
    OBVIOUS
  <2> QED
    BY <2>1, Padded, DigitsFacts
<1>3. /\ SentAds(garbage) \in [1 .. NumGroups -> Seq(Character)]
      /\ \A i \in 1 .. NumGroups : SentAds(garbage)[i] = AdAt(drawn[i], garbage)
  BY <1>1 DEF SentAds
<1>4. /\ SentNumbers \in [1 .. NumGroups -> Seq(Character)]
      /\ \A i \in 1 .. NumGroups : SentNumbers[i] = Number(drawn[i])
  BY <1>2 DEF SentNumbers
<1>5. Joined(SentAds(garbage)) \in Seq(Character) /\ Joined(SentNumbers) \in Seq(Character)
  <2>1. NumGroups \in Nat
    BY Parameters
  <2> QED
    BY <1>3, <1>4, <2>1, JoinedType
<1>6. /\ SentText(garbage) \in Seq(Character)
      /\ Len(SentText(garbage)) = Len(Joined(SentAds(garbage))) + Len(Joined(SentNumbers))
  BY <1>5, ConcatProperties DEF SentText
<1> QED
  BY <1>1, <1>2, <1>3, <1>4, <1>6

\* A text that is long enough has ads of the size that the client cuts, one after
\* the other, and then the numbers, and the client has read all of it.
LEMMA Layout ==
    ASSUME lines \in Files, drawn \in [1 .. NumGroups -> AdNumbers],
           NEW garbage \in 0 .. AdSize, text = SentText(garbage),
           \A i \in 1 .. NumGroups : AdLength(drawn[i], garbage) <= AdSize,
           NEW n \in 0 .. Len(text), LongEnough(n)
    PROVE  /\ \A i \in 1 .. NumGroups : AdLength(drawn[i], garbage) = AdSize
           /\ \A i \in 1 .. NumGroups, j \in 1 .. AdSize :
                  Buffer(n)[(i - 1) * AdSize + j] = SentAds(garbage)[i][j]
           /\ \A i \in 1 .. NumGroups, j \in 1 .. MaxDigits :
                  Buffer(n)[NumGroups * AdSize + (i - 1) * MaxDigits + j]
                      = SentNumbers[i][j]
<1> DEFINE ads == SentAds(garbage)
           numbers == SentNumbers
           inAds == NumGroups * AdSize
           inNumbers == NumGroups * MaxDigits
<1>1. NumGroups \in Nat /\ AdSize \in Nat /\ MaxDigits \in Nat
  BY Parameters
<1>2. /\ inAds \in Nat /\ inNumbers \in Nat
      /\ (AdSize + MaxDigits) * NumGroups = inAds + inNumbers
  BY <1>1
<1>3. /\ ads \in [1 .. NumGroups -> Seq(Character)]
      /\ numbers \in [1 .. NumGroups -> Seq(Character)]
      /\ \A i \in 1 .. NumGroups : Len(ads[i]) = AdLength(drawn[i], garbage)
      /\ \A i \in 1 .. NumGroups : Len(numbers[i]) = MaxDigits
      /\ Len(text) = Len(Joined(ads)) + Len(Joined(numbers))
  BY SentTypes
<1>4. text = Joined(ads) \o Joined(numbers)
  BY DEF SentText
<1> HIDE DEF ads, numbers
<1>5. Joined(ads) \in Seq(Character) /\ Joined(numbers) \in Seq(Character)
  BY <1>1, <1>3, JoinedType
<1>6. /\ Len(Joined(ads)) \in Nat /\ Len(Joined(ads)) <= inAds
      /\ Len(Joined(ads)) = inAds => OfLength(ads, NumGroups, AdSize)
  <2>1. OfAtMost(ads, NumGroups, AdSize)
    BY <1>3 DEF OfAtMost
  <2>2. JoinedWithin(ads, NumGroups, AdSize)
    BY <1>1, <1>3, <2>1, JoinedShort
  <2> QED
    BY <2>2 DEF JoinedWithin
<1>7. /\ Len(Joined(numbers)) = inNumbers
      /\ \A i \in 1 .. NumGroups, j \in 1 .. MaxDigits :
             /\ (i - 1) * MaxDigits + j \in 1 .. inNumbers
             /\ Joined(numbers)[(i - 1) * MaxDigits + j] = numbers[i][j]
  <2>1. OfLength(numbers, NumGroups, MaxDigits)
    BY <1>3 DEF OfLength
  <2>2. JoinedAt(numbers, NumGroups, MaxDigits)
    BY <1>1, <1>3, <2>1, JoinedEven
  <2> QED
    BY <2>2 DEF JoinedAt
<1> HIDE DEF inAds, inNumbers
<1>8. n = inAds + inNumbers /\ Len(Joined(ads)) = inAds
  BY <1>2, <1>3, <1>6, <1>7 DEF LongEnough
<1>9. OfLength(ads, NumGroups, AdSize)
  BY <1>6, <1>8
<1>10. \A i \in 1 .. NumGroups, j \in 1 .. AdSize :
           /\ (i - 1) * AdSize + j \in 1 .. inAds
           /\ Joined(ads)[(i - 1) * AdSize + j] = ads[i][j]
  <2>1. JoinedAt(ads, NumGroups, AdSize)
    BY <1>1, <1>3, <1>9, JoinedEven
  <2> QED
    BY <2>1 DEF JoinedAt, inAds
<1>11. \A k \in 1 .. inAds + inNumbers :
           Buffer(n)[k] = IF k <= inAds THEN Joined(ads)[k] ELSE Joined(numbers)[k - inAds]
  <2> TAKE k \in 1 .. inAds + inNumbers
  <2>1. Buffer(n)[k] = text[k]
    BY <1>2, <1>8 DEF Buffer
  <2> DEFINE first == Joined(ads)
             second == Joined(numbers)
  <2>2. /\ first \in Seq(Character) /\ second \in Seq(Character)
        /\ Len(first) = inAds /\ Len(second) = inNumbers /\ text = first \o second
    BY <1>4, <1>5, <1>7, <1>8
  <2> HIDE DEF first, second
  <2>3. \A m \in 1 .. Len(first) + Len(second) :
            (first \o second)[m] = IF m <= Len(first) THEN first[m]
                                   ELSE second[m - Len(first)]
    BY <2>2, ConcatProperties
  <2>4. text[k] = IF k <= inAds THEN first[k] ELSE second[k - inAds]
    BY <2>2, <2>3
  <2> QED
    BY <2>1, <2>4 DEF first, second
<1>12. ASSUME NEW i \in 1 .. NumGroups, NEW j \in 1 .. AdSize
       PROVE  Buffer(n)[(i - 1) * AdSize + j] = ads[i][j]
  <2> DEFINE k == (i - 1) * AdSize + j
  <2>1. k \in 1 .. inAds /\ Joined(ads)[k] = ads[i][j]
    BY <1>10
  <2> HIDE DEF k
  <2>2. k \in 1 .. inAds + inNumbers /\ k <= inAds
    BY <1>2, <2>1
  <2>3. Buffer(n)[k] = ads[i][j]
    BY <1>11, <2>1, <2>2
  <2> QED
    BY <2>3 DEF k
<1>13. ASSUME NEW i \in 1 .. NumGroups, NEW j \in 1 .. MaxDigits
       PROVE  Buffer(n)[inAds + (i - 1) * MaxDigits + j] = numbers[i][j]
  <2> DEFINE m == (i - 1) * MaxDigits
             k == m + j
  <2>1. k \in 1 .. inNumbers /\ Joined(numbers)[k] = numbers[i][j]
    BY <1>7
  <2>2. m \in Int
    BY <1>1
  <2>3. inAds + m + j = inAds + k
    <3> HIDE DEF m
    <3> QED
      BY <1>2, <2>2
  <2> HIDE DEF k
  <2>4. inAds + k \in 1 .. inAds + inNumbers /\ ~ (inAds + k <= inAds) /\ (inAds + k) - inAds = k
    BY <1>2, <2>1
  <2>5. Buffer(n)[inAds + k] = numbers[i][j]
    BY <1>11, <2>1, <2>4
  <2> QED
    BY <2>3, <2>5
<1> QED
  BY <1>3, <1>9, <1>12, <1>13 DEF ads, numbers, inAds, OfLength

\* What the buffer holds is of the characters, and so is what is cut out of it.
LEMMA BufferCuts ==
    ASSUME text \in Seq(Character), NEW n \in 0 .. Len(text), NEW i \in 1 .. NumGroups
    PROVE  /\ AdCut(Buffer(n), i) \in Seq(Character)
           /\ Len(AdCut(Buffer(n), i)) = AdSize
           /\ \A j \in 1 .. AdSize :
                  AdCut(Buffer(n), i)[j] = Buffer(n)[(i - 1) * AdSize + j]
           /\ \E digits \in Seq(Character) :
                  /\ NumberCut(Buffer(n), i) = Atoi(digits)
                  /\ Len(digits) = MaxDigits
                  /\ \A j \in 1 .. MaxDigits :
                         digits[j] = Buffer(n)[NumGroups * AdSize + (i - 1) * MaxDigits + j]
<1> DEFINE all == (AdSize + MaxDigits) * NumGroups
           b == Buffer(n)
           from == (i - 1) * AdSize
           start == NumGroups * AdSize + (i - 1) * MaxDigits
<1>1. NumGroups \in Nat \ {0} /\ AdSize \in Nat \ {0} /\ MaxDigits \in Nat \ {0}
  BY Parameters
<1>2. \A k \in 1 .. all : b[k] \in Character
  <2> TAKE k \in 1 .. all
  <2>1. b[k] = IF k <= n THEN text[k] ELSE Blank
    BY DEF Buffer, Blank
  <2>2. k <= n => text[k] \in Character
    <3>1. k <= n => k \in 1 .. Len(text)
      BY <1>1, LenProperties
    <3> QED
      BY <3>1, ElementOfSeq
  <2> QED
    BY <2>1, <2>2, CharacterFacts
<1>3. /\ from \in Nat /\ i * AdSize = from + AdSize
      /\ from + AdSize <= NumGroups * AdSize
      /\ (i - 1) * MaxDigits \in Nat
      /\ (i - 1) * MaxDigits + MaxDigits <= NumGroups * MaxDigits
      /\ all = NumGroups * AdSize + NumGroups * MaxDigits
      /\ NumGroups * AdSize \in Nat /\ NumGroups * MaxDigits \in Nat
  <2>1. i \in Nat /\ i - 1 \in Nat /\ i <= NumGroups
    BY <1>1
  <2>2. i * AdSize <= NumGroups * AdSize /\ i * MaxDigits <= NumGroups * MaxDigits
    BY <1>1, <2>1, MoreTimes
  <2>3. i * AdSize = from + AdSize /\ i * MaxDigits = (i - 1) * MaxDigits + MaxDigits
    BY <1>1, <2>1
  <2>4. from \in Nat /\ (i - 1) * MaxDigits \in Nat
    BY <1>1, <2>1
  <2>5. all = NumGroups * AdSize + NumGroups * MaxDigits
    BY <1>1
  <2> QED
    BY <1>1, <2>2, <2>3, <2>4, <2>5
<1>4. /\ start \in Nat /\ start + MaxDigits <= all
      /\ from + AdSize <= all
  <2> DEFINE x == NumGroups * AdSize
             y == NumGroups * MaxDigits
             z == (i - 1) * MaxDigits
  <2>1. /\ x \in Nat /\ y \in Nat /\ z \in Nat /\ z + MaxDigits <= y
        /\ all = x + y /\ start = x + z /\ from \in Nat /\ from + AdSize <= x
    BY <1>3
  <2> HIDE DEF x, y, z, all, start, from
  <2> QED
    BY <1>1, <2>1
<1> HIDE DEF b, from, all, start
<1>5. /\ SubSeq(b, from + 1, from + AdSize) \in Seq(Character)
      /\ Len(SubSeq(b, from + 1, from + AdSize)) = AdSize
      /\ \A j \in 1 .. AdSize : SubSeq(b, from + 1, from + AdSize)[j] = b[from + j]
  <2> DEFINE m == from + 1
             e == from + AdSize
  <2>1. m \in Int /\ e \in Int /\ e - m + 1 = AdSize /\ m <= e /\ m .. e \subseteq 1 .. all
    BY <1>1, <1>3, <1>4
  <2>2. \A j \in m .. e : b[j] \in Character
    BY <1>2, <2>1
  <2>3. \A j \in 1 .. AdSize : m + j - 1 = from + j
    BY <1>3
  <2> HIDE DEF m, e
  <2>4. /\ SubSeq(b, m, e) \in Seq(Character)
        /\ Len(SubSeq(b, m, e)) = (IF m <= e THEN e - m + 1 ELSE 0)
        /\ \A j \in 1 .. e - m + 1 : SubSeq(b, m, e)[j] = b[m + j - 1]
    BY <2>1, <2>2, SubSeqProperties
  <2>5. \A j \in 1 .. AdSize : SubSeq(b, m, e)[j] = b[from + j]
    BY <2>1, <2>3, <2>4
  <2> QED
    BY <2>1, <2>4, <2>5 DEF m, e
<1>6. /\ SubSeq(b, start + 1, start + MaxDigits) \in Seq(Character)
      /\ Len(SubSeq(b, start + 1, start + MaxDigits)) = MaxDigits
      /\ \A j \in 1 .. MaxDigits :
             SubSeq(b, start + 1, start + MaxDigits)[j] = b[start + j]
  <2> DEFINE m == start + 1
             e == start + MaxDigits
  <2>1. m \in Int /\ e \in Int /\ e - m + 1 = MaxDigits /\ m <= e /\ m .. e \subseteq 1 .. all
    <3>1. all \in Int
      BY <1>1 DEF all
    <3> QED
      BY <1>1, <1>4, <3>1
  <2>2. \A j \in m .. e : b[j] \in Character
    BY <1>2, <2>1
  <2>3. \A j \in 1 .. MaxDigits : m + j - 1 = start + j
    BY <1>4
  <2> HIDE DEF m, e
  <2>4. /\ SubSeq(b, m, e) \in Seq(Character)
        /\ Len(SubSeq(b, m, e)) = (IF m <= e THEN e - m + 1 ELSE 0)
        /\ \A j \in 1 .. e - m + 1 : SubSeq(b, m, e)[j] = b[m + j - 1]
    BY <2>1, <2>2, SubSeqProperties
  <2>5. \A j \in 1 .. MaxDigits : SubSeq(b, m, e)[j] = b[start + j]
    BY <2>1, <2>3, <2>4
  <2> QED
    BY <2>1, <2>4, <2>5 DEF m, e
<1>7. AdCut(b, i) = SubSeq(b, from + 1, from + AdSize)
  BY <1>3 DEF AdCut, from
<1>8. NumberCut(b, i) = Atoi(SubSeq(b, start + 1, start + MaxDigits))
  BY DEF NumberCut, start
<1> QED
  BY <1>5, <1>6, <1>7, <1>8 DEF b, from, start

\* What the client inserts has the numbers it cut, with the ad cut at the first
\* place of each.
LEMMA InsertedFacts ==
    ASSUME NEW s
    PROVE  /\ DOMAIN Inserted(s) = {NumberCut(s, i) : i \in 1 .. NumGroups}
           /\ \A number \in DOMAIN Inserted(s) :
                  \E i \in 1 .. NumGroups :
                      NumberCut(s, i) = number /\ Inserted(s)[number] = AdCut(s, i)
<1>1. DOMAIN Inserted(s) = {NumberCut(s, i) : i \in 1 .. NumGroups}
  BY DEF Inserted
<1>2. ASSUME NEW number \in DOMAIN Inserted(s)
      PROVE  \E i \in 1 .. NumGroups :
                 NumberCut(s, i) = number /\ Inserted(s)[number] = AdCut(s, i)
  <2> DEFINE Places == {i \in 1 .. NumGroups : NumberCut(s, i) = number}
             IsFirst(i) == /\ NumberCut(s, i) = number
                           /\ \A j \in 1 .. i - 1 : NumberCut(s, j) # number
             first == CHOOSE i \in 1 .. NumGroups : IsFirst(i)
  <2>1. Places \subseteq Nat /\ Places # {}
    BY <1>1, Parameters
  <2>2. PICK least \in Places : \A i \in Places : least <= i
    <3> HIDE DEF Places
    <3> QED
      BY <2>1, LeastOf
  <2>3. least \in 1 .. NumGroups /\ IsFirst(least)
    <3>1. ASSUME NEW j \in 1 .. least - 1 PROVE NumberCut(s, j) # number
      <4>1. j \in 1 .. NumGroups /\ ~ (least <= j)
        BY <2>2, Parameters
      <4> QED
        BY <2>2, <4>1
    <3> QED
      BY <2>2, <3>1
  <2>4. first \in 1 .. NumGroups /\ IsFirst(first)
    <3> HIDE DEF IsFirst
    <3> QED
      BY <2>3
  <2>5. Inserted(s)[number] = AdCut(s, first)
    <3>1. number \in {NumberCut(s, i) : i \in 1 .. NumGroups}
      BY <1>1
    <3>2. Inserted(s) = [k \in {NumberCut(s, i) : i \in 1 .. NumGroups} |->
              AdCut(s, CHOOSE i \in 1 .. NumGroups :
                           /\ NumberCut(s, i) = k
                           /\ \A j \in 1 .. i - 1 : NumberCut(s, j) # k)]
      BY DEF Inserted
    <3> QED
      BY <3>1, <3>2
  <2> HIDE DEF first
  <2> QED
    BY <2>4, <2>5
<1> QED
  BY <1>1, <1>2

-----------------------------------------------------------------------------
(* The first display.                                                      *)

AdsTypes ==
    /\ lines \in Files
    /\ params \in [DOMAIN NoParams -> Nat]
    /\ vecRead \in Nat
    /\ drawn \in Seq(AdNumbers)
    /\ text \in Seq(Character)
    /\ \A number \in DOMAIN currAds : number \in Nat /\ Len(currAds[number]) = AdSize

\* What the server sends is the ads it drew and their numbers.
TextInv ==
    stage \in {"ads", "prompt"} =>
        /\ drawn \in [1 .. NumGroups -> AdNumbers]
        /\ \E garbage \in 0 .. AdSize : text = SentText(garbage)

AdsInv ==
    /\ AdsTypes
    /\ TextInv
    /\ NoAdUnderAnother
    /\ FirstAdsShown

\* With a file that has a line for every number, each ad is a line of it.
LEMMA LinesThere ==
    ASSUME lines \in Files, drawn \in [1 .. NumGroups -> AdNumbers],
           Len(lines) >= NumGroups * AdsPerGroup,
           NEW i \in 1 .. NumGroups, NEW garbage
    PROVE  /\ drawn[i] < Len(lines)
           /\ drawn[i] + 1 \in 1 .. Len(lines)
           /\ AdLength(drawn[i], garbage) = lines[drawn[i] + 1]
<1>1. drawn[i] \in 0 .. NumGroups * AdsPerGroup - 1
  BY AdNumbersFacts
<1>2. Len(lines) \in Nat
  BY MessagesAssumption, LenProperties
<1>3. drawn[i] < Len(lines) /\ drawn[i] + 1 \in 1 .. Len(lines)
  BY <1>1, <1>2, AdNumbersFacts
<1> QED
  BY <1>3 DEF AdLength

\* However the text was cut, an ad of the file is cut out with its number.
LEMMA CutsAgree ==
    ASSUME lines \in Files, drawn \in [1 .. NumGroups -> AdNumbers],
           Len(lines) >= NumGroups * AdsPerGroup,
           \A i \in 1 .. Len(lines) : lines[i] <= AdSize,
           NEW garbage \in 0 .. AdSize, text = SentText(garbage),
           NEW n \in 0 .. Len(text), LongEnough(n),
           NEW i \in 1 .. NumGroups
    PROVE  /\ NumberCut(Buffer(n), i) = drawn[i]
           /\ AdCut(Buffer(n), i) = AdText(drawn[i], AdSize)
<1>1. \A k \in 1 .. NumGroups : AdLength(drawn[k], garbage) <= AdSize
  BY LinesThere
<1>2. /\ \A k \in 1 .. NumGroups : AdLength(drawn[k], garbage) = AdSize
      /\ \A k \in 1 .. NumGroups, j \in 1 .. AdSize :
             Buffer(n)[(k - 1) * AdSize + j] = SentAds(garbage)[k][j]
      /\ \A k \in 1 .. NumGroups, j \in 1 .. MaxDigits :
             Buffer(n)[NumGroups * AdSize + (k - 1) * MaxDigits + j] = SentNumbers[k][j]
  BY <1>1, Layout
<1>3. /\ text \in Seq(Character)
      /\ SentAds(garbage)[i] = AdText(drawn[i], AdSize)
      /\ SentNumbers[i] = DigitsOf(drawn[i], MaxDigits)
  <2>1. drawn[i] < Len(lines) /\ lines[drawn[i] + 1] = AdSize
    BY <1>2, LinesThere
  <2> QED
    BY <2>1, SentTypes
<1>4. drawn[i] \in AdNumbers /\ AdSize \in Nat
  BY Parameters
<1>5. /\ AdText(drawn[i], AdSize) \in Seq(Character)
      /\ Len(AdText(drawn[i], AdSize)) = AdSize
      /\ DigitsOf(drawn[i], MaxDigits) \in Seq(Character)
      /\ Len(DigitsOf(drawn[i], MaxDigits)) = MaxDigits
  BY <1>4, AdTextFacts, DigitsFacts
<1>6. AdCut(Buffer(n), i) = AdText(drawn[i], AdSize)
  <2> DEFINE cut == AdCut(Buffer(n), i)
             ad == AdText(drawn[i], AdSize)
  <2>1. cut \in Seq(Character) /\ Len(cut) = AdSize
        /\ \A j \in 1 .. AdSize : cut[j] = Buffer(n)[(i - 1) * AdSize + j]
    BY <1>3, BufferCuts
  <2>2. ad \in Seq(Character) /\ Len(ad) = AdSize
        /\ \A j \in 1 .. AdSize : Buffer(n)[(i - 1) * AdSize + j] = ad[j]
    BY <1>2, <1>3, <1>5
  <2> HIDE DEF cut, ad
  <2>3. Len(cut) = Len(ad) /\ \A j \in 1 .. Len(cut) : cut[j] = ad[j]
    BY <2>1, <2>2
  <2>4. cut = ad
    BY <2>1, <2>2, <2>3, SeqEqual
  <2> QED
    BY <2>4 DEF cut, ad
<1>7. NumberCut(Buffer(n), i) = drawn[i]
  <2> DEFINE number == DigitsOf(drawn[i], MaxDigits)
  <2>1. PICK cut \in Seq(Character) :
            /\ NumberCut(Buffer(n), i) = Atoi(cut)
            /\ Len(cut) = MaxDigits
            /\ \A j \in 1 .. MaxDigits :
                   cut[j] = Buffer(n)[NumGroups * AdSize + (i - 1) * MaxDigits + j]
    BY <1>3, BufferCuts
  <2>2. \A j \in 1 .. MaxDigits : cut[j] = number[j]
    BY <1>2, <1>3, <2>1
  <2>3. number \in Seq(Character) /\ Len(number) = MaxDigits
    BY <1>5
  <2>4. Atoi(number) = drawn[i]
    BY <1>4, AtoiReads
  <2> HIDE DEF number
  <2>5. cut = number
    BY <2>1, <2>2, <2>3, SeqEqual
  <2> QED
    BY <2>1, <2>4, <2>5
<1> QED
  BY <1>6, <1>7

LEMMA ParsedType ==
    ASSUME NEW n \in Nat, nvec \in Vectors
    PROVE  Parsed(n) \in [DOMAIN NoParams -> Nat]
<1> DEFINE at == PirAt(EncSize(n))
           size == VecSizeAt(EncSize(n))
<1>1. at \in Nat /\ at + Word \in Nat /\ at + 2 * Word \in Nat /\ size \in Nat
  BY Sizes, EncSizeFacts DEF PirAt, VecSizeAt, PirLen
<1>2. \A f \in PirFields : PirParams[f] \in Nat
  BY Sizes
<1>3. "ele_size" \in PirFields /\ "elements_per_plaintext" \in PirFields /\ "d" \in PirFields
  BY DEF PirFields
<1>4. VecSize(nvec) \in Nat
  BY VecSizeFacts
<1> HIDE DEF at, size
<1>5. /\ Received(n, at, PirParams["ele_size"]) \in Nat
      /\ Received(n, at + Word, PirParams["elements_per_plaintext"]) \in Nat
      /\ Received(n, at + 2 * Word, PirParams["d"]) \in Nat
      /\ Received(n, size, VecSize(nvec)) \in Nat
  BY <1>1, <1>2, <1>3, <1>4, ReceivedFacts
<1>6. Parsed(n) = [ele_size               |-> Received(n, at, PirParams["ele_size"]),
                   elements_per_plaintext |->
                       Received(n, at + Word, PirParams["elements_per_plaintext"]),
                   d                      |-> Received(n, at + 2 * Word, PirParams["d"]),
                   vec_size               |-> Received(n, size, VecSize(nvec))]
  BY DEF Parsed, at, size
<1> QED
  BY <1>5, <1>6 DEF NoParams

LEMMA AdsInit == Init => AdsInv
<1> SUFFICES ASSUME Init PROVE AdsInv
  OBVIOUS
<1>1. AdsTypes
  <2>1. params \in [DOMAIN NoParams -> Nat]
    BY DEF Init, NoParams
  <2>2. DOMAIN currAds = {}
    BY DEF Init
  <2>3. drawn \in Seq(AdNumbers) /\ text \in Seq(Character)
    BY EmptySeq DEF Init
  <2> QED
    BY <2>1, <2>2, <2>3 DEF Init, AdsTypes
<1>2. TextInv /\ NoAdUnderAnother /\ FirstAdsShown
  BY DEF Init, TextInv, NoAdUnderAnother, FirstAdsShown
<1> QED
  BY <1>1, <1>2 DEF AdsInv

\* Steps that leave the text and the display, and come to no stage that says
\* anything of them.
LEMMA TextAside ==
    ASSUME AdsInv, UNCHANGED <<lines, drawn, text, currAds>>,
           stage' \notin {"ads", "prompt"},
           params' \in [DOMAIN NoParams -> Nat], vecRead' \in Nat
    PROVE  AdsInv'
BY DEF AdsInv, AdsTypes, TextInv, NoAdUnderAnother, FirstAdsShown

LEMMA ParamsReadTypes ==
    ASSUME MessageTypes, AdsInv, ClientReadParams PROVE AdsInv'
<1>1. PICK n \in 0 .. sent :
          /\ received' = n
          /\ params' = Parsed(n)
          /\ ClientReadsVector(n)
          /\ stage' \in {"keys", "badParams"}
  BY DEF ClientReadParams
<1>2. /\ nvec' = nvec /\ sent' = sent /\ nvec \in Vectors
      /\ sent \in {0, SentLength(nvec)}
      /\ UNCHANGED <<lines, drawn, text, currAds>>
  BY DEF ClientReadParams, MessageTypes
<1>3. n \in Nat
  BY <1>2, SentLengthFacts
<1>4. params' \in [DOMAIN NoParams -> Nat]
  BY <1>1, <1>2, <1>3, ParsedType
<1>5. vecRead' \in Nat
  <2>1. Len(Elements(n)) \in Nat
    BY <1>2, <1>3, ElementsFacts
  <2> DEFINE read == Len(Elements(n)) * Word
  <2>2. read \in Nat
    BY <2>1, Sizes
  <2>3. vecRead' = 2 * Word + 0 \/ vecRead' = 2 * Word + read
    BY <1>1 DEF ClientReadsVector
  <2> HIDE DEF read
  <2> QED
    BY <2>2, <2>3, Sizes
<1> QED
  BY <1>1, <1>2, <1>4, <1>5, TextAside

\* With a file of whole ads the text is as long as the client wants it.
LEMMA WholeText ==
    ASSUME lines \in Files, drawn \in [1 .. NumGroups -> AdNumbers],
           Len(lines) >= NumGroups * AdsPerGroup,
           \A i \in 1 .. Len(lines) : lines[i] = AdSize,
           NEW garbage \in 0 .. AdSize, text = SentText(garbage)
    PROVE  LongEnough(Len(text))
<1>1. NumGroups \in Nat /\ AdSize \in Nat /\ MaxDigits \in Nat
  BY Parameters
<1>2. OfLength(SentAds(garbage), NumGroups, AdSize)
  BY LinesThere, SentTypes DEF OfLength
<1>3. OfLength(SentNumbers, NumGroups, MaxDigits)
  BY SentTypes DEF OfLength
<1>4. /\ SentAds(garbage) \in [1 .. NumGroups -> Seq(Character)]
      /\ SentNumbers \in [1 .. NumGroups -> Seq(Character)]
  BY SentTypes
<1>5. /\ JoinedAt(SentAds(garbage), NumGroups, AdSize)
      /\ JoinedAt(SentNumbers, NumGroups, MaxDigits)
  BY <1>1, <1>2, <1>3, <1>4, JoinedEven
<1>6. Len(text) = NumGroups * AdSize + NumGroups * MaxDigits
  BY <1>5, SentTypes DEF JoinedAt
<1>7. (AdSize + MaxDigits) * NumGroups = NumGroups * AdSize + NumGroups * MaxDigits
  BY <1>1
<1>8. (AdSize + MaxDigits) * NumGroups \in Nat
  BY <1>1
<1> QED
  BY <1>6, <1>7, <1>8 DEF LongEnough

TextSent(garbage) ==
    /\ lines \in Files
    /\ drawn \in [1 .. NumGroups -> AdNumbers]
    /\ text = SentText(garbage)

LinesWhole ==
    /\ Len(lines) >= NumGroups * AdsPerGroup
    /\ \A i \in 1 .. Len(lines) : lines[i] = AdSize

\* The same of the state after a step.
LEMMA TextNext ==
    /\ \A garbage \in 0 .. AdSize : TextSent(garbage)' => text' \in Seq(Character)
    /\ \A garbage \in 0 .. AdSize :
           TextSent(garbage)' /\ LinesWhole' => LongEnough(Len(text))'
<1> DEFINE Facts ==
               /\ \A garbage \in 0 .. AdSize :
                      TextSent(garbage) => text \in Seq(Character)
               /\ \A garbage \in 0 .. AdSize :
                      TextSent(garbage) /\ LinesWhole => LongEnough(Len(text))
<1>1. Facts
  BY SentTypes, WholeText DEF TextSent, LinesWhole
<1>2. Facts'
  <2> HIDE DEF Facts
  <2> QED
    BY <1>1, PTL
<1> QED
  BY <1>2

LEMMA AdsSent ==
    ASSUME AdsInv, ServerSendsAds PROVE AdsInv'
<1>1. PICK pick \in [1 .. NumGroups -> 0 .. AdsPerGroup - 1], garbage \in 0 .. AdSize :
          /\ drawn' = [i \in 1 .. NumGroups |-> pick[i] + (i - 1) * AdsPerGroup]
          /\ text' = Joined([i \in 1 .. NumGroups |-> AdAt(drawn'[i], garbage)])
                     \o Joined([i \in 1 .. NumGroups |-> Number(drawn'[i])])
          /\ stage' \in {"ads", "serverDown"}
  BY DEF ServerSendsAds
<1>2. UNCHANGED <<nvec, lines, sent, received, params, vecRead, currAds>>
  BY DEF ServerSendsAds
<1>3. drawn' \in [1 .. NumGroups -> AdNumbers]
  <2>1. ASSUME NEW i \in 1 .. NumGroups PROVE pick[i] + (i - 1) * AdsPerGroup \in AdNumbers
    <3> DEFINE before == (i - 1) * AdsPerGroup
               all == NumGroups * AdsPerGroup
    <3>1. /\ i - 1 \in Nat /\ i \in Nat /\ NumGroups \in Nat /\ AdsPerGroup \in Nat
          /\ i <= NumGroups
      BY Parameters
    <3>2. i * AdsPerGroup <= all
      BY <3>1, MoreTimes
    <3>3. i * AdsPerGroup = before + AdsPerGroup /\ before \in Nat /\ all \in Nat
      BY <3>1
    <3>4. pick[i] \in 0 .. AdsPerGroup - 1
      OBVIOUS
    <3> HIDE DEF before, all
    <3>5. pick[i] + before \in 0 .. all - 1
      BY <3>1, <3>2, <3>3, <3>4
    <3> QED
      BY <3>5 DEF AdNumbers, before, all
  <2> QED
    BY <1>1, <2>1
<1>4. text' = SentText(garbage)'
  <2>1. \A i \in 1 .. NumGroups : AdAt(drawn[i], garbage)' = AdAt(drawn'[i], garbage)
    BY <1>2 DEF AdAt, AdLength
  <2>2. SentAds(garbage)' = [i \in 1 .. NumGroups |-> AdAt(drawn'[i], garbage)]
    BY <2>1 DEF SentAds
  <2>3. SentNumbers' = [i \in 1 .. NumGroups |-> Number(drawn'[i])]
    BY DEF SentNumbers
  <2> QED
    BY <1>1, <2>2, <2>3 DEF SentText
<1>5. lines' \in Files
  BY <1>2 DEF AdsInv, AdsTypes
<1>6. drawn' \in Seq(AdNumbers)
  BY <1>3, Parameters
<1>7. AdsTypes'
  <2>1. text' \in Seq(Character)
    BY <1>3, <1>4, <1>5, TextNext DEF TextSent
  <2>2. UNCHANGED <<lines, params, vecRead, currAds>>
    BY <1>2
  <2> QED
    BY <1>6, <2>1, <2>2 DEF AdsInv, AdsTypes
<1>8. TextInv'
  BY <1>3, <1>4 DEF TextInv
<1>9. NoAdUnderAnother'
  BY <1>1 DEF NoAdUnderAnother
<1>10. FirstAdsShown'
  <2>1. TextSent(garbage)'
    BY <1>3, <1>4, <1>5 DEF TextSent
  <2>2. LinesWhole' => LongEnough(Len(text))'
    BY <2>1, TextNext
  <2> QED
    BY <1>1, <2>2 DEF FirstAdsShown, LinesAre, LinesWhole
<1> QED
  BY <1>7, <1>8, <1>9, <1>10 DEF AdsInv

LEMMA AdsRead ==
    ASSUME AdsInv, ClientReadAds PROVE AdsInv'
<1>1. PICK n \in 0 .. Len(text) :
          IF LongEnough(n)
          THEN currAds' = Inserted(Buffer(n)) /\ stage' = "prompt"
          ELSE stage' = "badAds" /\ UNCHANGED currAds
  BY DEF ClientReadAds
<1>2. UNCHANGED <<nvec, lines, sent, received, params, vecRead, drawn, text>> /\ stage = "ads"
  BY DEF ClientReadAds
<1>3. CASE ~ LongEnough(n)
  <2>1. stage' \notin {"ads", "prompt"} /\ UNCHANGED <<lines, drawn, text, currAds>>
        /\ params' \in [DOMAIN NoParams -> Nat] /\ vecRead' \in Nat
    BY <1>1, <1>2, <1>3 DEF AdsInv, AdsTypes
  <2> QED
    BY <2>1, TextAside
<1>4. CASE LongEnough(n)
  <2> DEFINE b == Buffer(n)
  <2>1. /\ text \in Seq(Character) /\ lines \in Files
        /\ drawn \in [1 .. NumGroups -> AdNumbers]
        /\ \E garbage \in 0 .. AdSize : text = SentText(garbage)
    BY <1>2 DEF AdsInv, AdsTypes, TextInv
  <2>2. /\ DOMAIN currAds' = {NumberCut(b, i) : i \in 1 .. NumGroups}
        /\ \A number \in DOMAIN currAds' :
               \E i \in 1 .. NumGroups :
                   NumberCut(b, i) = number /\ currAds'[number] = AdCut(b, i)
    <3>1. currAds' = Inserted(b)
      BY <1>1, <1>4
    <3> HIDE DEF b
    <3> QED
      BY <3>1, InsertedFacts
  <2>3. \A number \in DOMAIN currAds' : number \in Nat /\ Len(currAds'[number]) = AdSize
    <3>1. \A i \in 1 .. NumGroups : NumberCut(b, i) \in Nat /\ Len(AdCut(b, i)) = AdSize
      BY <2>1, BufferCuts, AtoiType
    <3> HIDE DEF b
    <3> QED
      BY <2>2, <3>1
  <2>4. ASSUME Len(lines) >= NumGroups * AdsPerGroup,
               \A i \in 1 .. Len(lines) : lines[i] <= AdSize
        PROVE  /\ DOMAIN currAds' = {drawn[i] : i \in 1 .. NumGroups}
               /\ \A number \in DOMAIN currAds' :
                      /\ number \in AdNumbers
                      /\ currAds'[number] = AdText(number, AdSize)
    <3>1. PICK garbage \in 0 .. AdSize : text = SentText(garbage)
      BY <2>1
    <3>2. \A i \in 1 .. NumGroups :
              /\ NumberCut(b, i) = drawn[i] /\ drawn[i] \in AdNumbers
              /\ AdCut(b, i) = AdText(drawn[i], AdSize)
      BY <1>4, <2>1, <2>4, <3>1, CutsAgree
    <3> HIDE DEF b
    <3>3. \A number \in DOMAIN currAds' :
              /\ number \in AdNumbers
              /\ currAds'[number] = AdText(number, AdSize)
      <4> TAKE number \in DOMAIN currAds'
      <4>1. PICK i \in 1 .. NumGroups :
                NumberCut(b, i) = number /\ currAds'[number] = AdCut(b, i)
        BY <2>2
      <4> QED
        BY <3>2, <4>1
    <3>4. {NumberCut(b, i) : i \in 1 .. NumGroups} = {drawn[i] : i \in 1 .. NumGroups}
      BY <3>2
    <3> QED
      BY <2>2, <3>3, <3>4
  <2> HIDE DEF b
  <2>5. AdsTypes'
    BY <1>2, <2>3 DEF AdsInv, AdsTypes
  <2>6. \A garbage : SentText(garbage)' = SentText(garbage)
    BY <1>2 DEF SentText, SentAds, SentNumbers, AdAt, AdLength
  <2>7. TextInv'
    BY <1>2, <2>1, <2>6 DEF TextInv
  <2>8. NoAdUnderAnother'
    BY <1>2, <2>4 DEF NoAdUnderAnother, LinesAre
  <2>9. FirstAdsShown'
    <3> SUFFICES ASSUME Len(lines) >= NumGroups * AdsPerGroup,
                        \A i \in 1 .. Len(lines) : lines[i] = AdSize
                 PROVE  /\ DOMAIN currAds' = {drawn[i] : i \in 1 .. NumGroups}
                        /\ LongEnough(Len(text))
      BY <1>2 DEF FirstAdsShown, LinesAre, LongEnough
    <3>1. \A i \in 1 .. Len(lines) : lines[i] <= AdSize
      BY Parameters
    <3>2. LongEnough(Len(text))
      BY <2>1, WholeText
    <3> QED
      BY <2>4, <3>1, <3>2
  <2> QED
    BY <2>5, <2>7, <2>8, <2>9 DEF AdsInv
<1> QED
  BY <1>3, <1>4

LEMMA AdsStep == ParamsInv /\ AdsInv /\ [Next]_vars => AdsInv'
<1> SUFFICES ASSUME ParamsInv, AdsInv, [Next]_vars PROVE AdsInv'
  OBVIOUS
<1>1. params \in [DOMAIN NoParams -> Nat] /\ vecRead \in Nat
  BY DEF AdsInv, AdsTypes
<1>2. CASE ServerSendsParams
  BY <1>1, <1>2, TextAside DEF ServerSendsParams
<1>3. CASE ClientReadParams
  BY <1>3, ParamsReadTypes DEF ParamsInv
<1>4. CASE ServerSendsAds
  BY <1>4, AdsSent
<1>5. CASE ClientReadAds
  BY <1>5, AdsRead
<1>6. CASE ClientQuery
  BY <1>1, <1>6, TextAside DEF ClientQuery
<1>7. CASE UNCHANGED vars
  <2>1. \A garbage : SentText(garbage)' = SentText(garbage)
    BY <1>7 DEF vars, SentText, SentAds, SentNumbers, AdAt, AdLength
  <2>2. UNCHANGED <<stage, lines, params, vecRead, drawn, text, currAds>>
    BY <1>7 DEF vars
  <2>3. AdsTypes' /\ TextInv'
    BY <2>1, <2>2 DEF AdsInv, AdsTypes, TextInv
  <2>4. NoAdUnderAnother' /\ FirstAdsShown'
    BY <2>2 DEF AdsInv, NoAdUnderAnother, FirstAdsShown, LinesAre, LongEnough
  <2> QED
    BY <2>3, <2>4 DEF AdsInv
<1> QED
  BY <1>2, <1>3, <1>4, <1>5, <1>6, <1>7 DEF Next

LEMMA AdsAlways == Spec => []AdsInv
BY AdsInit, AdsStep, ParamsAlways, PTL DEF Spec

\* Both messages are taken apart into what the client declares for them, however
\* much of either has come (user.cpp:332-362, 484-511).
THEOREM MessagesTypeCorrect == Spec => []TypeOK
<1>1. ParamsInv /\ AdsInv => TypeOK
  <2> SUFFICES ASSUME ParamsInv, AdsInv PROVE TypeOK
    OBVIOUS
  <2> QED
    BY DEF ParamsInv, MessageTypes, AdsInv, AdsTypes, TypeOK
<1> QED
  BY <1>1, AdsAlways, ParamsAlways, PTL

\* For any number and size of ads: what the client cuts out of the text for a
\* number is the ad of that number, unless a line is missing or too long for the
\* fixed places of the cut (user.cpp:484-511, main_server.cpp:381-394).
THEOREM NeverAnAdUnderAnother == Spec => []NoAdUnderAnother
<1>1. AdsInv => NoAdUnderAnother
  BY DEF AdsInv
<1> QED
  BY <1>1, AdsAlways, PTL

\* With a file of whole ads the text has just the length that the client asks
\* for, and the ads drawn are those shown (user.cpp:484-511, main_server.cpp:381-394).
THEOREM FirstAdsAlwaysShown == Spec => []FirstAdsShown
<1>1. AdsInv => FirstAdsShown
  BY DEF AdsInv
<1> QED
  BY <1>1, AdsAlways, PTL

=============================================================================
