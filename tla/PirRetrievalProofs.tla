-------------------------- MODULE PirRetrievalProofs --------------------------
(***************************************************************************)
(* Proofs about PirRetrieval, for every degree, size of an ad, size of the *)
(* database and literal of the client: the types, the place of every line, *)
(* that a wrong literal never makes one ad pass for another, and that a    *)
(* right one makes the user see the ad asked for.                          *)
(***************************************************************************)
EXTENDS PirRetrieval, TLAPS

-----------------------------------------------------------------------------
(* Quotients and remainders.                                               *)

\* Division by a positive number.
LEMMA Division ==
    ASSUME NEW n \in Nat, NEW k \in Nat \ {0}
    PROVE  /\ n \div k \in Nat
           /\ n % k \in 0 .. k - 1
           /\ n = k * (n \div k) + (n % k)
OBVIOUS

\* Quotients keep the order.
LEMMA DivisionMonotone ==
    ASSUME NEW a \in Nat, NEW b \in Nat, NEW k \in Nat \ {0}, a <= b
    PROVE  a \div k <= b \div k
<1> DEFINE p == a \div k
           q == b \div k
<1>1. p \in Nat /\ q \in Nat /\ k * p <= a /\ b < k * q + k
  BY Division
<1>2. SUFFICES ASSUME q < p PROVE FALSE
  BY <1>1
<1> HIDE DEF p, q
<1>3. k * (q + 1) <= k * p
  BY <1>1, <1>2
<1>4. k * (q + 1) = k * q + k
  BY <1>1
<1> QED
  BY <1>1, <1>3, <1>4

\* The number of parts of size k that n things need is above the number of
\* every part that holds one of them.
LEMMA PartBelowCeilDiv ==
    ASSUME NEW n \in Nat, NEW k \in Nat \ {0}, NEW i \in 0 .. n - 1
    PROVE  /\ CeilDiv(n, k) \in Nat \ {0}
           /\ i \div k < CeilDiv(n, k)
<1>1. i + k \in Nat /\ n + k - 1 \in Nat /\ i + k <= n + k - 1
  OBVIOUS
<1>2. (i + k) \div k <= (n + k - 1) \div k
  BY <1>1, DivisionMonotone
<1>3. (i + k) \div k = (i \div k) + 1
  OBVIOUS
<1>4. i \div k \in Nat /\ (n + k - 1) \div k \in Nat
  BY Division, <1>1
<1> QED
  BY <1>2, <1>3, <1>4 DEF CeilDiv

\* The number of parts is a number.
LEMMA CeilDivIsNat ==
    ASSUME NEW n \in Nat, NEW k \in Nat \ {0}
    PROVE  CeilDiv(n, k) \in Nat
<1>1. n + k - 1 \in Nat
  OBVIOUS
<1> QED
  BY <1>1, Division DEF CeilDiv

-----------------------------------------------------------------------------
(* The layout.                                                             *)

\* At least one ad fits in a plaintext: assert(ele_per_ptxt > 0).
LEMMA AnAdFits == ElementsPerPtxt \in Nat \ {0}
<1>1. Degree \in Nat \ {0} /\ Logt \in Nat \ {0} /\ 8 * EleSize \in Nat \ {0}
  BY RetrievalAssumption
<1>2. CoefficientsPerElement \in Nat \ {0}
  <2>1. 0 \in 0 .. 8 * EleSize - 1
    BY <1>1
  <2> QED
    BY <1>1, <2>1, PartBelowCeilDiv DEF CoefficientsPerElement
<1>3. CoefficientsPerElement <= Degree
  BY RetrievalAssumption
<1> DEFINE c == CoefficientsPerElement
<1>4. /\ Degree \div c \in Nat
      /\ Degree % c \in 0 .. c - 1
      /\ Degree = c * (Degree \div c) + (Degree % c)
  BY <1>1, <1>2, Division
<1>5. Degree \div c # 0
  <2> SUFFICES ASSUME Degree \div c = 0 PROVE FALSE
    OBVIOUS
  <2>1. c * (Degree \div c) = 0
    BY <1>2
  <2> HIDE DEF c
  <2> QED
    BY <1>2, <1>3, <1>4, <2>1, <1>1 DEF c
<1> QED
  BY <1>4, <1>5 DEF ElementsPerPtxt

\* A line is at the place that its index and offset name, and its plaintext is
\* one of the dimension.
LEMMA LineHasPlace ==
    ASSUME NEW items \in Nat, NEW line \in 0 .. items - 1
    PROVE  /\ FvIndex(line) < Dimension(items)
           /\ LineAt(items, FvIndex(line), FvOffset(line)) = line
<1> DEFINE k == ElementsPerPtxt
<1>1. k \in Nat \ {0}
  BY AnAdFits
<1> HIDE DEF k
<1>2. /\ line \div k \in Nat
      /\ line % k \in 0 .. k - 1
      /\ line = k * (line \div k) + (line % k)
  <2>1. line \in Nat
    OBVIOUS
  <2> QED
    BY <1>1, <2>1, Division
<1>3. (line \div k) * k = k * (line \div k)
  BY <1>1, <1>2
<1>4. line \div k < CeilDiv(items, k) /\ CeilDiv(items, k) \in Nat
  BY <1>1, PartBelowCeilDiv
<1>5. line \div k < Dimension(items)
  BY <1>2, <1>4 DEF Dimension, PlaintextsPerDb, k
<1>6. LineAt(items, line \div k, line % k) = line
  BY <1>1, <1>2, <1>3 DEF LineAt, k
<1> QED
  BY <1>5, <1>6 DEF FvIndex, FvOffset, k

\* At the place of a number there is the ad of that number or none.
LEMMA PlaceOfNumber ==
    ASSUME NEW items \in Nat, NEW number \in Nat
    PROVE  LineAt(items, FvIndex(number), FvOffset(number)) \in {number, NoLine}
<1>1. CASE number < items
  BY <1>1, LineHasPlace
<1>2. CASE ~ number < items
  <2> DEFINE k == ElementsPerPtxt
  <2>1. k \in Nat \ {0}
    BY AnAdFits
  <2> HIDE DEF k
  <2>2. /\ number \div k \in Nat
        /\ number = k * (number \div k) + (number % k)
    BY <2>1, Division
  <2>3. (number \div k) * k = k * (number \div k)
    BY <2>1, <2>2
  <2>4. number = (number \div k) * k + (number % k)
    BY <2>2, <2>3
  <2> QED
    BY <1>2, <2>4 DEF LineAt, FvIndex, FvOffset, k
<1> QED
  BY <1>1, <1>2

\* The dimension is a number.
LEMMA DimensionIsNat ==
    ASSUME NEW items \in Nat
    PROVE  Dimension(items) \in Nat \ {0}
  BY AnAdFits, CeilDivIsNat DEF Dimension, PlaintextsPerDb

-----------------------------------------------------------------------------
(* The query.                                                              *)

\* What a query says of the ad it was made for: with the coefficient's place
\* among those of its ciphertext, it names the index of the ad.
QueryNames(q, index) ==
    /\ q.ctxt \in ClientCtxts
    /\ q.at \in 0 .. Degree - 1
    /\ q.log \in Logs
    /\ Degree * q.ctxt + q.at = index
    /\ q.log = Log(Total(ClientDim, q.ctxt))

\* The number of ciphertexts of the query.
LEMMA ClientHasCtxts ==
    /\ CeilDiv(ClientDim, Degree) \in Nat \ {0}
    /\ ClientCtxts \subseteq Nat
<1>1. 0 \in 0 .. ClientDim - 1 /\ ClientDim \in Nat /\ Degree \in Nat \ {0}
  BY RetrievalAssumption
<1> QED
  BY <1>1, PartBelowCeilDiv DEF ClientCtxts

\* The plaintexts a ciphertext stands for are at most the degree.
LEMMA TotalAtMostDegree ==
    ASSUME NEW dim \in Nat, NEW j
    PROVE  Total(dim, j) \in 0 .. Degree
<1>1. Degree \in Nat \ {0}
  BY RetrievalAssumption
<1>2. dim % Degree \in 0 .. Degree - 1
  BY <1>1, Division
<1> QED
  BY <1>1, <1>2 DEF Total

\* A query that does not throw is empty or names its index.
LEMMA QueryOfNames ==
    ASSUME NEW index \in Nat, ~ Throws(index)
    PROVE  QueryOf(index) = NoQuery \/ QueryNames(QueryOf(index), index)
<1>1. CASE ~ \E j \in ClientCtxts : Covers(j, index)
  BY <1>1 DEF QueryOf
<1>2. CASE \E j \in ClientCtxts : Covers(j, index)
  <2> DEFINE c == CHOOSE j \in ClientCtxts : Covers(j, index)
  <2>1. c \in ClientCtxts /\ Covers(c, index)
    BY <1>2
  <2>2. QueryOf(index) =
          [ctxt |-> c, at |-> index - Degree * c, log |-> Log(Total(ClientDim, c))]
    BY <1>2 DEF QueryOf
  <2> HIDE DEF c
  <2>3. index - Degree * c # Degree
    BY <2>1 DEF Throws
  <2>4. c \in Nat /\ Degree \in Nat /\ ClientDim \in Nat
    BY <2>1, ClientHasCtxts, RetrievalAssumption
  <2>5. Degree * c \in Nat /\ Degree * (c + 1) = Degree * c + Degree
    BY <2>4
  <2>6. Degree * c <= index /\ index <= Degree * (c + 1)
    BY <2>1 DEF Covers
  <2>7. /\ index - Degree * c \in 0 .. Degree - 1
        /\ Degree * c + (index - Degree * c) = index
    BY <2>3, <2>4, <2>5, <2>6
  <2>8. Log(Total(ClientDim, c)) \in Logs
    BY <2>4, TotalAtMostDegree DEF Logs
  <2> QED
    BY <2>1, <2>2, <2>7, <2>8 DEF QueryNames
<1> QED
  BY <1>1, <1>2

-----------------------------------------------------------------------------
(* Type correctness.                                                       *)

\* The program starts with every variable of its type, provided there is an
\* ad to ask for.
LEMMA TypeInit == Init => TypeOK
<1> SUFFICES ASSUME Init PROVE TypeOK
  OBVIOUS
<1>1. 0 \in 0 .. TtlAds - 1 /\ 0 \in 0 .. Degree - 1
  BY RetrievalAssumption
<1>2. query \in [ctxt : {-1} \cup ClientCtxts, at : 0 .. Degree - 1, log : {0} \cup Logs]
  BY <1>1 DEF Init, NoQuery
<1>3. reply \in {NoReply} \cup [ptxt : Nat, clean : BOOLEAN]
  BY DEF Init
<1> QED
  BY <1>1, <1>2, <1>3 DEF Init, TypeOK, NoLine

\* The index of a number is a number.
LEMMA FvIndexIsNat ==
    ASSUME NEW number \in Nat
    PROVE  FvIndex(number) \in Nat
  BY AnAdFits, Division DEF FvIndex

\* A reply has its type.
LEMMA SelectedHasType ==
    ASSUME TypeOK, NEW dim \in Nat
    PROVE  Selected(dim) \in {NoReply} \cup [ptxt : Nat, clean : BOOLEAN]
<1>1. CASE /\ query.ctxt \in 0 .. CeilDiv(dim, Degree) - 1
           /\ query.at < Total(dim, query.ctxt)
  <2>1. query.ctxt \in Nat /\ query.at \in Nat /\ Degree \in Nat \ {0}
    <3>1. Degree \in Nat \ {0}
      BY RetrievalAssumption
    <3>2. CeilDiv(dim, Degree) \in Nat
      BY <3>1, CeilDivIsNat
    <3> QED
      BY <1>1, <3>1, <3>2 DEF TypeOK
  <2>2. Degree * query.ctxt + query.at \in Nat
    BY <2>1
  <2>3. Selected(dim) = [ptxt  |-> Degree * query.ctxt + query.at,
                         clean |-> query.log = Log(Total(dim, query.ctxt))]
    BY <1>1 DEF Selected
  <2>4. (query.log = Log(Total(dim, query.ctxt))) \in BOOLEAN
    OBVIOUS
  <2> QED
    BY <2>2, <2>3, <2>4
<1>2. CASE ~ (/\ query.ctxt \in 0 .. CeilDiv(dim, Degree) - 1
              /\ query.at < Total(dim, query.ctxt))
  BY <1>2 DEF Selected, NoReply
<1> QED
  BY <1>1, <1>2

\* Every step keeps the types.
LEMMA TypeStep == TypeOK /\ [Next]_vars => TypeOK'
<1> SUFFICES ASSUME TypeOK, [Next]_vars PROVE TypeOK'
  OBVIOUS
<1>1. CASE CreateAds
  BY <1>1, RetrievalAssumption DEF CreateAds, TypeOK
<1>2. CASE StartServer
  BY <1>2 DEF StartServer, TypeOK
<1>3. ASSUME NEW number \in Numbers, Request(number) PROVE TypeOK'
  <2>1. number \in 0 .. TtlAds - 1 /\ number \in Nat
    BY RetrievalAssumption
  <2>2. query' \in [ctxt : {-1} \cup ClientCtxts, at : 0 .. Degree - 1, log : {0} \cup Logs]
    <3>1. CASE Throws(number) \/ Throws(FvIndex(number))
      BY <1>3, <3>1 DEF Request, TypeOK
    <3>2. CASE ~ (Throws(number) \/ Throws(FvIndex(number)))
      <4>1. query' = QueryOf(FvIndex(number))
        BY <1>3, <3>2 DEF Request
      <4>2. \/ QueryOf(FvIndex(number)) = NoQuery
            \/ QueryNames(QueryOf(FvIndex(number)), FvIndex(number))
        BY <2>1, <3>2, FvIndexIsNat, QueryOfNames
      <4>3. 0 \in 0 .. Degree - 1
        BY RetrievalAssumption
      <4> DEFINE IsQuery(q) == \E c, a, l : q = [ctxt |-> c, at |-> a, log |-> l]
      <4>4. IsQuery(QueryOf(FvIndex(number)))
        BY DEF QueryOf, NoQuery
      <4>5. PICK c, a, l : QueryOf(FvIndex(number)) = [ctxt |-> c, at |-> a, log |-> l]
        BY <4>4
      <4> QED
        BY <4>1, <4>2, <4>3, <4>5 DEF NoQuery, QueryNames
    <3> QED
      BY <3>1, <3>2
  <2>3. ad' = number /\ stage' \in {"threw", "query"}
    BY <1>3 DEF Request
  <2> QED
    BY <1>3, <2>1, <2>2, <2>3 DEF Request, TypeOK
<1>4. CASE Answer
  <2>1. loaded \in Nat
    BY DEF TypeOK
  <2>2. Selected(Dimension(loaded)) \in {NoReply} \cup [ptxt : Nat, clean : BOOLEAN]
    BY <2>1, DimensionIsNat, SelectedHasType
  <2>4. reply' \in {NoReply} \cup [ptxt : Nat, clean : BOOLEAN]
    BY <1>4, <2>2 DEF Answer, TypeOK
  <2>5. stage' \in {stage, "reply"} /\ server' \in {server, "down"}
    BY <1>4 DEF Answer
  <2> QED
    BY <1>4, <2>4, <2>5 DEF Answer, TypeOK
<1>5. CASE Decode
  <2>1. loaded \in Nat /\ ad \in Nat
    BY RetrievalAssumption DEF TypeOK
  <2>2. got' \in {NoLine} \cup Nat
    <3>1. ElementsPerPtxt \in Nat /\ FvOffset(ad) \in Nat
      BY <2>1, AnAdFits, Division DEF FvOffset
    <3>2. CASE reply.clean
      <4>1. reply.ptxt \in Nat
        BY <3>2 DEF TypeOK, NoReply
      <4>2. reply.ptxt * ElementsPerPtxt \in Nat
        BY <3>1, <4>1
      <4> QED
        BY <1>5, <3>1, <3>2, <4>1, <4>2 DEF Decode, LineAt
    <3> QED
      BY <1>5, <3>2 DEF Decode
  <2> QED
    BY <1>5, <2>2 DEF Decode, TypeOK
<1>6. CASE UNCHANGED vars
  BY <1>6 DEF vars, TypeOK
<1> QED
  BY <1>1, <1>2, <1>3, <1>4, <1>5, <1>6 DEF Next

\* Every variable keeps its type, whatever the sizes: in particular no query
\* that is sent has a coefficient the polynomial has not (pir_client.cpp:53).
THEOREM RetrievalTypeCorrect == Spec => []TypeOK
  BY TypeInit, TypeStep, PTL DEF Spec

-----------------------------------------------------------------------------
(* The place of every line.                                                *)

\* Whatever the size of the file, its lines all have a place, each its own
\* (pir.cpp:33, pir_server.cpp:59).
THEOREM EveryLineKeepsItsPlace == Spec => []EveryLineHasItsPlace
<1>1. TypeOK => EveryLineHasItsPlace
  BY LineHasPlace DEF TypeOK, EveryLineHasItsPlace
<1> QED
  BY <1>1, RetrievalTypeCorrect, PTL

-----------------------------------------------------------------------------
(* A wrong literal never swaps two ads.                                    *)

\* On its way, a request names the index of the ad asked for, or nothing.
SwapInv ==
    /\ stage = "query" =>
           query = NoQuery \/ QueryNames(query, FvIndex(ad))
    /\ stage = "reply" /\ reply.clean => reply.ptxt = FvIndex(ad)
    /\ NeverAnotherAd

\* What the expansion selects is the plaintext that the query names, if any.
LEMMA SelectedIsNamed ==
    ASSUME NEW dim \in Nat,
           query = NoQuery \/ QueryNames(query, FvIndex(ad)),
           Selected(dim).clean
    PROVE  Selected(dim).ptxt = FvIndex(ad)
<1>1. /\ query.ctxt \in 0 .. CeilDiv(dim, Degree) - 1
      /\ query.at < Total(dim, query.ctxt)
  BY DEF Selected, NoReply
<1>2. Selected(dim).ptxt = Degree * query.ctxt + query.at
  BY <1>1 DEF Selected
<1>3. query # NoQuery
  <2>1. CeilDiv(dim, Degree) \in Nat
    BY CeilDivIsNat, RetrievalAssumption
  <2> QED
    BY <1>1, <2>1 DEF NoQuery
<1> QED
  BY <1>2, <1>3 DEF QueryNames

\* Every step keeps the request naming its ad.
LEMMA SwapStep == TypeOK /\ SwapInv /\ [Next]_vars => SwapInv'
<1> SUFFICES ASSUME TypeOK, SwapInv, [Next]_vars PROVE SwapInv'
  OBVIOUS
<1>1. CASE CreateAds
  BY <1>1 DEF CreateAds, SwapInv, NeverAnotherAd, QueryNames
<1>2. CASE StartServer
  BY <1>2 DEF StartServer, SwapInv, NeverAnotherAd, QueryNames
<1>3. ASSUME NEW number \in Numbers, Request(number) PROVE SwapInv'
  <2>1. number \in Nat
    BY RetrievalAssumption
  <2>2. CASE Throws(number) \/ Throws(FvIndex(number))
    BY <1>3, <2>2 DEF Request, SwapInv, NeverAnotherAd
  <2>3. CASE ~ (Throws(number) \/ Throws(FvIndex(number)))
    <3>1. query' = QueryOf(FvIndex(number)) /\ ad' = number /\ stage' = "query"
      BY <1>3, <2>3 DEF Request
    <3>2. \/ QueryOf(FvIndex(number)) = NoQuery
          \/ QueryNames(QueryOf(FvIndex(number)), FvIndex(number))
      BY <2>1, <2>3, FvIndexIsNat, QueryOfNames
    <3> QED
      BY <3>1, <3>2 DEF SwapInv, NeverAnotherAd, QueryNames
  <2> QED
    BY <2>2, <2>3
<1>4. CASE Answer
  <2>1. stage = "query" /\ UNCHANGED <<ad, query, got>>
    BY <1>4 DEF Answer
  <2>2. CASE stage' = "reply"
    <3>1. reply' = Selected(Dimension(loaded)) \/ reply' = NoReply
      BY <1>4, <2>1, <2>2 DEF Answer
    <3>2. Dimension(loaded) \in Nat
      BY DimensionIsNat DEF TypeOK
    <3>3. reply'.clean => reply'.ptxt = FvIndex(ad)
      BY <2>1, <3>1, <3>2, SelectedIsNamed DEF SwapInv, NoReply
    <3> QED
      BY <2>1, <2>2, <3>3 DEF SwapInv, NeverAnotherAd, FvIndex
  <2>3. CASE UNCHANGED stage
    BY <2>1, <2>3 DEF SwapInv, NeverAnotherAd, QueryNames
  <2> QED
    BY <1>4, <2>2, <2>3 DEF Answer
<1>5. CASE Decode
  <2>1. loaded \in Nat /\ ad \in Nat
    BY RetrievalAssumption DEF TypeOK
  <2>2. got' \in {ad, NoLine}
    BY <1>5, <2>1, PlaceOfNumber DEF Decode, SwapInv
  <2> QED
    BY <1>5, <2>2 DEF Decode, SwapInv, NeverAnotherAd
<1>6. CASE UNCHANGED vars
  BY <1>6 DEF vars, SwapInv, NeverAnotherAd, QueryNames
<1> QED
  BY <1>1, <1>2, <1>3, <1>4, <1>5, <1>6 DEF Next

\* However the client's literal (pir_client.cpp:39) differs from the dimension
\* the server computed, no ad is ever shown under the number of another.
THEOREM AdsAreNeverSwapped == Spec => []NeverAnotherAd
<1>1. Init => SwapInv
  BY DEF Init, SwapInv, NeverAnotherAd
<1>2. SwapInv => NeverAnotherAd
  BY DEF SwapInv
<1> QED
  BY <1>1, <1>2, SwapStep, RetrievalTypeCorrect, PTL DEF Spec

-----------------------------------------------------------------------------
(* With the right literal, the user sees the ad asked for.                 *)

\* A request that fits is on its way without loss.
FitInv ==
    /\ server = "off" => stage = "idle"
    /\ stage = "query" /\ Fits => QueryNames(query, FvIndex(ad))
    /\ stage = "reply" /\ Fits => reply.clean /\ reply.ptxt = FvIndex(ad)
    /\ RetrievedWhenFits

\* Every index of a plaintext below the dimension is in one ciphertext.
LEMMA IndexIsCovered ==
    ASSUME NEW index \in 0 .. ClientDim - 1
    PROVE  \E j \in ClientCtxts : Covers(j, index)
<1> DEFINE j == index \div Degree
<1>1. ClientDim \in Nat /\ Degree \in Nat \ {0} /\ index \in Nat
  BY RetrievalAssumption
<1>2. j \in Nat /\ j < CeilDiv(ClientDim, Degree) /\ CeilDiv(ClientDim, Degree) \in Nat
  BY <1>1, PartBelowCeilDiv, Division
<1>3. Degree * j <= index /\ index <= Degree * j + Degree
  BY <1>1, Division
<1> HIDE DEF j
<1>4. Degree * (j + 1) = Degree * j + Degree
  BY <1>1, <1>2
<1> QED
  BY <1>2, <1>3, <1>4 DEF Covers, ClientCtxts

\* Its place is below the number of plaintexts the ciphertext stands for.
LEMMA PlaceBelowTotal ==
    ASSUME NEW c \in ClientCtxts, NEW at \in 0 .. Degree - 1,
           Degree * c + at < ClientDim
    PROVE  at < Total(ClientDim, c)
<1>1. ClientDim \in Nat /\ Degree \in Nat \ {0, 1} /\ ClientDim % Degree # 0 /\ c \in Nat
  BY RetrievalAssumption, ClientHasCtxts
<1>2. CASE c = CeilDiv(ClientDim, Degree) - 1
  <2> DEFINE q == ClientDim \div Degree
             r == ClientDim % Degree
  <2>1. q \in Nat /\ r \in 1 .. Degree - 1 /\ ClientDim = Degree * q + r
    <3>1. Degree \in Nat \ {0}
      BY <1>1
    <3>2. q \in Nat /\ r \in 0 .. Degree - 1 /\ ClientDim = Degree * q + r
      BY <1>1, <3>1, Division
    <3>3. r # 0
      BY <1>1
    <3> HIDE DEF q, r
    <3> QED
      BY <1>1, <3>2, <3>3
  <2>2. Total(ClientDim, c) = r
    BY <1>2 DEF Total
  <2>3. c >= q
    <3>1. q = (ClientDim - 1) \div Degree
      <4> HIDE DEF q, r
      <4>1. ClientDim - 1 = Degree * q + (r - 1) /\ r - 1 \in 0 .. Degree - 1
        BY <2>1, <1>1
      <4>2. (Degree * q + (r - 1)) \div Degree = q
        BY <2>1, <4>1, <1>1
      <4> QED
        BY <4>1, <4>2
    <3>2. ClientDim - 1 \in 0 .. ClientDim - 1
      BY <1>1, <2>1, RetrievalAssumption
    <3>3. (ClientDim - 1) \div Degree < CeilDiv(ClientDim, Degree)
      BY <1>1, <3>2, PartBelowCeilDiv
    <3> QED
      BY <1>1, <1>2, <2>1, <3>1, <3>3, ClientHasCtxts
  <2> HIDE DEF q, r
  <2>4. Degree * c >= Degree * q
    BY <1>1, <2>1, <2>3
  <2>5. Degree * c \in Nat /\ Degree * q \in Nat
    BY <1>1, <2>1
  <2> QED
    BY <2>1, <2>2, <2>4, <2>5
<1>3. CASE c # CeilDiv(ClientDim, Degree) - 1
  BY <1>1, <1>3 DEF Total
<1> QED
  BY <1>2, <1>3

\* The plaintext of an ad in the database is below the dimension.
LEMMA FittingIndex ==
    ASSUME NEW number \in Nat, NEW items \in Nat,
           number < items, Dimension(items) = ClientDim
    PROVE  FvIndex(number) \in 0 .. ClientDim - 1
<1>1. items \in Nat \ {0} /\ number \in 0 .. items - 1
  OBVIOUS
<1>2. FvIndex(number) < Dimension(items)
  BY <1>1, LineHasPlace
<1> QED
  BY <1>2, FvIndexIsNat, RetrievalAssumption

\* Every step keeps the request on its way.
LEMMA FitStep == TypeOK /\ FitInv /\ [Next]_vars => FitInv'
<1> SUFFICES ASSUME TypeOK, FitInv, [Next]_vars PROVE FitInv'
  OBVIOUS
<1>0. loaded \in Nat /\ ad \in Nat
  BY RetrievalAssumption DEF TypeOK
<1>1. CASE CreateAds
  BY <1>1 DEF CreateAds, FitInv, RetrievedWhenFits, Fits, QueryNames
<1>2. CASE StartServer
  <2>1. stage = "idle" /\ stage' = "idle"
    BY <1>2 DEF StartServer, FitInv
  <2>2. server' # "off"
    BY <1>2 DEF StartServer
  <2> QED
    BY <2>1, <2>2 DEF FitInv, RetrievedWhenFits
<1>3. ASSUME NEW number \in Numbers, Request(number) PROVE FitInv'
  <2>1. number \in Nat
    BY RetrievalAssumption
  <2>2. CASE Throws(number) \/ Throws(FvIndex(number))
    BY <1>3, <2>2 DEF Request, FitInv, RetrievedWhenFits
  <2>3. CASE ~ (Throws(number) \/ Throws(FvIndex(number)))
    <3>1. /\ query' = QueryOf(FvIndex(number)) /\ ad' = number /\ loaded' = loaded
          /\ stage' = "query" /\ server' = "up"
      BY <1>3, <2>3 DEF Request
    <3>2. ASSUME Dimension(loaded) = ClientDim, number < loaded
          PROVE  QueryNames(QueryOf(FvIndex(number)), FvIndex(number))
      <4>1. FvIndex(number) \in 0 .. ClientDim - 1
        BY <1>0, <2>1, <3>2, FittingIndex
      <4>2. QueryOf(FvIndex(number)).ctxt \in ClientCtxts
        BY <4>1, IndexIsCovered DEF QueryOf
      <4>3. QueryOf(FvIndex(number)) # NoQuery
        BY <4>2, ClientHasCtxts DEF NoQuery
      <4> QED
        BY <2>1, <2>3, <4>3, FvIndexIsNat, QueryOfNames
    <3> QED
      BY <3>1, <3>2 DEF FitInv, RetrievedWhenFits, Fits
  <2> QED
    BY <2>2, <2>3
<1>4. CASE Answer
  <2>1. /\ stage = "query" /\ server = "up" /\ stage' \in {"query", "reply"}
        /\ server' # "off" /\ UNCHANGED <<lines, loaded, ad, query, got>>
    BY <1>4 DEF Answer
  <2>2. CASE Fits
    <3>1. Dimension(loaded) = ClientDim /\ ExpansionDefined(ClientDim) /\ ad < loaded
      BY <2>2 DEF Fits
    <3>2. QueryNames(query, FvIndex(ad))
      BY <2>1, <2>2 DEF FitInv
    <3>3. stage' = "reply" /\ reply' = Selected(ClientDim)
      <4>1. CeilDiv(ClientDim, Degree) \in Nat
        BY ClientHasCtxts
      <4> QED
        BY <1>4, <3>1, <4>1 DEF Answer
    <3>4. /\ query.ctxt \in 0 .. CeilDiv(ClientDim, Degree) - 1
          /\ query.at < Total(ClientDim, query.ctxt)
      <4>1. FvIndex(ad) < ClientDim
        BY <1>0, <3>1, FittingIndex, FvIndexIsNat, RetrievalAssumption
      <4>2. Degree * query.ctxt + query.at < ClientDim
        BY <3>2, <4>1 DEF QueryNames
      <4> QED
        BY <3>2, <4>2, PlaceBelowTotal DEF QueryNames, ClientCtxts
    <3>5. reply' = [ptxt |-> Degree * query.ctxt + query.at, clean |-> TRUE]
      <4>1. (query.log = Log(Total(ClientDim, query.ctxt))) = TRUE
        BY <3>2 DEF QueryNames
      <4> QED
        BY <3>3, <3>4, <4>1 DEF Selected
    <3>6. reply'.clean /\ reply'.ptxt = FvIndex(ad)
      BY <3>2, <3>5 DEF QueryNames
    <3> QED
      BY <2>1, <3>3, <3>6 DEF FitInv, RetrievedWhenFits, FvIndex
  <2>3. CASE ~ Fits
    BY <2>1, <2>3 DEF FitInv, RetrievedWhenFits, Fits
  <2> QED
    BY <2>2, <2>3
<1>5. CASE Decode
  <2>1. server # "off" /\ stage' = "done" /\ UNCHANGED <<lines, server, loaded, ad>>
    BY <1>5 DEF Decode, FitInv
  <2>2. ASSUME Fits PROVE got' = ad
    <3>1. reply.clean /\ reply.ptxt = FvIndex(ad)
      BY <1>5, <2>2 DEF Decode, FitInv
    <3>2. loaded \in Nat \ {0} /\ ad \in 0 .. loaded - 1
      BY <1>0, <2>2 DEF Fits
    <3> QED
      BY <1>5, <3>1, <3>2, LineHasPlace DEF Decode
  <2> QED
    BY <2>1, <2>2 DEF FitInv, RetrievedWhenFits, Fits
<1>6. CASE UNCHANGED vars
  BY <1>6 DEF vars, FitInv, RetrievedWhenFits, Fits, QueryNames
<1> QED
  BY <1>1, <1>2, <1>3, <1>4, <1>5, <1>6 DEF Next

\* When the literal of pir_client.cpp:39 is the dimension the server computed
\* from the file and the ad is in the file, the ad the user sees under a number
\* is the ad of that number, for every degree, size of an ad and length of the
\* file.
THEOREM FittingAdIsRetrieved == Spec => []RetrievedWhenFits
<1>1. Init => FitInv
  BY DEF Init, FitInv, RetrievedWhenFits
<1>2. FitInv => RetrievedWhenFits
  BY DEF FitInv
<1> QED
  BY <1>1, <1>2, FitStep, RetrievalTypeCorrect, PTL DEF Spec

=============================================================================
