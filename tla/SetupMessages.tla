---------------------------- MODULE SetupMessages ----------------------------
(***************************************************************************)
(* What the two messages of the set-up hold: the parameters, laid out and  *)
(* cut by hand on both sides, and the first ads with their numbers as      *)
(* text.  When they are sent, and what else is, is module AdSession; here  *)
(* the read of either may bring any part of it.                            *)
(***************************************************************************)
EXTENDS Integers, Sequences

CONSTANTS
    Word,          \* bytes of an unsigned long
    Base,          \* values of a byte
    EncLen,        \* bytes of the serialized encryption parameters
    PirParams,     \* the server's pir_params but for nvec, one word each
    Vectors,       \* nvec a server may have
    NumGroups,     \* the server draws one ad of each
    AdsPerGroup,
    AdSize,        \* characters the client takes for an ad
    MaxDigits,     \* MAX_DIGITS_AD_NUMBER
    Radix,         \* ten
    Files          \* the lengths of the lines an ads.csv may have

PirFields == {"ele_size", "elements_per_plaintext", "d"}
AdNumbers == 0 .. NumGroups * AdsPerGroup - 1
NoLine    == NumGroups * AdsPerGroup    \* memory that is no line of the file

ASSUME MessagesAssumption ==
    /\ Word \in Nat \ {0} /\ Base \in Nat \ {0, 1} /\ EncLen \in Nat \ {0}
    /\ PirParams \in [PirFields -> Nat \ {0}]
    /\ Vectors \subseteq Seq(Nat)
    /\ NumGroups \in Nat \ {0} /\ AdsPerGroup \in Nat \ {0} /\ AdSize \in Nat \ {0}
    /\ MaxDigits \in Nat \ {0} /\ Radix \in Nat \ {0, 1}
    /\ Files \subseteq Seq(Nat)

\* Every size fits in its word.
ASSUME WordAssumption ==
    /\ EncLen < Base ^ Word
    /\ \A f \in PirFields : PirParams[f] < Base ^ Word

\* Every number has its digits: 50000 ads, 5 digits.
ASSUME DigitsAssumption == NumGroups * AdsPerGroup <= Radix ^ MaxDigits

\* What powers are, for which the provers have no rules.
ASSUME PowersAssumption ==
    /\ Base ^ 0 = 1 /\ Radix ^ 0 = 1
    /\ \A k \in 0 .. Word - 1 : Base ^ (k + 1) = Base * Base ^ k
    /\ \A k \in 0 .. MaxDigits - 1 : Radix ^ (k + 1) = Radix * Radix ^ k

VARIABLES
    stage,       \* how far the set-up is
    nvec,        \* pir_params.nvec of the server
    lines,       \* lengths of the strings in "ads"
    sent,        \* bytes of the parameters message sent
    received,    \* bytes of it that the client's read brought
    params,      \* pir_param_object and pir_nvec_len of the client
    vecRead,     \* bytes of pir_vector_buffer that deserialize_vector read
    drawn,       \* the ads the server drew
    text,        \* ad_contents, as it was sent
    currAds      \* currAds_: the text on display under each number

vars == <<stage, nvec, lines, sent, received, params, vecRead, drawn, text,
          currAds>>

-----------------------------------------------------------------------------
(* The parameters: enc_size, the encryption parameters, PirParams (the     *)
(* words of PirFields, then the header of nvec), the size of the vector,   *)
(* the vector (its length, the size of an element, the elements), CR, LF.  *)

PirLen == 4 * Word

\* Faulty variant: the size of the vector without its two counts.
VecSizeBare(vec) == Len(vec) * Word

\* get_size_of_serialized_vector
VecSize(vec) == 2 * Word + Len(vec) * Word

\* A vector of one dimension takes 24 bytes: a byte holds its size.
ASSUME VectorAssumption == \A vec \in Vectors : VecSize(vec) < Base

\* Faulty variant: the struct is left out as well.
SentLengthNoStruct(vec) == EncLen + VecSize(vec) + 2

\* The length given to send: the fields enc_size and vec_size are not counted.
SentLength(vec) == EncLen + PirLen + VecSize(vec) + 2

\* The value of a word of value v at byte "at" when n bytes have come into a
\* buffer of zeros: the low-order bytes come first.
Received(n, at, v) ==
    LET bytes == IF n <= at THEN 0 ELSE IF n >= at + Word THEN Word ELSE n - at
    IN  v % (Base ^ bytes)

\* Where the client looks for the fields once it has read enc_size.
PirAt(encSize)     == Word + encSize
VecSizeAt(encSize) == PirAt(encSize) + PirLen
VecAt(encSize)     == VecSizeAt(encSize) + Word

EncSize(n) == Received(n, 0, EncLen)

\* What the client has of pir_params and of the size of the vector.
Parsed(n) ==
    LET at == PirAt(EncSize(n)) IN
    [ele_size               |-> Received(n, at, PirParams["ele_size"]),
     elements_per_plaintext |-> Received(n, at + Word, PirParams["elements_per_plaintext"]),
     d                      |-> Received(n, at + 2 * Word, PirParams["d"]),
     vec_size               |-> Received(n, VecSizeAt(EncSize(n)), VecSize(nvec))]

\* The words that serialize_vector writes: two counts and the elements.
Serialized(vec) == <<Len(vec), Word>> \o vec

\* The elements that deserialize_vector finds in the bytes that came.
Elements(n) ==
    LET at      == VecAt(EncSize(n))
        word(i) == Received(n, at + (i - 1) * Word, Serialized(nvec)[i])
    IN  [i \in 1 .. word(1) |-> word(i + 2)]

-----------------------------------------------------------------------------
(* The first ads as text.                                                  *)

\* A character of the text: one of an ad, or a digit.
Character == [kind : {"text", "digit"}, ad : AdNumbers \cup {NoLine}, at : Nat]

AdText(ad, length) == [i \in 1 .. length |-> [kind |-> "text", ad |-> ad, at |-> i]]

\* A line that the file does not have is whatever the memory behind holds.
AdLength(ad, garbage) == IF ad < Len(lines) THEN lines[ad + 1] ELSE garbage
AdAt(ad, garbage) ==
    AdText(IF ad < Len(lines) THEN ad ELSE NoLine, AdLength(ad, garbage))

DigitsOf(ad, width) ==
    [i \in 1 .. width |-> [kind |-> "digit", ad |-> NoLine,
                           at |-> (ad \div Radix ^ (width - i)) % Radix]]

\* The digits of to_string(ad).
Width(ad) == CHOOSE w \in 1 .. ad + 1 : /\ ad < Radix ^ w
                                        /\ \A v \in 1 .. w - 1 : ad >= Radix ^ v

\* Faulty variant: the number as to_string gives it.
NumberUnpadded(ad) == DigitsOf(ad, Width(ad))

\* Padded with zeros to MAX_DIGITS_AD_NUMBER.
Number(ad) ==
    DigitsOf(ad, IF Width(ad) < MaxDigits THEN MaxDigits ELSE Width(ad))

\* The strings s[1], s[2], ... one after the other.
Joined(s) ==
    LET upTo[i \in 0 .. Len(s)] == IF i = 0 THEN <<>> ELSE upTo[i - 1] \o s[i]
    IN  upTo[Len(s)]

\* atoi: the digits up to the first character that is none.
Atoi(s) ==
    LET digits == CHOOSE k \in 0 .. Len(s) :
                      /\ \A i \in 1 .. k : s[i].kind = "digit"
                      /\ k < Len(s) => s[k + 1].kind # "digit"
        value[i \in 0 .. digits] ==
            IF i = 0 THEN 0 ELSE value[i - 1] * Radix + s[i].at
    IN  value[digits]

\* The client's buffer once n characters of the text are read into it.
Buffer(n) ==
    [i \in 1 .. (AdSize + MaxDigits) * NumGroups |->
        IF i <= n THEN text[i] ELSE [kind |-> "text", ad |-> NoLine, at |-> 0]]

\* Faulty variant: the character after the ad is taken as well.
AdCutOneMore(s, i) == SubSeq(s, (i - 1) * AdSize + 1, i * AdSize + 1)

\* The i-th ad and the i-th number, cut at fixed places.
AdCut(s, i) == SubSeq(s, (i - 1) * AdSize + 1, i * AdSize)

NumberCut(s, i) ==
    LET start == NumGroups * AdSize + (i - 1) * MaxDigits
    IN  Atoi(SubSeq(s, start + 1, start + MaxDigits))

\* The ads inserted in turn into an empty map, where the first of a number stays.
Inserted(s) ==
    [number \in {NumberCut(s, i) : i \in 1 .. NumGroups} |->
        AdCut(s, CHOOSE i \in 1 .. NumGroups :
                     /\ NumberCut(s, i) = number
                     /\ \A j \in 1 .. i - 1 : NumberCut(s, j) # number)]

-----------------------------------------------------------------------------
NoParams == [ele_size |-> 0, elements_per_plaintext |-> 0, d |-> 0, vec_size |-> 0]

Stages == {"connect", "params", "keys", "ads", "prompt", "query",
           "badParams", "badAds", "badQuery", "serverDown"}

TypeOK ==
    /\ stage \in Stages
    /\ nvec \in Vectors
    /\ lines \in Files
    /\ sent \in {0, SentLength(nvec)}
    /\ received \in 0 .. sent
    /\ params \in [DOMAIN NoParams -> Nat]
    /\ vecRead \in Nat
    /\ drawn \in Seq(AdNumbers)
    /\ text \in Seq(Character)
    /\ \A number \in DOMAIN currAds : number \in Nat /\ Len(currAds[number]) = AdSize

Init ==
    /\ stage = "connect"
    /\ nvec \in Vectors
    /\ lines \in Files
    /\ sent = 0
    /\ received = 0
    /\ params = NoParams
    /\ vecRead = 0
    /\ drawn = <<>>
    /\ text = <<>>
    /\ currAds = << >>

ServerSendsParams ==
    /\ stage = "connect"
    /\ sent' = SentLength(nvec)
    /\ stage' = "params"
    /\ UNCHANGED <<nvec, lines, received, params, vecRead, drawn, text, currAds>>

\* The vector is read out of vec_size bytes.  When fewer came than its two
\* counts take, what is read instead is undefined, and may end the program.  The
\* elements go to a vector that deserialize_vector has by value, and no further.
ClientReadsVector(n) ==
    vecRead' = 2 * Word + IF params'.vec_size < 2 * Word
                          THEN 0 ELSE Len(Elements(n)) * Word

\* Encryption parameters that came cut do not load, which throws.
ClientReadParams ==
    /\ stage = "params"
    /\ \E n \in 0 .. sent :
           /\ received' = n
           /\ params' = Parsed(n)
           /\ ClientReadsVector(n)
           /\ \/ n >= Word + EncLen /\ stage' = "keys"
              \/ /\ n < Word + EncLen \/ vecRead' > params'.vec_size
                 /\ stage' = "badParams"
    /\ UNCHANGED <<nvec, lines, sent, drawn, text, currAds>>

\* One ad of each group, drawn without a look at how many lines there are.
ServerSendsAds ==
    /\ stage = "keys"
    /\ \E pick \in [1 .. NumGroups -> 0 .. AdsPerGroup - 1], garbage \in 0 .. AdSize :
           /\ drawn' = [i \in 1 .. NumGroups |-> pick[i] + (i - 1) * AdsPerGroup]
           /\ text' = Joined([i \in 1 .. NumGroups |-> AdAt(drawn'[i], garbage)])
                      \o Joined([i \in 1 .. NumGroups |-> Number(drawn'[i])])
           /\ \/ stage' = "ads"
              \/ stage' = "serverDown" /\ \E i \in 1 .. NumGroups : drawn'[i] >= Len(lines)
    /\ UNCHANGED <<nvec, lines, sent, received, params, vecRead, currAds>>

\* Faulty variant: whatever was read is taken apart.
LongEnoughAlways(n) == TRUE

LongEnough(n) == n >= (AdSize + MaxDigits) * NumGroups

ClientReadAds ==
    /\ stage = "ads"
    /\ \E n \in 0 .. Len(text) :
           IF LongEnough(n)
           THEN /\ currAds' = Inserted(Buffer(n))
                /\ stage' = "prompt"
           ELSE stage' = "badAds" /\ UNCHANGED currAds
    /\ UNCHANGED <<nvec, lines, sent, received, params, vecRead, drawn, text>>

\* The first query divides by elements_per_plaintext and fills the d-th part of
\* its result.
ClientQuery ==
    /\ stage = "prompt"
    /\ stage' = IF params.elements_per_plaintext = 0 \/ params.d = 0
                THEN "badQuery" ELSE "query"
    /\ UNCHANGED <<nvec, lines, sent, received, params, vecRead, drawn, text,
                   currAds>>

Next ==
    \/ ServerSendsParams
    \/ ClientReadParams
    \/ ServerSendsAds
    \/ ClientReadAds
    \/ ClientQuery

Spec == Init /\ [][Next]_vars

-----------------------------------------------------------------------------
\* The 16 bytes that main_server.cpp:324 does not count are made up by what the
\* client does not use: when the message comes as it was sent, the client has
\* the parameters of the server and gets as far as a query.
ShortfallHarmless ==
    stage # "connect" /\ received = sent =>
        /\ stage \notin {"badParams", "badQuery"}
        /\ \A f \in PirFields : params[f] = PirParams[f]

\* deserialize_vector (user.cpp:7) checks no bound.  It reads past the bytes that
\* were allocated for the vector (user.cpp:348) exactly when the message came
\* without a byte of their count; a message cut behind that is read within them.
VectorOverreadExactlyWhenUncounted ==
    stage \notin {"connect", "params"} =>
        (vecRead > params.vec_size <=> received <= VecSizeAt(EncLen))

LinesAre(Fits(_)) ==
    /\ Len(lines) >= NumGroups * AdsPerGroup
    /\ \A i \in 1 .. Len(lines) : Fits(lines[i])

\* No ad goes on display under the number of another, however the text was cut,
\* unless a line of the file is longer than an ad (user.cpp:484-511).
NoAdUnderAnother ==
    stage = "prompt" /\ LinesAre(LAMBDA length : length <= AdSize) =>
        \A number \in DOMAIN currAds :
            /\ number \in AdNumbers
            /\ currAds[number] = AdText(number, AdSize)

\* With a file of whole ads the first display is the ten ads drawn, and only a
\* read that comes short ends the client (main_server.cpp:381-394).
FirstAdsShown ==
    LinesAre(LAMBDA length : length = AdSize) =>
        /\ stage = "prompt" => DOMAIN currAds = {drawn[i] : i \in 1 .. NumGroups}
        /\ stage \in {"ads", "prompt"} => LongEnough(Len(text))

=============================================================================
