---------------------------- MODULE PirRetrieval ----------------------------
(***************************************************************************)
(* The path of an ad from the line of ads.csv it stands on to the user who *)
(* asks for its number: the layout of the database (gen_pir_params,        *)
(* get_dimensions and PIRServer::set_database), the query                  *)
(* (PIRClient::generate_serialized_query), the reply                       *)
(* (PIRServer::generate_reply) and its decoding, for the one dimension     *)
(* (d = 1) main_server.cpp uses.                                           *)
(*                                                                         *)
(* The two sides do not agree on the size of the dimension: the server     *)
(* computes it from the file, the client has it as a literal.              *)
(*                                                                         *)
(* expand_query is taken for what PirExpand shows of it, and the bytes of  *)
(* an ad for the number of its line, which PirCodec justifies.             *)
(***************************************************************************)
EXTENDS Integers

CONSTANTS
    Degree,        \* poly_modulus_degree
    Logt,          \* usable bits of a coefficient
    EleSize,       \* bytes of an ad
    AdsPerRun,     \* lines create_ads.py appends to ads.csv
    TtlAds,        \* TTL_NUMBER_ADS: the client asks for numbers below it
    Numbers,       \* those numbers, or the ones the instance asks for
    ClientDim,     \* the client's local_nvec
    MaxRuns        \* bound on the runs of create_ads.py

CeilDiv(x, y) == (x + y - 1) \div y

CoefficientsPerElement == CeilDiv(8 * EleSize, Logt)

ASSUME RetrievalAssumption ==
    /\ Degree \in Nat \ {0, 1}
    /\ Logt \in Nat \ {0}
    /\ EleSize \in Nat \ {0}
    /\ CoefficientsPerElement <= Degree      \* assert(ele_per_ptxt > 0)
    /\ AdsPerRun \in Nat \ {0}
    /\ TtlAds \in Nat \ {0}
    /\ Numbers \subseteq 0 .. TtlAds - 1
    /\ ClientDim \in Nat \ {0}
    /\ ClientDim % Degree # 0
    /\ MaxRuns \in Nat

VARIABLES
    lines,      \* lines of ads.csv
    server,     \* whether the server runs
    loaded,     \* number_of_items of the server that runs
    stage,      \* of the client's request
    ad,         \* adRequested
    query,      \* the ciphertext of the query that is not zero
    reply,      \* the plaintext of the database replied, and whether clean
    got         \* line of the ad decoded from the reply

vars == <<lines, server, loaded, stage, ad, query, reply, got>>

-----------------------------------------------------------------------------
(* The layout of the database.                                             *)

ElementsPerPtxt == Degree \div CoefficientsPerElement

PlaintextsPerDb(items) == CeilDiv(items, ElementsPerPtxt)

\* get_dimensions for d = 1: at least 2, and one more than needed whenever
\* that is not already more.
Dimension(items) ==
    LET plaintexts == PlaintextsPerDb(items) IN
        IF plaintexts < 2 THEN 2 ELSE plaintexts + 1

NoLine == -1

\* The line whose ad is at this place of the database.  What pads the last
\* plaintext, and the plaintexts added to fill the dimension, are no ad.
LineAt(items, ptxt, offset) ==
    LET line == ptxt * ElementsPerPtxt + offset IN
        IF offset < ElementsPerPtxt /\ line < items THEN line ELSE NoLine

FvIndex(element) == element \div ElementsPerPtxt

\* Faulty variant: the offset taken modulo the coefficients of an ad.
FvOffsetOfCoefficients(element) == element % CoefficientsPerElement

FvOffset(element) == element % ElementsPerPtxt

-----------------------------------------------------------------------------
(* The query and its expansion.                                            *)

\* ceil(log2(x))
Log(x) == CHOOSE k \in 0 .. x : 2^k >= x /\ (k > 0 => 2^(k - 1) < x)

\* Plaintexts that ciphertext j of the query of a dimension stands for.
Total(dim, j) ==
    IF j = CeilDiv(dim, Degree) - 1 THEN dim % Degree ELSE Degree

\* Ciphertexts of the client's query, and those among them it puts a
\* coefficient in.
ClientCtxts == 0 .. CeilDiv(ClientDim, Degree) - 1

Covers(j, index) == Degree * j <= index /\ index <= Degree * (j + 1)

\* Faulty variant: a polynomial with one coefficient more.
ThrowsNever(index) == FALSE /\ Covers(0, index)

\* The upper bound of Covers is off by one: coefficient "Degree" does not exist.
Throws(index) == \E j \in ClientCtxts : Covers(j, index) /\ index - Degree * j = Degree

NoQuery == [ctxt |-> -1, at |-> 0, log |-> 0]

\* Faulty variant: the factor is the one for a full ciphertext.
QueryOfFullCiphertext(index) ==
    IF \E j \in ClientCtxts : Covers(j, index)
    THEN LET j == CHOOSE j \in ClientCtxts : Covers(j, index) IN
             [ctxt |-> j, at |-> index - Degree * j, log |-> Log(Degree)]
    ELSE NoQuery

\* A monomial divided by the power of 2 that expansion will multiply it by, if
\* it expands as many as the client thinks; zero everywhere when no ciphertext
\* covers the index.
QueryOf(index) ==
    IF \E j \in ClientCtxts : Covers(j, index)
    THEN LET j == CHOOSE j \in ClientCtxts : Covers(j, index) IN
             [ctxt |-> j, at |-> index - Degree * j, log |-> Log(Total(ClientDim, j))]
    ELSE NoQuery

-----------------------------------------------------------------------------
NoReply == [ptxt |-> -1, clean |-> FALSE]

Logs == {Log(x) : x \in 0 .. Degree}

TypeOK ==
    /\ lines \in Nat
    /\ server \in {"off", "up", "down"}
    /\ loaded \in Nat
    /\ stage \in {"idle", "query", "reply", "done", "threw"}
    /\ ad \in 0 .. TtlAds - 1
    /\ query \in [ctxt : {-1} \cup ClientCtxts, at : 0 .. Degree - 1, log : {0} \cup Logs]
    /\ reply \in {NoReply} \cup [ptxt : Nat, clean : BOOLEAN]
    /\ got \in {NoLine} \cup Nat

Init ==
    /\ lines = 0
    /\ server = "off"
    /\ loaded = 0
    /\ stage = "idle"
    /\ ad = 0
    /\ query = NoQuery
    /\ reply = NoReply
    /\ got = NoLine

\* create_ads.py opens ads.csv to append.
CreateAds ==
    /\ lines + AdsPerRun <= MaxRuns * AdsPerRun
    /\ lines' = lines + AdsPerRun
    /\ UNCHANGED <<server, loaded, stage, ad, query, reply, got>>

\* main reads the file and builds the database; get_dimensions asserts that
\* there is something in it.
StartServer ==
    /\ server = "off"
    /\ loaded' = lines
    /\ server' = IF PlaintextsPerDb(lines) > 0 THEN "up" ELSE "down"
    /\ UNCHANGED <<lines, stage, ad, query, reply, got>>

\* updateAdSetServer up to the query sent.  generate_query, whose result is not
\* used, is given the ad number for an index and may throw as well.
Request(number) ==
    /\ server = "up"
    /\ stage \in {"idle", "done"}
    /\ ad' = number
    /\ IF Throws(number) \/ Throws(FvIndex(number))
       THEN stage' = "threw" /\ UNCHANGED query
       ELSE stage' = "query" /\ query' = QueryOf(FvIndex(number))
    /\ UNCHANGED <<lines, server, loaded, reply, got>>

\* What the expansion of the query selects: the plaintext asked for, multiplied
\* by the quotient of the two powers of 2, and clean when that is 1.
Selected(dim) ==
    IF query.ctxt \in 0 .. CeilDiv(dim, Degree) - 1 /\ query.at < Total(dim, query.ctxt)
    THEN [ptxt  |-> Degree * query.ctxt + query.at,
          clean |-> query.log = Log(Total(dim, query.ctxt))]
    ELSE NoReply

\* An expansion to 0 or 1 ciphertexts has no last round: log2(0), or a loop
\* that passes the end of galois_elts.
ExpansionDefined(dim) == dim % Degree \notin {0, 1}

\* deserialize_query needs as many ciphertexts as the server's dimension does,
\* and throws when there are fewer; more are not read.
Answer ==
    /\ server = "up"
    /\ stage = "query"
    /\ LET dim == Dimension(loaded) IN
           \/ /\ CeilDiv(dim, Degree) <= CeilDiv(ClientDim, Degree)
              /\ \/ ExpansionDefined(dim) /\ reply' = Selected(dim)
                 \/ ~ ExpansionDefined(dim) /\ reply' = NoReply
              /\ stage' = "reply"
              /\ UNCHANGED server
           \/ /\ \/ CeilDiv(dim, Degree) > CeilDiv(ClientDim, Degree)
                 \/ ~ ExpansionDefined(dim)
              /\ server' = "down"
              /\ UNCHANGED <<reply, stage>>
    /\ UNCHANGED <<lines, loaded, ad, query, got>>

\* decode_reply and extract_bytes: a plaintext multiplied by anything but 1
\* gives other bytes.
Decode ==
    /\ stage = "reply"
    /\ got' = IF reply.clean
              THEN LineAt(loaded, reply.ptxt, FvOffset(ad))
              ELSE NoLine
    /\ stage' = "done"
    /\ UNCHANGED <<lines, server, loaded, ad, query, reply>>

Next ==
    \/ CreateAds
    \/ StartServer
    \/ \E number \in Numbers : Request(number)
    \/ Answer
    \/ Decode

Spec == Init /\ [][Next]_vars

-----------------------------------------------------------------------------
\* Every line of the file has its place among the plaintexts of the dimension,
\* and no two the same: the asserts of pir.cpp:33 and pir_server.cpp:59.
EveryLineHasItsPlace ==
    server = "up" =>
        \A line \in 0 .. loaded - 1 :
            /\ FvIndex(line) < Dimension(loaded)
            /\ LineAt(loaded, FvIndex(line), FvOffset(line)) = line

\* The client's literal is the dimension of the database, and the ad asked for
\* is in it.
Fits ==
    /\ Dimension(loaded) = ClientDim
    /\ ExpansionDefined(ClientDim)
    /\ ad < loaded

\* When they fit, the ad the user sees under a number is the ad of that number,
\* wherever the plaintexts, the ciphertexts of the query and the padding have
\* their bounds.
RetrievedWhenFits == stage = "done" /\ Fits => got = ad

\* However far the client's literal is from the server's dimension, a request
\* may be lost or its bytes be spoilt, but the user never sees another ad.
NeverAnotherAd == stage = "done" => got \in {ad, NoLine}

=============================================================================
