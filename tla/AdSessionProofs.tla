--------------------------- MODULE AdSessionProofs ---------------------------
(***************************************************************************)
(* Proofs about the conversation of AdSession.  First, whatever the        *)
(* network cuts and whoever crashes or leaves, every variable keeps its    *)
(* type; the total of the key's loop staying a natural number is the part  *)
(* of it a read that fails could break.                                    *)
(*                                                                         *)
(* Then, for any number of clients, crashes and departures, provided the   *)
(* network does not cut the connect, the parameters and the key's length:  *)
(* the key is never read past its buffer; and, if it does not cut an ACK   *)
(* either, both sides wait for each other only over a query that fills the *)
(* server's buffer.                                                        *)
(*                                                                         *)
(* Last, with no assumption on the network, the crashes or the clients,    *)
(* the conversation implements AdService.  On the way, no two clients are  *)
(* past the set-up on one server, the ad that a client files under a       *)
(* number is the ad of that number, nothing is taken for ads before the    *)
(* key is stored, and no running client is forgotten but one whose connect *)
(* came in pieces.                                                         *)
(***************************************************************************)
EXTENDS AdSession, SequenceTheorems, TLAPS

ClientPcs == {"off", "params", "ack1", "ack2", "ads", "prompt", "size", "reply", "gone"}

ServerPcs == {"accept", "connect", "galLen", "galKey", "obtain", "query",
              "ack", "spin", "down"}

-----------------------------------------------------------------------------
(* Messages and reads.                                                     *)

\* A run of units is a sequence of units of the given length.
LEMMA UnitsFacts ==
    ASSUME NEW kind \in Kinds, NEW item \in Ads \cup {NoAd}, NEW n \in Nat
    PROVE  /\ Units(kind, item, n) \in Seq(Unit)
           /\ Len(Units(kind, item, n)) = n
           /\ \A i \in 1 .. n : Units(kind, item, n)[i].kind = kind
           /\ \A i \in 1 .. n - 1 : Units(kind, item, n)[i].left # 0
<1>1. \A i \in 1 .. n : [kind |-> kind, item |-> item, left |-> n - i] \in Unit
  BY DEF Unit
<1>2. Units(kind, item, n) \in [1 .. n -> Unit]
  BY <1>1 DEF Units
<1>3. Units(kind, item, n) \in Seq(Unit) /\ Len(Units(kind, item, n)) = n
  BY <1>2, LenProperties, IsASeq
<1>4. \A i \in 1 .. n : Units(kind, item, n)[i].kind = kind
  BY DEF Units
<1>5. \A i \in 1 .. n : Units(kind, item, n)[i].left = n - i
  BY DEF Units
<1>6. \A i \in 1 .. n - 1 : i \in 1 .. n /\ n - i # 0
  OBVIOUS
<1>7. \A i \in 1 .. n - 1 : Units(kind, item, n)[i].left # 0
  BY <1>5, <1>6
<1> QED
  BY <1>3, <1>4, <1>7

\* A message is a sequence of units of its kind, of the length the instance
\* gives it.
LEMMA MsgFacts ==
    ASSUME NEW kind \in FixedKinds
    PROVE  /\ Size[kind] \in Nat \ {0}
           /\ Msg(kind) \in Seq(Unit)
           /\ Len(Msg(kind)) = Size[kind]
           /\ \A i \in 1 .. Size[kind] : Msg(kind)[i].kind = kind
           /\ \A i \in 1 .. Size[kind] - 1 : Msg(kind)[i].left # 0
<1>1. Size[kind] \in Nat \ {0}
  BY SessionAssumption
<1>2. kind \in Kinds /\ NoAd \in Ads \cup {NoAd}
  BY DEF Kinds
<1>3. PICK n \in Nat : n = Size[kind]
  BY <1>1
<1>4. /\ Units(kind, NoAd, n) \in Seq(Unit)
      /\ Len(Units(kind, NoAd, n)) = n
      /\ \A i \in 1 .. n : Units(kind, NoAd, n)[i].kind = kind
      /\ \A i \in 1 .. n - 1 : Units(kind, NoAd, n)[i].left # 0
  <2>1. Units(kind, NoAd, n) \in Seq(Unit) /\ Len(Units(kind, NoAd, n)) = n
    BY <1>2, UnitsFacts
  <2>2. \A i \in 1 .. n : Units(kind, NoAd, n)[i].kind = kind
    BY <1>2, UnitsFacts
  <2>3. \A i \in 1 .. n - 1 : Units(kind, NoAd, n)[i].left # 0
    BY <1>2, UnitsFacts
  <2> QED
    BY <2>1, <2>2, <2>3
<1>5. Msg(kind) = Units(kind, NoAd, n)
  BY <1>3 DEF Msg
<1> QED
  BY <1>1, <1>3, <1>4, <1>5

\* What a read leaves.
LEMMA RestFacts ==
    ASSUME NEW s \in Seq(Unit), NEW n \in 1 .. Len(s)
    PROVE  /\ Rest(s, n) \in Seq(Unit)
           /\ Len(Rest(s, n)) = Len(s) - n
           /\ n = Len(s) => Rest(s, n) = <<>>
<1>1. Len(s) \in Nat
  BY LenProperties
<1>2. \A i \in n + 1 .. Len(s) : s[i] \in Unit
  BY <1>1, ElementOfSeq
<1>3. Rest(s, n) \in Seq(Unit) /\ Len(Rest(s, n)) = Len(s) - n
  BY <1>1, <1>2, SubSeqProperties DEF Rest
<1>4. n = Len(s) => Rest(s, n) = <<>>
  BY <1>3, EmptySeq
<1> QED
  BY <1>3, <1>4

\* What a read takes.
LEMMA TakenFacts ==
    ASSUME NEW s \in Seq(Unit), NEW n \in 1 .. Len(s)
    PROVE  Taken(s, n) \in Seq(Unit)
<1>1. \A i \in 1 .. n : s[i] \in Unit
  BY LenProperties, ElementOfSeq
<1> QED
  BY <1>1, LenProperties, SubSeqProperties DEF Taken

\* A read returns at least one unit, and no more than its limit.
LEMMA ReadLengthsFacts ==
    ASSUME NEW s \in Seq(Unit), NEW limit, NEW n \in ReadLengths(s, limit)
    PROVE  n \in 1 .. Len(s) /\ n <= limit /\ s # <<>>
<1>1. n \in 1 .. Len(s) /\ n <= limit
  BY DEF ReadLengths
<1>2. Len(<<>>) = 0
  BY EmptySeq
<1> QED
  BY <1>1, <1>2, LenProperties

-----------------------------------------------------------------------------
(* What a step does to the streams.                                        *)

StreamTypes ==
    /\ spc \in {"accept", "connect", "galLen", "galKey", "obtain", "query",
                "ack", "spin", "down"}
    /\ conn \in Clients \cup {NoClient}
    /\ backlog \in Seq(Clients)
    /\ cpc \in [Clients -> {"off", "params", "ack1", "ack2", "ads", "prompt",
                            "size", "reply", "gone"}]
    /\ toServer \in [Clients -> Seq(Unit)]
    /\ toClient \in [Clients -> Seq(Unit)]
    /\ galLen \in Nat
    /\ totalRead \in Nat

\* A write adds to the client's own stream, or is lost.
LEMMA ClientWritesFacts ==
    ASSUME StreamTypes, NEW c \in Clients, NEW message \in Seq(Unit),
           NEW next \in ClientPcs, ClientWrites(c, message, next)
    PROVE  /\ toServer' \in [Clients -> Seq(Unit)]
           /\ cpc' \in [Clients -> ClientPcs]
           /\ cpc'[c] \in {next, "gone"}
           /\ \A d \in Clients \ {c} : cpc'[d] = cpc[d] /\ toServer'[d] = toServer[d]
           /\ c \in open => /\ toServer'[c] = toServer[c] \o message
                            /\ cpc'[c] = next
<1>1. toServer[c] \o message \in Seq(Unit)
  BY ConcatProperties DEF StreamTypes
<1> QED
  BY <1>1 DEF ClientWrites, ClientGoesTo, StreamTypes, ClientPcs

\* A read takes from the client's own stream.
LEMMA ClientTakesFacts ==
    ASSUME StreamTypes, NEW c \in Clients, NEW n \in 1 .. Len(toClient[c]),
           ClientTakes(c, n)
    PROVE  /\ toClient' \in [Clients -> Seq(Unit)]
           /\ toClient'[c] = Rest(toClient[c], n)
           /\ \A d \in Clients \ {c} : toClient'[d] = toClient[d]
<1>1. Rest(toClient[c], n) \in Seq(Unit)
  BY RestFacts DEF StreamTypes
<1> QED
  BY <1>1 DEF ClientTakes, StreamTypes

\* The bytes taken leave the other connections alone.
LEMMA ServerTakesFacts ==
    ASSUME StreamTypes, conn \in Clients, NEW n \in 1 .. Len(toServer[conn]),
           ServerTakes(n)
    PROVE  /\ toServer' \in [Clients -> Seq(Unit)]
           /\ toServer'[conn] = Rest(toServer[conn], n)
           /\ Len(toServer'[conn]) = Len(toServer[conn]) - n
           /\ \A d \in Clients \ {conn} : toServer'[d] = toServer[d]
<1>1. /\ Rest(toServer[conn], n) \in Seq(Unit)
      /\ Len(Rest(toServer[conn], n)) = Len(toServer[conn]) - n
  BY RestFacts DEF StreamTypes
<1> QED
  BY <1>1 DEF ServerTakes, StreamTypes

\* A send either appends to the connection served or ends the process.
LEMMA ServerSendsFacts ==
    ASSUME StreamTypes, conn \in Clients, NEW message \in Seq(Unit), NEW next,
           ServerSends(message, next)
    PROVE  \/ Dies
           \/ /\ spc' = next
              /\ UNCHANGED <<conn, backlog, open>>
              /\ toClient' \in [Clients -> Seq(Unit)]
              /\ toClient'[conn] = toClient[conn] \o message
              /\ \A d \in Clients \ {conn} : toClient'[d] = toClient[d]
<1>1. toClient[conn] \o message \in Seq(Unit)
  BY ConcatProperties DEF StreamTypes
<1> QED
  BY <1>1 DEF ServerSends, StreamTypes

-----------------------------------------------------------------------------
(* Type correctness.                                                       *)

\* The server's control state, with the streams it writes to: a server that
\* reads has a connection.
ControlTypes ==
    /\ spc \in ServerPcs
    /\ conn \in Clients \cup {NoClient}
    /\ spc \notin {"accept", "spin", "down"} => conn \in Clients
    /\ backlog \in Seq(Clients)
    /\ open \subseteq Clients
    /\ toClient \in [Clients -> Seq(Unit)]

MemoryTypes ==
    /\ galLen \in Nat
    /\ totalRead \in Nat
    /\ got \in Seq(Unit)
    /\ key0 \in Clients \cup {NoClient}
    /\ answer \in Ads \cup {NoAd}
    /\ keyed \subseteq Clients

ClientTypes ==
    /\ cpc \in [Clients -> ClientPcs]
    /\ cbuf \in [Clients -> BOOLEAN]
    /\ asked \in [Clients -> Ads \cup {NoAd}]
    /\ stored \in [Clients -> [number : Ads \cup {NoAd}, ad : Ads \cup {NoAd}]]
    /\ sent \in [Clients -> 0 .. MaxQueries]

TypeInv ==
    /\ ControlTypes
    /\ MemoryTypes
    /\ ClientTypes
    /\ toServer \in [Clients -> Seq(Unit)]
    /\ restarts \in 0 .. MaxRestarts

\* The invariant gives the types AdSession states, and those the facts on
\* streams need.
LEMMA TypeInvTypes == TypeInv => TypeOK /\ StreamTypes
  BY DEF TypeInv, ControlTypes, MemoryTypes, ClientTypes, TypeOK, StreamTypes,
         ClientPcs, ServerPcs

\* Nothing is on the way at the start.
LEMMA SessionTypeInit == Init => TypeInv
<1> SUFFICES ASSUME Init PROVE TypeInv
  OBVIOUS
<1>1. <<>> \in Seq(Clients) /\ <<>> \in Seq(Unit)
  BY EmptySeq
<1>2. ControlTypes /\ toServer \in [Clients -> Seq(Unit)]
  BY <1>1 DEF Init, ControlTypes, ServerPcs
<1>3. MemoryTypes
  BY <1>1 DEF Init, MemoryTypes
<1>4. ClientTypes
  BY SessionAssumption DEF Init, ClientTypes, ClientPcs
<1>5. restarts \in 0 .. MaxRestarts
  BY SessionAssumption DEF Init
<1> QED
  BY <1>2, <1>3, <1>4, <1>5 DEF TypeInv

\* A read by a client, of any limit, keeps the type of the stream.
LEMMA ClientReadTypes ==
    ASSUME TypeInv, NEW c \in Clients, NEW limit,
           NEW n \in ReadLengths(toClient[c], limit), ClientTakes(c, n)
    PROVE  /\ toClient' \in [Clients -> Seq(Unit)]
           /\ n \in 1 .. Len(toClient[c])
           /\ toClient[c][1].item \in Ads \cup {NoAd}
<1>1. toClient[c] \in Seq(Unit) /\ StreamTypes
  BY TypeInvTypes DEF StreamTypes
<1>2. n \in 1 .. Len(toClient[c]) /\ Len(toClient[c]) \in Nat
  BY <1>1, ReadLengthsFacts, LenProperties
<1>3. toClient[c][1] \in Unit
  BY <1>1, <1>2, ElementOfSeq
<1> QED
  BY <1>1, <1>2, <1>3, ClientTakesFacts DEF Unit

\* A write of a client, or its going on without one.
LEMMA ClientGoesTypes ==
    ASSUME TypeInv, NEW c \in Clients,
           \/ \E next \in ClientPcs : ClientGoesTo(c, next)
           \/ \E next \in ClientPcs, kind \in FixedKinds : ClientWrites(c, Msg(kind), next)
           \/ \E next \in ClientPcs, ad \in Ads, n \in Nat :
                  ClientWrites(c, Units("query", ad, n), next)
    PROVE  cpc' \in [Clients -> ClientPcs] /\ toServer' \in [Clients -> Seq(Unit)]
<1>1. StreamTypes
  BY TypeInvTypes
<1>2. CASE \E next \in ClientPcs : ClientGoesTo(c, next)
  BY <1>2 DEF ClientGoesTo, TypeInv, ClientTypes
<1>3. CASE \E next \in ClientPcs, kind \in FixedKinds : ClientWrites(c, Msg(kind), next)
  BY <1>1, <1>3, MsgFacts, ClientWritesFacts
<1>4. CASE \E next \in ClientPcs, ad \in Ads, n \in Nat :
               ClientWrites(c, Units("query", ad, n), next)
  BY <1>1, <1>4, UnitsFacts, ClientWritesFacts DEF Kinds
<1> QED
  BY <1>2, <1>3, <1>4

\* The steps of the clients.
LEMMA ClientTypeStep ==
    ASSUME TypeInv, NEW c \in Clients,
           ClientStep(c) \/ ClientConnect(c) \/ Click(c) \/ Leave(c)
    PROVE  TypeInv'
<1> USE DEF ClientPcs, FixedKinds
<1>1. ASSUME UNCHANGED <<control, memory, keyed, restarts>>,
             toClient' \in [Clients -> Seq(Unit)],
             toServer' \in [Clients -> Seq(Unit)],
             ClientTypes'
      PROVE  TypeInv'
  BY <1>1 DEF TypeInv, ControlTypes, MemoryTypes, control, memory
<1>2. CASE ClientReadParams(c)
  <2>1. toClient' \in [Clients -> Seq(Unit)]
    BY <1>2, ClientReadTypes DEF ClientReadParams, TypeInv, ControlTypes
  <2>2. cpc' \in [Clients -> ClientPcs] /\ toServer' \in [Clients -> Seq(Unit)]
    BY <1>2, ClientGoesTypes DEF ClientReadParams
  <2> QED
    BY <1>1, <1>2, <2>1, <2>2 DEF ClientReadParams, TypeInv, ClientTypes
<1>3. CASE ClientReadAck1(c) \/ ClientReadAck2(c)
  <2>1. toClient' \in [Clients -> Seq(Unit)]
    BY <1>3, ClientReadTypes DEF ClientReadAck1, ClientReadAck2, ReadsAck, TypeInv, ControlTypes
  <2>2. cpc' \in [Clients -> ClientPcs] /\ toServer' \in [Clients -> Seq(Unit)]
    BY <1>3, ClientGoesTypes DEF ClientReadAck1, ClientReadAck2
  <2>3. cbuf' \in [Clients -> BOOLEAN]
    BY <1>3 DEF ClientReadAck1, ClientReadAck2, ReadsAck, TypeInv, ClientTypes
  <2> QED
    BY <1>1, <1>3, <2>1, <2>2, <2>3
    DEF ClientReadAck1, ClientReadAck2, TypeInv, ClientTypes
<1>4. CASE ClientReadAds(c)
  <2>1. toClient' \in [Clients -> Seq(Unit)]
    BY <1>4, ClientReadTypes DEF ClientReadAds, TypeInv, ControlTypes
  <2>2. cpc' \in [Clients -> ClientPcs] /\ toServer' \in [Clients -> Seq(Unit)]
    BY <1>4, ClientGoesTypes DEF ClientReadAds
  <2> QED
    BY <1>1, <1>4, <2>1, <2>2 DEF ClientReadAds, TypeInv, ClientTypes
<1>5. CASE ClientReadSize(c)
  <2>1. toClient' \in [Clients -> Seq(Unit)]
    BY <1>5, ClientReadTypes DEF ClientReadSize, TypeInv, ControlTypes
  <2>2. cpc' \in [Clients -> ClientPcs] /\ toServer' \in [Clients -> Seq(Unit)]
    BY <1>5, ClientGoesTypes DEF ClientReadSize
  <2> QED
    BY <1>1, <1>5, <2>1, <2>2 DEF ClientReadSize, TypeInv, ClientTypes
<1>6. CASE ClientReadReply(c)
  <2>1. toClient' \in [Clients -> Seq(Unit)]
    BY <1>6, ClientReadTypes DEF ClientReadReply, TypeInv, ControlTypes
  <2>2. cpc' \in [Clients -> ClientPcs] /\ toServer' \in [Clients -> Seq(Unit)]
    BY <1>6, ClientGoesTypes DEF ClientReadReply
  <2>3. stored' \in [Clients -> [number : Ads \cup {NoAd}, ad : Ads \cup {NoAd}]]
    <3>1. asked[c] \in Ads \cup {NoAd}
      BY DEF TypeInv, ClientTypes
    <3>2. \A n \in ReadLengths(toClient[c], Size["reply"]) :
              ClientTakes(c, n) => toClient[c][1].item \in Ads \cup {NoAd}
      BY ClientReadTypes
    <3> DEFINE Numbers == Ads \cup {NoAd}
               Entry(ad) == [number |-> asked[c], ad |-> ad]
    <3>3. \/ UNCHANGED stored
          \/ \E ad \in Numbers : stored' = [stored EXCEPT ![c] = Entry(ad)]
      BY <1>6, <3>2 DEF ClientReadReply
    <3>4. \A ad \in Numbers : Entry(ad) \in [number : Numbers, ad : Numbers]
      BY <3>1
    <3>5. stored \in [Clients -> [number : Numbers, ad : Numbers]]
      BY DEF TypeInv, ClientTypes
    <3> HIDE DEF Numbers, Entry
    <3>6. stored' \in [Clients -> [number : Numbers, ad : Numbers]]
      BY <3>3, <3>4, <3>5
    <3> QED
      BY <3>6 DEF Numbers
  <2> QED
    BY <1>1, <1>6, <2>1, <2>2, <2>3 DEF ClientReadReply, TypeInv, ClientTypes
<1>7. CASE ClientConnect(c)
  <2>1. /\ cpc' \in [Clients -> ClientPcs]
        /\ backlog' \in Seq(Clients)
        /\ open' \subseteq Clients
        /\ toServer' \in [Clients -> Seq(Unit)]
    <3>1. CASE spc = "down"
      BY <1>7, <3>1 DEF ClientConnect, ClientGoesTo, TypeInv, ControlTypes, ClientTypes
    <3>2. CASE spc # "down"
      <4>1. /\ backlog' = Append(backlog, c)
            /\ open' = open \cup {c}
            /\ toServer' = [toServer EXCEPT ![c] = Msg("connect")]
            /\ cpc' = [cpc EXCEPT ![c] = "params"]
        BY <1>7, <3>2 DEF ClientConnect
      <4>2. Msg("connect") \in Seq(Unit) /\ Append(backlog, c) \in Seq(Clients)
        BY MsgFacts, AppendProperties DEF TypeInv, ControlTypes
      <4> QED
        BY <4>1, <4>2 DEF TypeInv, ControlTypes, ClientTypes
    <3> QED
      BY <3>1, <3>2
  <2> QED
    BY <1>7, <2>1 DEF ClientConnect, memory, TypeInv, ControlTypes, MemoryTypes, ClientTypes
<1>8. CASE Click(c)
  <2>1. cpc' \in [Clients -> ClientPcs] /\ toServer' \in [Clients -> Seq(Unit)]
    BY <1>8, ClientGoesTypes, SessionAssumption DEF Click, WritesQuery, QueryFails
  <2>2. asked' \in [Clients -> Ads \cup {NoAd}] /\ sent' \in [Clients -> 0 .. MaxQueries]
    BY <1>8, SessionAssumption DEF Click, TypeInv, ClientTypes
  <2>3. toClient' \in [Clients -> Seq(Unit)]
    BY <1>8 DEF Click, TypeInv, ControlTypes
  <2> QED
    BY <1>1, <1>8, <2>1, <2>2, <2>3 DEF Click, TypeInv, ClientTypes
<1>9. CASE Leave(c)
  <2>1. cpc' \in [Clients -> ClientPcs] /\ toServer' \in [Clients -> Seq(Unit)]
    BY <1>9, ClientGoesTypes DEF Leave
  <2>2. toClient' \in [Clients -> Seq(Unit)]
    BY <1>9 DEF Leave, TypeInv, ControlTypes
  <2> QED
    BY <1>1, <1>9, <2>1, <2>2 DEF Leave, TypeInv, ClientTypes
<1> QED
  BY <1>2, <1>3, <1>4, <1>5, <1>6, <1>7, <1>8, <1>9 DEF ClientStep

\* However a step of a server with a connection ends, its control state and
\* what it sent keep their types.
LEMMA ServerGoesTypes ==
    ASSUME TypeInv, conn \in Clients,
           \/ \E next \in ServerPcs : GoesTo(next)
           \/ \E next \in ServerPcs, kind \in FixedKinds : ServerSends(Msg(kind), next)
           \/ \E next \in ServerPcs, item \in Ads \cup {NoAd}, n \in Nat :
                  ServerSends(Units("reply", item, n), next)
           \/ WrongRequest
           \/ Dies
    PROVE  ControlTypes'
<1>1. StreamTypes
  BY TypeInvTypes
<1>2. CASE Dies
  BY <1>2, EmptySeq DEF Dies, TypeInv, ControlTypes, ServerPcs
<1>3. CASE WrongRequest
  BY <1>3 DEF WrongRequest, TypeInv, ControlTypes, ServerPcs
<1>4. CASE \E next \in ServerPcs : GoesTo(next)
  BY <1>4 DEF GoesTo, TypeInv, ControlTypes
<1>5. ASSUME NEW next \in ServerPcs, NEW message \in Seq(Unit),
             ServerSends(message, next), ~ Dies
      PROVE  ControlTypes'
  BY <1>1, <1>5, ServerSendsFacts DEF TypeInv, ControlTypes
<1>6. CASE \E next \in ServerPcs, kind \in FixedKinds : ServerSends(Msg(kind), next)
  BY <1>2, <1>5, <1>6, MsgFacts
<1>7. CASE \E next \in ServerPcs, item \in Ads \cup {NoAd}, n \in Nat :
               ServerSends(Units("reply", item, n), next)
  <2>1. "reply" \in Kinds
    BY DEF Kinds, FixedKinds
  <2> QED
    BY <1>2, <1>5, <1>7, <2>1, UnitsFacts
<1> QED
  BY <1>2, <1>3, <1>4, <1>6, <1>7

\* What a read of the server takes and leaves.
LEMMA ServerReadTypes ==
    ASSUME TypeInv, conn \in Clients, NEW limit,
           NEW n \in ReadLengths(toServer[conn], limit), ServerTakes(n)
    PROVE  /\ toServer' \in [Clients -> Seq(Unit)]
           /\ Taken(toServer[conn], n) \in Seq(Unit)
           /\ n \in Nat
<1>1. StreamTypes /\ toServer[conn] \in Seq(Unit)
  BY TypeInvTypes DEF StreamTypes
<1>2. n \in 1 .. Len(toServer[conn]) /\ n \in Nat
  BY <1>1, ReadLengthsFacts
<1> QED
  BY <1>1, <1>2, ServerTakesFacts, TakenFacts

\* The reply to a query is an ad: the first unit gathered names it.
LEMMA AnswersTypes ==
    ASSUME TypeInv, conn \in Clients, NEW bytes \in Seq(Unit), Answers(bytes)
    PROVE  ControlTypes' /\ answer' \in Ads \cup {NoAd}
<1>1. answer' \in Ads \cup {NoAd}
  <2>1. CASE ~ Loads(bytes)
    BY <2>1 DEF Answers, TypeInv, MemoryTypes
  <2>2. CASE Loads(bytes)
    <3>1. PICK k \in 1 .. Len(bytes) : TRUE
      BY <2>2 DEF Loads
    <3>2. 1 \in 1 .. Len(bytes)
      BY <3>1, LenProperties
    <3>3. bytes[1] \in Unit
      BY <3>2, ElementOfSeq
    <3>4. bytes[1].item \in Ads \cup {NoAd}
      BY <3>3 DEF Unit
    <3> QED
      BY <2>2, <3>4 DEF Answers
  <2> QED
    BY <2>1, <2>2
<1>2. ControlTypes'
  BY ServerGoesTypes DEF Answers, ServerPcs, FixedKinds
<1> QED
  BY <1>1, <1>2

\* The steps of the server, its crash and its restart included.
LEMMA ServerTypeStep ==
    ASSUME TypeInv, ServerStep \/ ServerCrash \/ ServerRestart
    PROVE  TypeInv'
<1> USE DEF ServerPcs, FixedKinds
<1>1. /\ galLen \in Nat /\ totalRead \in Nat /\ got \in Seq(Unit)
      /\ toServer \in [Clients -> Seq(Unit)]
      /\ <<>> \in Seq(Unit)
      /\ Size["galKey"] \in Nat
  BY EmptySeq, SessionAssumption DEF TypeInv, MemoryTypes
<1>2. ASSUME UNCHANGED <<clientVars, restarts>>, ControlTypes', MemoryTypes',
             toServer' \in [Clients -> Seq(Unit)]
      PROVE  TypeInv'
  BY <1>2 DEF TypeInv, ClientTypes, clientVars
<1>3. CASE ServerAccept
  <2>1. conn' \in Clients /\ backlog' \in Seq(Clients)
    BY <1>3, HeadTailProperties, ElementOfSeq, EmptySeq, LenProperties
    DEF ServerAccept, TypeInv, ControlTypes
  <2>2. ControlTypes'
    BY <1>3, <2>1 DEF ServerAccept, TypeInv, ControlTypes
  <2> QED
    BY <1>2, <1>3, <2>2 DEF ServerAccept, memory, TypeInv, MemoryTypes
<1>4. CASE ServerReadConnect
  <2>1. conn \in Clients
    BY <1>4 DEF ServerReadConnect, TypeInv, ControlTypes
  <2>2. ControlTypes'
    BY <1>4, <2>1, ServerGoesTypes DEF ServerReadConnect
  <2>3. toServer' \in [Clients -> Seq(Unit)]
    BY <1>1, <1>4, <2>1, ServerReadTypes DEF ServerReadConnect
  <2> QED
    BY <1>2, <1>4, <2>2, <2>3 DEF ServerReadConnect, memory, TypeInv, MemoryTypes
<1>5. CASE ServerReadGalLen
  <2>1. conn \in Clients
    BY <1>5 DEF ServerReadGalLen, TypeInv, ControlTypes
  <2>2. ControlTypes'
    BY <1>5, <2>1, ServerGoesTypes DEF ServerReadGalLen
  <2>3. toServer' \in [Clients -> Seq(Unit)]
    BY <1>1, <1>5, <2>1, ServerReadTypes DEF ServerReadGalLen
  <2>4. galLen' \in Nat
    BY <1>1, <1>5 DEF ServerReadGalLen
  <2> QED
    BY <1>1, <1>2, <1>5, <2>2, <2>3, <2>4 DEF ServerReadGalLen, TypeInv, MemoryTypes
<1>6. CASE ServerReadGalKey
  <2>1. conn \in Clients
    BY <1>6 DEF ServerReadGalKey, TypeInv, ControlTypes
  <2>2. ControlTypes'
    BY <1>6, <2>1, ServerGoesTypes
    DEF ServerReadGalKey, KeyIncomplete, KeyComplete, KeyDamaged, KeyEmpty, KeyAtEnd
  <2>3. toServer' \in [Clients -> Seq(Unit)]
    BY <1>1, <1>6, <2>1, ServerReadTypes DEF ServerReadGalKey, KeyEmpty, KeyAtEnd
  <2>4. totalRead' \in Nat /\ got' \in Seq(Unit)
    <3>1. CASE KeyEmpty \/ KeyAtEnd
      BY <1>1, <3>1 DEF KeyEmpty, KeyAtEnd
    <3>2. ASSUME NEW n \in ReadLengths(toServer[conn], galLen), ServerTakes(n),
                 totalRead' = totalRead + n,
                 got' = got \o Taken(toServer[conn], n)
          PROVE  totalRead' \in Nat /\ got' \in Seq(Unit)
      <4>1. Taken(toServer[conn], n) \in Seq(Unit) /\ n \in Nat
        BY <2>1, <3>2, ServerReadTypes
      <4> QED
        BY <1>1, <3>2, <4>1, ConcatProperties
    <3> QED
      BY <1>6, <3>1, <3>2 DEF ServerReadGalKey
  <2>5. key0' \in Clients \cup {NoClient} /\ keyed' \subseteq Clients
    BY <1>6, <2>1
    DEF ServerReadGalKey, KeyIncomplete, KeyComplete, KeyDamaged, KeyEmpty, KeyAtEnd,
        TypeInv, MemoryTypes
  <2> QED
    BY <1>1, <1>2, <1>6, <2>2, <2>3, <2>4, <2>5 DEF ServerReadGalKey, TypeInv, MemoryTypes
<1>7. CASE ServerReadObtain
  <2>1. conn \in Clients
    BY <1>7 DEF ServerReadObtain, TypeInv, ControlTypes
  <2>2. ControlTypes'
    BY <1>7, <2>1, ServerGoesTypes DEF ServerReadObtain
  <2>3. toServer' \in [Clients -> Seq(Unit)]
    BY <1>1, <1>7, <2>1, ServerReadTypes DEF ServerReadObtain
  <2> QED
    BY <1>1, <1>2, <1>7, <2>2, <2>3 DEF ServerReadObtain, TypeInv, MemoryTypes
<1>8. CASE ServerReadQuery
  <2>1. conn \in Clients
    BY <1>8 DEF ServerReadQuery, TypeInv, ControlTypes
  <2>2. answer \in Ads \cup {NoAd}
    BY DEF TypeInv, MemoryTypes
  <2>3. /\ ControlTypes' /\ toServer' \in [Clients -> Seq(Unit)]
        /\ got' \in Seq(Unit) /\ answer' \in Ads \cup {NoAd}
    <3>1. CASE QueryAtEnd
      <4>1. CASE ServerAtEnd /\ Answers(got)
        BY <1>1, <2>1, <3>1, <4>1, AnswersTypes DEF QueryAtEnd
      <4>2. CASE Dies /\ UNCHANGED answer
        BY <1>1, <2>1, <2>2, <3>1, <4>2, ServerGoesTypes DEF QueryAtEnd
      <4> QED
        BY <3>1, <4>1, <4>2 DEF QueryAtEnd
    <3>2. ASSUME NEW n \in ReadLengths(toServer[conn], Buf), ServerTakes(n),
                 got' = got \o Taken(toServer[conn], n),
                 (GoesTo("query") /\ UNCHANGED answer) \/ Answers(got')
          PROVE  <2>3
      <4>1. /\ Taken(toServer[conn], n) \in Seq(Unit)
            /\ toServer' \in [Clients -> Seq(Unit)]
        BY <2>1, <3>2, ServerReadTypes
      <4>2. got' \in Seq(Unit)
        BY <1>1, <3>2, <4>1, ConcatProperties
      <4>3. CASE GoesTo("query") /\ UNCHANGED answer
        BY <2>1, <2>2, <4>1, <4>2, <4>3, ServerGoesTypes
      <4>4. CASE Answers(got')
        BY <2>1, <4>1, <4>2, <4>4, AnswersTypes
      <4> QED
        BY <3>2, <4>3, <4>4
    <3> QED
      BY <1>8, <3>1, <3>2 DEF ServerReadQuery
  <2> QED
    BY <1>1, <1>2, <1>8, <2>3 DEF ServerReadQuery, TypeInv, MemoryTypes
<1>9. CASE ServerReadAck
  <2>1. conn \in Clients /\ answer \in Ads \cup {NoAd} /\ Size["reply"] \in Nat
    BY <1>9, SessionAssumption DEF ServerReadAck, TypeInv, ControlTypes, MemoryTypes
  <2>2. ControlTypes'
    BY <1>9, <2>1, ServerGoesTypes DEF ServerReadAck
  <2>3. toServer' \in [Clients -> Seq(Unit)]
    BY <1>1, <1>9, <2>1, ServerReadTypes DEF ServerReadAck
  <2> QED
    BY <1>1, <1>2, <1>9, <2>2, <2>3 DEF ServerReadAck, TypeInv, MemoryTypes
<1>10. CASE ServerCrash
  <2>1. ControlTypes'
    BY <1>10, EmptySeq DEF ServerCrash, Dies, TypeInv, ControlTypes
  <2> QED
    BY <1>1, <1>2, <1>10, <2>1 DEF ServerCrash, memory, TypeInv, MemoryTypes
<1>11. CASE ServerRestart
  <2>1. ControlTypes' /\ MemoryTypes'
    BY <1>1, <1>11 DEF ServerRestart, TypeInv, ControlTypes, MemoryTypes
  <2>2. restarts' \in 0 .. MaxRestarts
    BY <1>11, SessionAssumption DEF ServerRestart, TypeInv
  <2> QED
    BY <1>1, <1>11, <2>1, <2>2 DEF ServerRestart, TypeInv, ClientTypes, clientVars
<1> QED
  BY <1>3, <1>4, <1>5, <1>6, <1>7, <1>8, <1>9, <1>10, <1>11 DEF ServerStep

\* Every step keeps the types.
LEMMA SessionTypeStep == TypeInv /\ [Next]_vars => TypeInv'
<1> SUFFICES ASSUME TypeInv, [Next]_vars PROVE TypeInv'
  OBVIOUS
<1>1. CASE UNCHANGED vars
  BY <1>1 DEF vars, control, memory, clientVars, TypeInv, ControlTypes, MemoryTypes, ClientTypes
<1> QED
  BY <1>1, ClientTypeStep, ServerTypeStep DEF Next

\* The types hold for ever.
LEMMA SessionTypeInv == Spec => []TypeInv
  BY SessionTypeInit, SessionTypeStep, PTL DEF Spec

\* Every variable of the conversation keeps its type, for any number of
\* clients and any cut, crash or departure: in particular total_read, to which
\* main_server.cpp:345 adds what a failed read returns, never becomes negative
\* inside the loop.
THEOREM SessionTypeCorrect == Spec => []TypeOK
  BY SessionTypeInv, TypeInvTypes, PTL

-----------------------------------------------------------------------------
(* What the proofs below assume of the network.                            *)

\* The environment: the three messages before the key, each the only bytes on
\* the way when it is read, arrive in one piece.
OpeningIsWhole == {"connect", "params", "galLen"} \subseteq Whole

\* So does an ACK: what a cut one leaves behind would be read for a query.
AckIsWhole == "ACK" \in Whole

-----------------------------------------------------------------------------
(* Reads of a message the network does not cut.                            *)

\* A read of a message the network does not cut, and which is alone on its
\* stream, takes all of it.
LEMMA WholeRead ==
    ASSUME NEW kind \in FixedKinds, kind \in Whole,
           NEW n \in ReadLengths(Msg(kind), Ample(Msg(kind)))
    PROVE  n = Len(Msg(kind)) /\ Rest(Msg(kind), n) = <<>>
<1>1. n \in 1 .. Size[kind]
  BY MsgFacts DEF ReadLengths
<1>2. \/ n = Len(Msg(kind))
      \/ Msg(kind)[n].left = 0 \/ Msg(kind)[n].kind \notin Whole
  BY DEF ReadLengths, Ample
<1>3. n # Size[kind] => n \in 1 .. Size[kind] - 1
  BY <1>1, MsgFacts
<1>4. n = Size[kind]
  BY <1>1, <1>2, <1>3, MsgFacts
<1> QED
  BY <1>1, <1>4, MsgFacts, RestFacts

\* All that is waiting is taken when that much is read.
LEMMA WholeTaken ==
    ASSUME NEW s \in Seq(Unit)
    PROVE  Taken(s, Len(s)) = s
  BY SubSeqFull DEF Taken

\* What a read leaves starts where it stopped.
LEMMA RestHead ==
    ASSUME NEW s \in Seq(Unit), NEW n \in 1 .. Len(s), Rest(s, n) # <<>>
    PROVE  n + 1 \in 1 .. Len(s) /\ Head(Rest(s, n)) = s[n + 1]
<1>1. /\ Len(s) \in Nat
      /\ Rest(s, n) \in Seq(Unit) /\ Len(Rest(s, n)) = Len(s) - n
  BY RestFacts, LenProperties
<1>2. Len(Rest(s, n)) # 0
  BY <1>1, EmptySeq
<1>3. n + 1 \in 1 .. Len(s)
  BY <1>1, <1>2
<1>4. \A i \in n + 1 .. Len(s) : s[i] \in Unit
  BY <1>1, ElementOfSeq
<1>5. Rest(s, n)[1] = s[n + 1]
  BY <1>1, <1>3, <1>4, SubSeqProperties DEF Rest
<1> QED
  BY <1>1, <1>3, <1>5, HeadTailProperties

\* What is left of an ACK that came cut does not start as an ACK does.
LEMMA AckRest ==
    ASSUME NEW n \in 1 .. Len(Msg("ACK")), Rest(Msg("ACK"), n) # <<>>
    PROVE  Head(Rest(Msg("ACK"), n)) # Msg("ACK")[1]
<1>1. /\ Size["ACK"] \in Nat \ {0}
      /\ Msg("ACK") \in Seq(Unit) /\ Len(Msg("ACK")) = Size["ACK"]
  BY MsgFacts DEF FixedKinds
<1>2. \A i \in 1 .. Size["ACK"] : Msg("ACK")[i].left = Size["ACK"] - i
  BY DEF Msg, Units
<1>3. n + 1 \in 1 .. Size["ACK"] /\ Head(Rest(Msg("ACK"), n)) = Msg("ACK")[n + 1]
  BY <1>1, RestHead
<1>4. Msg("ACK")[n + 1].left # Msg("ACK")[1].left
  BY <1>1, <1>2, <1>3
<1> QED
  BY <1>3, <1>4

-----------------------------------------------------------------------------
(* The invariant: where the bytes can be until the key has been read.      *)

Waiting == {backlog[i] : i \in 1 .. Len(backlog)}

\* A connection of which nothing has been read.
Fresh(c) ==
    /\ c \in open
    /\ cpc[c] \in {"params", "gone"}
    /\ toServer[c] = Msg("connect")
    /\ toClient[c] = <<>>

\* The parameters are on their way, or the length of the key is.
SendsGalLen(c) ==
    /\ c \in open
    /\ cpc[c] \in {"params", "ack1", "gone"}
    /\ cpc[c] = "params" => toServer[c] = <<>> /\ toClient[c] = Msg("params")
    /\ cpc[c] = "ack1" => toServer[c] = Msg("galLen") /\ toClient[c] = <<>>
    /\ cpc[c] = "gone" => toServer[c] \in {<<>>, Msg("galLen")}

\* The first ACK is on its way, or what the server has not read of the key,
\* and the client has nothing to read that would make it write more: at most
\* the end of a first ACK that came cut, which it does not take for the second.
SendsKey(c) ==
    /\ c \in open
    /\ galLen = Size["galKey"]
    /\ cpc[c] \in {"ack1", "ack2", "gone"}
    /\ cpc[c] = "ack1" => /\ toServer[c] = <<>>
                          /\ toClient[c] = Msg("ACK")
                          /\ totalRead = 0
    /\ cpc[c] = "ack2" /\ toClient[c] # <<>> => Head(toClient[c]) # Msg("ACK")[1]
    /\ totalRead + Len(toServer[c]) <= galLen

BacklogInv ==
    /\ \A c \in Waiting : Fresh(c) /\ c # conn
    /\ \A i, j \in 1 .. Len(backlog) : backlog[i] = backlog[j] => i = j
    /\ \A c \in Clients : cpc[c] = "off" => c # conn /\ toClient[c] = <<>>

ServedInv ==
    /\ spc \notin {"accept", "spin", "down"} => conn \in Clients
    /\ spc = "connect" => Fresh(conn)
    /\ spc = "galLen" => SendsGalLen(conn)
    /\ spc = "galKey" => SendsKey(conn)

OverrunInv == StreamTypes /\ BacklogInv /\ ServedInv /\ NoGaloisOverrun

-----------------------------------------------------------------------------
(* Steps of a client.                                                      *)

OthersKeep(c) ==
    \A d \in Clients \ {c} : /\ cpc'[d] = cpc[d]
                             /\ toServer'[d] = toServer[d]
                             /\ toClient'[d] = toClient[d]

\* What a step of one client leaves to show: its own connection.
LEMMA ClientFrame ==
    ASSUME OverrunInv, NEW c \in Clients,
           UNCHANGED <<control, galLen, totalRead>>,
           cpc' \in [Clients -> ClientPcs],
           toServer' \in [Clients -> Seq(Unit)],
           toClient' \in [Clients -> Seq(Unit)],
           OthersKeep(c),
           cpc'[c] # "off",
           c \in Waiting => Fresh(c)',
           c = conn /\ spc = "connect" => Fresh(c)',
           c = conn /\ spc = "galLen" => SendsGalLen(c)',
           c = conn /\ spc = "galKey" => SendsKey(c)'
    PROVE  OverrunInv'
<1>1. StreamTypes'
  BY DEF OverrunInv, StreamTypes, control, ClientPcs
<1>2. Waiting' = Waiting /\ Waiting \subseteq Clients
  BY ElementOfSeq DEF OverrunInv, StreamTypes, control, Waiting
<1>3. ASSUME NEW d \in Clients, d # c, Fresh(d)
      PROVE  Fresh(d)'
  BY <1>3 DEF Fresh, OthersKeep, control
<1>4. BacklogInv'
  <2>1. \A d \in Waiting' : Fresh(d)' /\ d # conn'
    BY <1>2, <1>3 DEF OverrunInv, BacklogInv, control
  <2>2. \A d \in Clients : cpc'[d] = "off" => d # conn' /\ toClient'[d] = <<>>
    BY DEF OverrunInv, BacklogInv, control, OthersKeep
  <2>3. \A i, j \in 1 .. Len(backlog') : backlog'[i] = backlog'[j] => i = j
    BY DEF OverrunInv, BacklogInv, control
  <2> QED
    BY <2>1, <2>2, <2>3 DEF BacklogInv
<1>5. ServedInv'
  <2>1. CASE conn = c
    BY <2>1 DEF OverrunInv, ServedInv, control, Fresh, SendsGalLen, SendsKey
  <2>2. CASE conn # c /\ spc \in {"connect", "galLen", "galKey"}
    <3>1. conn \in Clients \ {c}
      BY <2>2 DEF OverrunInv, ServedInv
    <3>2. /\ cpc'[conn] = cpc[conn]
          /\ toServer'[conn] = toServer[conn]
          /\ toClient'[conn] = toClient[conn]
      BY <3>1 DEF OthersKeep
    <3> QED
      BY <2>2, <3>1, <3>2
      DEF OverrunInv, ServedInv, control, Fresh, SendsGalLen, SendsKey
  <2>3. CASE spc \notin {"connect", "galLen", "galKey"}
    BY <2>3 DEF OverrunInv, ServedInv, control
  <2> QED
    BY <2>1, <2>2, <2>3
<1>6. NoGaloisOverrun'
  BY DEF OverrunInv, NoGaloisOverrun
<1> QED
  BY <1>1, <1>4, <1>5, <1>6 DEF OverrunInv

\* A new connection is fresh and last in the backlog; a refused one is gone.
LEMMA ClientConnectStep ==
    ASSUME OverrunInv, NEW c \in Clients, ClientConnect(c)
    PROVE  OverrunInv'
<1>1. cpc[c] = "off" /\ c # conn /\ toClient[c] = <<>> /\ c \notin Waiting
  BY DEF ClientConnect, OverrunInv, BacklogInv, Fresh
<1>2. CASE spc = "down"
  <2>1. /\ UNCHANGED <<control, galLen, totalRead, toServer, toClient>>
        /\ cpc' = [cpc EXCEPT ![c] = "gone"]
    BY <1>2 DEF ClientConnect, ClientGoesTo, control, memory
  <2> QED
    BY <1>1, <2>1, ClientFrame DEF OverrunInv, StreamTypes, OthersKeep, ClientPcs
<1>3. CASE spc # "down"
  <2>1. /\ backlog' = Append(backlog, c)
        /\ open' = open \cup {c}
        /\ toServer' = [toServer EXCEPT ![c] = Msg("connect")]
        /\ cpc' = [cpc EXCEPT ![c] = "params"]
        /\ UNCHANGED <<spc, conn, galLen, totalRead, toClient>>
    BY <1>3 DEF ClientConnect, memory
  <2>2. Msg("connect") \in Seq(Unit)
    BY MsgFacts DEF FixedKinds
  <2>3. /\ backlog' \in Seq(Clients)
        /\ Len(backlog') = Len(backlog) + 1
        /\ \A i \in 1 .. Len(backlog) : backlog'[i] = backlog[i]
        /\ backlog'[Len(backlog) + 1] = c
        /\ Len(backlog) \in Nat
    BY <2>1, AppendProperties, LenProperties DEF OverrunInv, StreamTypes
  <2>4. StreamTypes'
    BY <2>1, <2>2, <2>3 DEF OverrunInv, StreamTypes
  <2>5. Waiting' = Waiting \cup {c}
    <3>1. \A i \in 1 .. Len(backlog') : i \in 1 .. Len(backlog) \/ i = Len(backlog) + 1
      BY <2>3
    <3> QED
      BY <2>3, <3>1 DEF Waiting
  <2>6. \A d \in Waiting : d \in Clients /\ d # c
    BY <1>1, ElementOfSeq DEF OverrunInv, StreamTypes, Waiting
  <2>7. Fresh(c)'
    BY <1>1, <2>1 DEF Fresh, OverrunInv, StreamTypes
  <2>8. \A d \in Waiting' : Fresh(d)' /\ d # conn'
    <3>1. \A d \in Waiting : Fresh(d) /\ d # conn
      BY DEF OverrunInv, BacklogInv
    <3> QED
      BY <1>1, <2>1, <2>5, <2>6, <2>7, <3>1 DEF Fresh, OverrunInv, StreamTypes
  <2>9. \A i, j \in 1 .. Len(backlog') : backlog'[i] = backlog'[j] => i = j
    <3>1. \A i \in 1 .. Len(backlog') :
              \/ i \in 1 .. Len(backlog) /\ backlog'[i] = backlog[i] /\ backlog[i] # c
              \/ i = Len(backlog) + 1 /\ backlog'[i] = c
      BY <1>1, <2>3 DEF Waiting
    <3>2. \A i, j \in 1 .. Len(backlog) : backlog[i] = backlog[j] => i = j
      BY DEF OverrunInv, BacklogInv
    <3> QED
      BY <3>1, <3>2
  <2>10. BacklogInv'
    <3>1. \A d \in Clients : cpc'[d] = "off" => d # conn' /\ toClient'[d] = <<>>
      BY <2>1 DEF OverrunInv, BacklogInv, StreamTypes
    <3> QED
      BY <2>8, <2>9, <3>1 DEF BacklogInv
  <2>11. ServedInv'
    BY <1>1, <2>1 DEF OverrunInv, ServedInv, StreamTypes, Fresh, SendsGalLen, SendsKey
  <2>12. NoGaloisOverrun'
    BY <2>1 DEF OverrunInv, NoGaloisOverrun
  <2> QED
    BY <2>4, <2>10, <2>11, <2>12 DEF OverrunInv
<1> QED
  BY <1>2, <1>3

\* A client may be stopped at any point: its bytes stay on the way.
LEMMA LeaveStep ==
    ASSUME OverrunInv, NEW c \in Clients, Leave(c)
    PROVE  OverrunInv'
<1>1. /\ UNCHANGED <<control, galLen, totalRead, toServer, toClient>>
      /\ cpc' = [cpc EXCEPT ![c] = "gone"]
  BY DEF Leave, ClientGoesTo, memory
<1>2. /\ cpc' \in [Clients -> ClientPcs] /\ cpc'[c] = "gone"
      /\ toServer' \in [Clients -> Seq(Unit)]
      /\ toClient' \in [Clients -> Seq(Unit)]
      /\ OthersKeep(c)
  BY <1>1 DEF OverrunInv, StreamTypes, OthersKeep, ClientPcs
<1>3. Fresh(c) => Fresh(c)'
  BY <1>1, <1>2 DEF Fresh, control
<1>4. c \in Waiting => Fresh(c)'
  BY <1>3 DEF OverrunInv, BacklogInv
<1>5. c = conn /\ spc = "connect" => Fresh(c)'
  BY <1>3 DEF OverrunInv, ServedInv
<1>6. c = conn /\ spc = "galLen" => SendsGalLen(c)'
  BY <1>1, <1>2 DEF OverrunInv, ServedInv, SendsGalLen, control
<1>7. c = conn /\ spc = "galKey" => SendsKey(c)'
  BY <1>1, <1>2 DEF OverrunInv, ServedInv, SendsKey, control
<1> QED
  BY <1>1, <1>2, <1>4, <1>5, <1>6, <1>7, ClientFrame

\* A step of a client whose connection is in none of the three reads the
\* invariant follows.
LEMMA ClientElsewhere ==
    ASSUME OverrunInv, NEW c \in Clients,
           ~ Fresh(c), ~ SendsGalLen(c), ~ SendsKey(c),
           UNCHANGED <<control, galLen, totalRead>>,
           cpc' \in [Clients -> ClientPcs],
           toServer' \in [Clients -> Seq(Unit)],
           toClient' \in [Clients -> Seq(Unit)],
           OthersKeep(c),
           cpc'[c] # "off"
    PROVE  OverrunInv'
  BY ClientFrame DEF OverrunInv, BacklogInv, ServedInv

\* The parameters come whole, so the client served sends the length of its key.
LEMMA ClientReadParamsStep ==
    ASSUME OpeningIsWhole, OverrunInv, NEW c \in Clients, ClientReadParams(c)
    PROVE  OverrunInv'
<1>1. cpc[c] = "params" /\ UNCHANGED <<control, galLen, totalRead>>
  BY DEF ClientReadParams, memory
<1>2. /\ "params" \in FixedKinds /\ "params" \in Whole
      /\ "galLen" \in FixedKinds /\ "ack1" \in ClientPcs
      /\ Msg("galLen") \in Seq(Unit)
  BY MsgFacts DEF OpeningIsWhole, FixedKinds, ClientPcs
<1>3. CASE ClientAtEnd(c) /\ ClientGoesTo(c, "gone") /\ UNCHANGED toClient
  <2>1. c \notin open
    BY <1>3 DEF ClientAtEnd
  <2>2. ~ Fresh(c) /\ ~ SendsGalLen(c) /\ ~ SendsKey(c)
    BY <2>1 DEF Fresh, SendsGalLen, SendsKey
  <2> QED
    BY <1>1, <1>3, <2>2, ClientFrame
    DEF ClientGoesTo, OverrunInv, StreamTypes, BacklogInv, ServedInv, OthersKeep, ClientPcs
<1>4. ASSUME NEW n \in ReadLengths(toClient[c], Ample(toClient[c])),
             ClientTakes(c, n),
             \/ n >= ParamsUsed /\ ClientWrites(c, Msg("galLen"), "ack1")
             \/ n < Size["params"] /\ ClientGoesTo(c, "gone")
      PROVE  OverrunInv'
  <2>1. toClient[c] \in Seq(Unit)
    BY DEF OverrunInv, StreamTypes
  <2>2. n \in 1 .. Len(toClient[c]) /\ toClient[c] # <<>>
    BY <2>1, ReadLengthsFacts
  <2>3. ~ Fresh(c) /\ ~ SendsKey(c)
    BY <1>1, <2>2 DEF Fresh, SendsKey
  <2>4. /\ toClient' \in [Clients -> Seq(Unit)]
        /\ toClient'[c] = Rest(toClient[c], n)
        /\ \A d \in Clients \ {c} : toClient'[d] = toClient[d]
    BY <1>4, <2>2, ClientTakesFacts DEF OverrunInv
  <2>5. /\ toServer' \in [Clients -> Seq(Unit)]
        /\ cpc' \in [Clients -> ClientPcs]
        /\ cpc'[c] \in {"ack1", "gone"}
        /\ \A d \in Clients \ {c} : cpc'[d] = cpc[d] /\ toServer'[d] = toServer[d]
    <3>1. CASE ClientWrites(c, Msg("galLen"), "ack1")
      BY <1>2, <3>1, ClientWritesFacts DEF OverrunInv
    <3>2. CASE ClientGoesTo(c, "gone")
      BY <3>2 DEF ClientGoesTo, OverrunInv, StreamTypes, ClientPcs
    <3> QED
      BY <1>4, <3>1, <3>2
  <2>6. ASSUME SendsGalLen(c)
        PROVE  SendsGalLen(c)'
    <3>1. c \in open /\ toServer[c] = <<>> /\ toClient[c] = Msg("params")
      BY <1>1, <2>6 DEF SendsGalLen
    <3>2. n = Len(Msg("params")) /\ Rest(Msg("params"), n) = <<>>
      BY <1>2, <1>4, <3>1, WholeRead
    <3>3. n = Size["params"] /\ Size["params"] \in Nat
      BY <1>2, <3>2, MsgFacts, SessionAssumption
    <3>4. toServer'[c] = toServer[c] \o Msg("galLen") /\ cpc'[c] = "ack1"
      <4>1. ClientWrites(c, Msg("galLen"), "ack1")
        BY <1>4, <3>3
      <4> QED
        BY <1>2, <3>1, <4>1, ClientWritesFacts DEF OverrunInv
    <3>5. toServer'[c] = Msg("galLen")
      BY <1>2, <3>1, <3>4, ConcatEmptySeq
    <3> QED
      BY <1>1, <2>4, <3>1, <3>2, <3>4, <3>5 DEF SendsGalLen, control
  <2>7. OthersKeep(c) /\ cpc'[c] # "off"
    BY <2>4, <2>5 DEF OthersKeep
  <2> QED
    BY <1>1, <2>3, <2>4, <2>5, <2>6, <2>7, ClientFrame
    DEF OverrunInv, BacklogInv, ServedInv
<1> QED
  BY <1>3, <1>4 DEF ClientReadParams

\* The ACK of the length is alone on its stream: one read takes it, or leaves its
\* end, and the key that follows is of the length announced.
LEMMA ClientReadAck1Step ==
    ASSUME OverrunInv, NEW c \in Clients, ClientReadAck1(c)
    PROVE  OverrunInv'
<1>1. /\ cpc[c] = "ack1" /\ UNCHANGED <<control, galLen, totalRead>>
      /\ ClientWrites(c, Msg("galKey"), "ack2")
  BY DEF ClientReadAck1, memory
<1>2. /\ "galKey" \in FixedKinds /\ "ack2" \in ClientPcs
      /\ Msg("galKey") \in Seq(Unit)
  BY MsgFacts DEF FixedKinds, ClientPcs
<1>3. /\ toServer' \in [Clients -> Seq(Unit)]
      /\ cpc' \in [Clients -> ClientPcs]
      /\ cpc'[c] \in {"ack2", "gone"}
      /\ \A d \in Clients \ {c} : cpc'[d] = cpc[d] /\ toServer'[d] = toServer[d]
      /\ c \in open => /\ toServer'[c] = toServer[c] \o Msg("galKey")
                       /\ cpc'[c] = "ack2"
  BY <1>1, <1>2, ClientWritesFacts DEF OverrunInv
<1>4. CASE ClientAtEnd(c) /\ UNCHANGED <<toClient, cbuf>>
  <2>1. ~ Fresh(c) /\ ~ SendsGalLen(c) /\ ~ SendsKey(c)
    BY <1>4 DEF ClientAtEnd, Fresh, SendsGalLen, SendsKey
  <2>2. OthersKeep(c) /\ cpc'[c] # "off" /\ toClient' \in [Clients -> Seq(Unit)]
    BY <1>3, <1>4 DEF OthersKeep, OverrunInv, StreamTypes
  <2> QED
    BY <1>1, <1>3, <2>1, <2>2, ClientFrame DEF OverrunInv, BacklogInv, ServedInv
<1>5. ASSUME NEW n \in ReadLengths(toClient[c], Ample(toClient[c])), ClientTakes(c, n)
      PROVE  OverrunInv'
  <2>1. toClient[c] \in Seq(Unit)
    BY DEF OverrunInv, StreamTypes
  <2>2. n \in 1 .. Len(toClient[c]) /\ toClient[c] # <<>>
    BY <2>1, ReadLengthsFacts
  <2>3. /\ toClient' \in [Clients -> Seq(Unit)]
        /\ toClient'[c] = Rest(toClient[c], n)
        /\ \A d \in Clients \ {c} : toClient'[d] = toClient[d]
    BY <1>5, <2>2, ClientTakesFacts DEF OverrunInv
  <2>4. ~ Fresh(c) /\ ~ SendsGalLen(c)
    BY <1>1, <2>2 DEF Fresh, SendsGalLen
  <2>5. ASSUME SendsKey(c)
        PROVE  SendsKey(c)'
    <3>1. /\ c \in open /\ galLen = Size["galKey"] /\ totalRead = 0
          /\ toServer[c] = <<>> /\ toClient[c] = Msg("ACK")
      BY <1>1, <2>5 DEF SendsKey
    <3>2. Rest(toClient[c], n) # <<>> => Head(Rest(toClient[c], n)) # Msg("ACK")[1]
      BY <2>2, <3>1, AckRest
    <3>3. toServer'[c] = Msg("galKey") /\ cpc'[c] = "ack2"
      BY <1>2, <1>3, <3>1, ConcatEmptySeq
    <3>4. Len(Msg("galKey")) = galLen /\ galLen \in Nat
      BY <1>2, <3>1, MsgFacts
    <3> QED
      BY <1>1, <2>3, <3>1, <3>2, <3>3, <3>4 DEF SendsKey, control
  <2>6. OthersKeep(c) /\ cpc'[c] # "off"
    BY <1>3, <2>3 DEF OthersKeep
  <2> QED
    BY <1>1, <1>3, <2>3, <2>4, <2>5, <2>6, ClientFrame
    DEF OverrunInv, BacklogInv, ServedInv
<1> QED
  BY <1>4, <1>5 DEF ClientReadAck1, ReadsAck

\* A client that reads at its second ACK while the server reads its key finds
\* the end of the first ACK at most, and reports "Setup failed".
LEMMA ClientReadAck2Step ==
    ASSUME TypeInv, OverrunInv, NEW c \in Clients, ClientReadAck2(c)
    PROVE  OverrunInv'
<1>1. cpc[c] = "ack2" /\ UNCHANGED <<control, galLen, totalRead>>
  BY DEF ClientReadAck2, memory
<1>2. /\ "ads" \in ClientPcs /\ "gone" \in ClientPcs
      /\ Msg("OBTAIN") \in Seq(Unit)
  BY MsgFacts DEF FixedKinds, ClientPcs
<1>3. /\ toServer' \in [Clients -> Seq(Unit)]
      /\ cpc' \in [Clients -> ClientPcs]
      /\ cpc'[c] \in {"ads", "gone"}
      /\ \A d \in Clients \ {c} : cpc'[d] = cpc[d] /\ toServer'[d] = toServer[d]
      /\ ~ cbuf'[c] => cpc'[c] = "gone" /\ toServer' = toServer
  <2>1. CASE cbuf'[c] /\ ClientWrites(c, Msg("OBTAIN"), "ads")
    BY <1>2, <2>1, ClientWritesFacts DEF OverrunInv
  <2>2. CASE ClientGoesTo(c, "gone")
    BY <2>2 DEF ClientGoesTo, OverrunInv, StreamTypes, ClientPcs
  <2> QED
    BY <2>1, <2>2 DEF ClientReadAck2
<1>4. CASE ClientAtEnd(c) /\ UNCHANGED <<toClient, cbuf>>
  <2>1. /\ ~ Fresh(c) /\ ~ SendsGalLen(c) /\ ~ SendsKey(c)
        /\ toClient' \in [Clients -> Seq(Unit)]
        /\ OthersKeep(c)
    BY <1>3, <1>4
    DEF ClientAtEnd, Fresh, SendsGalLen, SendsKey, OthersKeep, OverrunInv, StreamTypes
  <2> QED
    BY <1>1, <1>3, <2>1, ClientElsewhere
<1>5. ASSUME NEW n \in ReadLengths(toClient[c], Ample(toClient[c])), ClientTakes(c, n),
             Head(toClient[c]) # Msg("ACK")[1] => cbuf' = [cbuf EXCEPT ![c] = FALSE]
      PROVE  OverrunInv'
  <2>1. toClient[c] \in Seq(Unit)
    BY DEF OverrunInv, StreamTypes
  <2>2. n \in 1 .. Len(toClient[c]) /\ toClient[c] # <<>>
    BY <2>1, ReadLengthsFacts
  <2>3. /\ toClient' \in [Clients -> Seq(Unit)]
        /\ \A d \in Clients \ {c} : toClient'[d] = toClient[d]
    BY <1>5, <2>2, ClientTakesFacts DEF OverrunInv
  <2>4. ~ Fresh(c) /\ ~ SendsGalLen(c)
    BY <1>1 DEF Fresh, SendsGalLen
  <2>5. ASSUME SendsKey(c)
        PROVE  SendsKey(c)'
    <3>1. Head(toClient[c]) # Msg("ACK")[1]
      BY <1>1, <2>2, <2>5 DEF SendsKey
    <3>2. ~ cbuf'[c]
      BY <1>5, <3>1 DEF TypeInv, ClientTypes
    <3> QED
      BY <1>1, <1>3, <2>5, <3>2 DEF SendsKey, control
  <2>6. OthersKeep(c) /\ cpc'[c] # "off"
    BY <1>3, <2>3 DEF OthersKeep
  <2> QED
    BY <1>1, <1>3, <2>3, <2>4, <2>5, <2>6, ClientFrame
    DEF OverrunInv, BacklogInv, ServedInv
<1> QED
  BY <1>4, <1>5 DEF ClientReadAck2, ReadsAck

\* Once the client reads its ads, the key has been read.
LEMMA ClientReadAdsStep ==
    ASSUME OverrunInv, NEW c \in Clients, ClientReadAds(c)
    PROVE  OverrunInv'
<1>1. /\ cpc[c] = "ads" /\ UNCHANGED <<control, galLen, totalRead, toServer>>
      /\ \E next \in {"prompt", "gone"} : cpc' = [cpc EXCEPT ![c] = next]
  BY DEF ClientReadAds, ClientGoesTo, memory
<1>2. /\ toClient' \in [Clients -> Seq(Unit)]
      /\ \A d \in Clients \ {c} : toClient'[d] = toClient[d]
  <2>1. CASE UNCHANGED toClient
    BY <2>1 DEF OverrunInv, StreamTypes
  <2>2. ASSUME NEW n \in ReadLengths(toClient[c], Ample(toClient[c])), ClientTakes(c, n)
        PROVE  <1>2!1 /\ <1>2!2
    <3>1. n \in 1 .. Len(toClient[c])
      BY ReadLengthsFacts DEF OverrunInv, StreamTypes
    <3> QED
      BY <2>2, <3>1, ClientTakesFacts DEF OverrunInv
  <2> QED
    BY <2>1, <2>2 DEF ClientReadAds
<1>3. /\ cpc' \in [Clients -> ClientPcs] /\ cpc'[c] # "off"
      /\ toServer' \in [Clients -> Seq(Unit)] /\ OthersKeep(c)
  BY <1>1, <1>2 DEF OverrunInv, StreamTypes, ClientPcs, OthersKeep
<1>4. ~ Fresh(c) /\ ~ SendsGalLen(c) /\ ~ SendsKey(c)
  BY <1>1 DEF Fresh, SendsGalLen, SendsKey
<1> QED
  BY <1>1, <1>2, <1>3, <1>4, ClientElsewhere

\* So has it when the client sends a query,
LEMMA ClickStep ==
    ASSUME OverrunInv, NEW c \in Clients, Click(c)
    PROVE  OverrunInv'
<1>1. cpc[c] = "prompt" /\ UNCHANGED <<control, galLen, totalRead, toClient>>
  BY DEF Click, memory
<1>2. \/ \E ad \in Ads, n \in QuerySizes : ClientWrites(c, Units("query", ad, n), "size")
      \/ ClientGoesTo(c, "gone")
  BY DEF Click, WritesQuery, QueryFails
<1>3. \A ad \in Ads, n \in QuerySizes : Units("query", ad, n) \in Seq(Unit)
  BY UnitsFacts, SessionAssumption DEF Kinds
<1>4. /\ toServer' \in [Clients -> Seq(Unit)]
      /\ cpc' \in [Clients -> ClientPcs] /\ cpc'[c] # "off"
      /\ toClient' \in [Clients -> Seq(Unit)] /\ OthersKeep(c)
  <2>1. CASE \E ad \in Ads, n \in QuerySizes :
                 ClientWrites(c, Units("query", ad, n), "size")
    <3>1. "size" \in ClientPcs
      BY DEF ClientPcs
    <3> QED
      BY <1>1, <1>3, <2>1, <3>1, ClientWritesFacts
      DEF OverrunInv, StreamTypes, OthersKeep
  <2>2. CASE ClientGoesTo(c, "gone")
    BY <1>1, <2>2 DEF ClientGoesTo, OverrunInv, StreamTypes, OthersKeep, ClientPcs
  <2> QED
    BY <1>2, <2>1, <2>2
<1>5. ~ Fresh(c) /\ ~ SendsGalLen(c) /\ ~ SendsKey(c)
  BY <1>1 DEF Fresh, SendsGalLen, SendsKey
<1> QED
  BY <1>1, <1>4, <1>5, ClientElsewhere

\* when the client reads the size of a reply,
LEMMA ClientReadSizeStep ==
    ASSUME OverrunInv, NEW c \in Clients, ClientReadSize(c)
    PROVE  OverrunInv'
<1>1. cpc[c] = "size" /\ UNCHANGED <<control, galLen, totalRead>>
  BY DEF ClientReadSize, memory
<1>2. Msg("ACK") \in Seq(Unit) /\ {"reply", "gone"} \subseteq ClientPcs \ {"off"}
  BY MsgFacts DEF FixedKinds, ClientPcs
<1>3. /\ toServer' \in [Clients -> Seq(Unit)]
      /\ cpc' \in [Clients -> ClientPcs] /\ cpc'[c] # "off"
      /\ \A d \in Clients \ {c} : cpc'[d] = cpc[d] /\ toServer'[d] = toServer[d]
  <2>1. CASE \E next \in {"reply", "gone"} : ClientWrites(c, Msg("ACK"), next)
    BY <1>2, <2>1, ClientWritesFacts DEF OverrunInv
  <2>2. CASE ClientGoesTo(c, "gone")
    BY <2>2 DEF ClientGoesTo, OverrunInv, StreamTypes, ClientPcs
  <2> QED
    BY <2>1, <2>2 DEF ClientReadSize
<1>4. /\ toClient' \in [Clients -> Seq(Unit)]
      /\ \A d \in Clients \ {c} : toClient'[d] = toClient[d]
  <2>1. CASE UNCHANGED toClient
    BY <2>1 DEF OverrunInv, StreamTypes
  <2>2. ASSUME NEW n \in ReadLengths(toClient[c], Size["size"]), ClientTakes(c, n)
        PROVE  <1>4!1 /\ <1>4!2
    <3>1. n \in 1 .. Len(toClient[c])
      BY ReadLengthsFacts DEF OverrunInv, StreamTypes
    <3> QED
      BY <2>2, <3>1, ClientTakesFacts DEF OverrunInv
  <2> QED
    BY <2>1, <2>2 DEF ClientReadSize
<1>5. ~ Fresh(c) /\ ~ SendsGalLen(c) /\ ~ SendsKey(c)
  BY <1>1 DEF Fresh, SendsGalLen, SendsKey
<1> QED
  BY <1>1, <1>3, <1>4, <1>5, ClientElsewhere DEF OthersKeep

\* and when the client reads the reply.
LEMMA ClientReadReplyStep ==
    ASSUME OverrunInv, NEW c \in Clients, ClientReadReply(c)
    PROVE  OverrunInv'
<1>1. /\ cpc[c] = "reply" /\ UNCHANGED <<control, galLen, totalRead, toServer>>
      /\ \E next \in {"prompt", "gone"} : cpc' = [cpc EXCEPT ![c] = next]
  BY DEF ClientReadReply, ClientGoesTo, memory
<1>2. /\ toClient' \in [Clients -> Seq(Unit)]
      /\ \A d \in Clients \ {c} : toClient'[d] = toClient[d]
  <2>1. CASE UNCHANGED toClient
    BY <2>1 DEF OverrunInv, StreamTypes
  <2>2. ASSUME NEW n \in ReadLengths(toClient[c], Size["reply"]), ClientTakes(c, n)
        PROVE  <1>2!1 /\ <1>2!2
    <3>1. n \in 1 .. Len(toClient[c])
      BY ReadLengthsFacts DEF OverrunInv, StreamTypes
    <3> QED
      BY <2>2, <3>1, ClientTakesFacts DEF OverrunInv
  <2> QED
    BY <2>1, <2>2 DEF ClientReadReply
<1>3. /\ cpc' \in [Clients -> ClientPcs] /\ cpc'[c] # "off"
      /\ toServer' \in [Clients -> Seq(Unit)] /\ OthersKeep(c)
  BY <1>1, <1>2 DEF OverrunInv, StreamTypes, ClientPcs, OthersKeep
<1>4. ~ Fresh(c) /\ ~ SendsGalLen(c) /\ ~ SendsKey(c)
  BY <1>1 DEF Fresh, SendsGalLen, SendsKey
<1> QED
  BY <1>1, <1>2, <1>3, <1>4, ClientElsewhere

-----------------------------------------------------------------------------
(* Steps of the server.                                                    *)

\* The end of the process leaves no connection for the invariant to follow.
LEMMA DiesStep ==
    ASSUME OverrunInv, Dies, UNCHANGED cpc,
           toServer' \in [Clients -> Seq(Unit)],
           galLen' \in Nat, totalRead' \in Nat, totalRead' <= galLen'
    PROVE  OverrunInv'
<1>1. /\ spc' = "down" /\ conn' = NoClient /\ backlog' = <<>>
      /\ toClient' = toClient
  BY DEF Dies
<1>2. backlog' \in Seq(Clients) /\ Len(backlog') = 0
  BY <1>1, EmptySeq
<1>3. StreamTypes'
  BY <1>1, <1>2 DEF OverrunInv, StreamTypes
<1>4. Waiting' = {} /\ 1 .. Len(backlog') = {}
  BY <1>2 DEF Waiting
<1>5. BacklogInv'
  BY <1>1, <1>4, SessionAssumption DEF BacklogInv, OverrunInv
<1>6. ServedInv'
  BY <1>1 DEF ServedInv
<1> QED
  BY <1>3, <1>5, <1>6 DEF OverrunInv, NoGaloisOverrun

\* What a step of a server that lives on leaves to show: the connection served.
LEMMA ServerFrame ==
    ASSUME OverrunInv, NEW c \in Clients, conn = c,
           UNCHANGED <<backlog, open, cpc>>,
           spc' \in ServerPcs \ {"connect"},
           conn' \in {c, NoClient},
           spc' \notin {"accept", "spin", "down"} => conn' = c,
           toServer' \in [Clients -> Seq(Unit)],
           toClient' \in [Clients -> Seq(Unit)],
           OthersKeep(c),
           galLen' \in Nat, totalRead' \in Nat, totalRead' <= galLen',
           spc' = "galLen" => SendsGalLen(c)',
           spc' = "galKey" => SendsKey(c)'
    PROVE  OverrunInv'
<1>1. StreamTypes'
  BY DEF OverrunInv, StreamTypes, ServerPcs
<1>2. Waiting' = Waiting /\ Waiting \subseteq Clients
  BY ElementOfSeq DEF OverrunInv, StreamTypes, Waiting
<1>3. \A d \in Waiting' : Fresh(d)' /\ d # conn'
  <2> SUFFICES ASSUME NEW d \in Waiting PROVE Fresh(d)' /\ d # conn'
    BY <1>2
  <2>1. Fresh(d) /\ d \in Clients \ {c}
    BY <1>2 DEF OverrunInv, BacklogInv
  <2> QED
    BY <2>1, SessionAssumption DEF Fresh, OthersKeep
<1>4. \A d \in Clients : cpc'[d] = "off" => d # conn' /\ toClient'[d] = <<>>
  BY SessionAssumption DEF OverrunInv, BacklogInv, OthersKeep
<1>5. BacklogInv'
  BY <1>3, <1>4 DEF OverrunInv, BacklogInv
<1>6. ServedInv'
  BY DEF ServedInv, SendsGalLen, SendsKey
<1> QED
  BY <1>1, <1>5, <1>6 DEF OverrunInv, NoGaloisOverrun

\* The reads that come after the key: whatever is sent, the invariant follows
\* the connection no more.
LEMMA ServerElsewhere ==
    ASSUME OverrunInv, NEW c \in Clients, conn = c,
           UNCHANGED <<cpc, galLen>>,
           totalRead' \in Nat, totalRead' <= galLen,
           toServer' \in [Clients -> Seq(Unit)],
           \A d \in Clients \ {c} : toServer'[d] = toServer[d],
           \/ \E message \in Seq(Unit), next \in {"obtain", "query", "ack"} :
                  ServerSends(message, next)
           \/ \E next \in {"query", "spin"} : GoesTo(next)
           \/ WrongRequest
           \/ Dies
    PROVE  OverrunInv'
<1> USE DEF ServerPcs
<1>1. galLen' \in Nat /\ totalRead' <= galLen'
  BY DEF OverrunInv, StreamTypes
<1>2. CASE Dies
  BY <1>1, <1>2, DiesStep
<1>3. CASE \E next \in {"query", "spin"} : GoesTo(next)
  BY <1>1, <1>3, ServerFrame DEF GoesTo, OthersKeep, OverrunInv, StreamTypes
<1>4. CASE WrongRequest
  BY <1>1, <1>4, ServerFrame DEF WrongRequest, OthersKeep, OverrunInv, StreamTypes
<1>5. ASSUME NEW message \in Seq(Unit), NEW next \in {"obtain", "query", "ack"},
             ServerSends(message, next), ~ Dies
      PROVE  OverrunInv'
  <2>1. /\ spc' = next
        /\ UNCHANGED <<conn, backlog, open>>
        /\ toClient' \in [Clients -> Seq(Unit)]
        /\ \A d \in Clients \ {c} : toClient'[d] = toClient[d]
    BY <1>5, ServerSendsFacts DEF OverrunInv
  <2>2. OthersKeep(c)
    BY <2>1 DEF OthersKeep
  <2> QED
    BY <1>1, <2>1, <2>2, ServerFrame
<1> QED
  BY <1>2, <1>3, <1>4, <1>5

\* The connection accepted was in the backlog, hence fresh.
LEMMA ServerAcceptStep ==
    ASSUME OverrunInv, ServerAccept
    PROVE  OverrunInv'
<1>1. /\ spc' = "connect" /\ conn' = Head(backlog) /\ backlog' = Tail(backlog)
      /\ UNCHANGED <<open, cpc, toServer, toClient, galLen, totalRead>>
      /\ backlog # <<>> /\ backlog \in Seq(Clients)
  BY DEF ServerAccept, memory, clientVars, OverrunInv, StreamTypes
<1>2. /\ Len(backlog) \in Nat \ {0}
      /\ Head(backlog) = backlog[1]
      /\ Tail(backlog) \in Seq(Clients)
      /\ Len(Tail(backlog)) = Len(backlog) - 1
      /\ \A i \in 1 .. Len(Tail(backlog)) : Tail(backlog)[i] = backlog[i + 1]
  BY <1>1, HeadTailProperties, EmptySeq, LenProperties
<1>3. Head(backlog) \in Waiting /\ Head(backlog) \in Clients
  BY <1>1, <1>2, ElementOfSeq DEF Waiting
<1>4. \A i \in 1 .. Len(backlog') : i + 1 \in 1 .. Len(backlog) /\ i + 1 # 1
  BY <1>1, <1>2
<1>5. Waiting' \subseteq Waiting /\ conn' \notin Waiting'
  BY <1>1, <1>2, <1>4 DEF Waiting, OverrunInv, BacklogInv
<1>6. StreamTypes'
  BY <1>1, <1>2, <1>3 DEF OverrunInv, StreamTypes
<1>7. \A i, j \in 1 .. Len(backlog') : backlog'[i] = backlog'[j] => i = j
  <2> SUFFICES ASSUME NEW i \in 1 .. Len(backlog'), NEW j \in 1 .. Len(backlog'),
                      backlog'[i] = backlog'[j]
               PROVE  i = j
    OBVIOUS
  <2>1. backlog[i + 1] = backlog[j + 1]
    BY <1>1, <1>2
  <2>2. i + 1 = j + 1
    BY <1>4, <2>1 DEF OverrunInv, BacklogInv
  <2> QED
    BY <1>1, <1>2, <2>2
<1>8. \A d \in Waiting : Fresh(d)'
  BY <1>1 DEF OverrunInv, BacklogInv, Fresh
<1>9. \A d \in Clients : cpc'[d] = "off" => d # conn' /\ toClient'[d] = <<>>
  <2>1. cpc'[conn'] # "off"
    BY <1>1, <1>3, <1>8 DEF Fresh
  <2> QED
    BY <1>1, <2>1 DEF OverrunInv, BacklogInv
<1>10. BacklogInv'
  BY <1>5, <1>7, <1>8, <1>9 DEF BacklogInv
<1>11. ServedInv'
  BY <1>1, <1>3, <1>8 DEF ServedInv, Fresh
<1> QED
  BY <1>1, <1>6, <1>10, <1>11 DEF OverrunInv, NoGaloisOverrun

\* "connect" comes whole, so the parameters are sent to a client that reads them;
\* anything else sends the server back to accept.
LEMMA ServerReadConnectStep ==
    ASSUME OpeningIsWhole, OverrunInv, ServerReadConnect
    PROVE  OverrunInv'
<1>1. /\ spc = "connect" /\ UNCHANGED <<cpc, galLen, totalRead>>
      /\ conn \in Clients /\ Fresh(conn)
  BY DEF ServerReadConnect, memory, clientVars, OverrunInv, ServedInv
<1>2. totalRead \in Nat /\ galLen \in Nat /\ totalRead <= galLen
  BY DEF OverrunInv, StreamTypes, NoGaloisOverrun
<1>3. /\ "connect" \in FixedKinds /\ "connect" \in Whole
      /\ "params" \in FixedKinds /\ Msg("params") \in Seq(Unit)
  BY MsgFacts DEF OpeningIsWhole, FixedKinds
<1>4. CASE WrongRequest /\ UNCHANGED toServer
  BY <1>1, <1>2, <1>4, ServerElsewhere DEF OverrunInv, StreamTypes
<1>5. ASSUME NEW n \in ReadLengths(toServer[conn], Ample(toServer[conn])),
             ServerTakes(n),
             ServerSends(Msg("params"), "galLen") \/ WrongRequest
      PROVE  OverrunInv'
  <2>1. n \in 1 .. Len(toServer[conn])
    BY <1>1, ReadLengthsFacts DEF OverrunInv, StreamTypes
  <2>2. /\ toServer' \in [Clients -> Seq(Unit)]
        /\ toServer'[conn] = Rest(toServer[conn], n)
        /\ \A d \in Clients \ {conn} : toServer'[d] = toServer[d]
    BY <1>1, <1>5, <2>1, ServerTakesFacts DEF OverrunInv
  <2>3. CASE WrongRequest
    BY <1>1, <1>2, <2>2, <2>3, ServerElsewhere
  <2>4. CASE Dies
    BY <1>1, <1>2, <2>2, <2>4, DiesStep
  <2>5. CASE ServerSends(Msg("params"), "galLen") /\ ~ Dies
    <3>1. /\ spc' = "galLen"
          /\ UNCHANGED <<conn, backlog, open>>
          /\ toClient' \in [Clients -> Seq(Unit)]
          /\ toClient'[conn] = toClient[conn] \o Msg("params")
          /\ \A d \in Clients \ {conn} : toClient'[d] = toClient[d]
      BY <1>1, <1>3, <2>5, ServerSendsFacts DEF OverrunInv
    <3>2. toServer'[conn] = <<>>
      BY <1>1, <1>3, <1>5, <2>2, WholeRead DEF Fresh
    <3>3. toClient'[conn] = Msg("params")
      BY <1>1, <1>3, <3>1, ConcatEmptySeq DEF Fresh
    <3>4. /\ conn \in open'
          /\ cpc'[conn] \in {"params", "gone"}
      BY <1>1, <3>1 DEF Fresh
    <3> DEFINE c == conn
    <3>5. SendsGalLen(c)' /\ c \in Clients /\ OthersKeep(c) /\ conn' = c
      BY <1>1, <2>2, <3>1, <3>2, <3>3, <3>4 DEF SendsGalLen, OthersKeep
    <3> HIDE DEF c
    <3> QED
      BY <1>1, <1>2, <2>2, <3>1, <3>5, ServerFrame DEF ServerPcs, c
  <2> QED
    BY <1>5, <2>3, <2>4, <2>5
<1> QED
  BY <1>4, <1>5 DEF ServerReadConnect

\* The length comes whole: when it has been read nothing else is on the way, and
\* the ACK lets the client write a key of that length.
LEMMA ServerReadGalLenStep ==
    ASSUME OpeningIsWhole, OverrunInv, ServerReadGalLen
    PROVE  OverrunInv'
<1>1. /\ spc = "galLen" /\ totalRead' = 0 /\ UNCHANGED cpc
      /\ conn \in Clients /\ SendsGalLen(conn)
  BY DEF ServerReadGalLen, clientVars, OverrunInv, ServedInv
<1>2. /\ "galLen" \in FixedKinds /\ "galLen" \in Whole
      /\ Msg("galLen") \in Seq(Unit) /\ Msg("ACK") \in Seq(Unit)
      /\ Size["galKey"] \in Nat \ {0}
  BY MsgFacts, SessionAssumption DEF FixedKinds, OpeningIsWhole
<1>3. CASE Dies /\ galLen' = 0 /\ UNCHANGED toServer
  BY <1>1, <1>3, DiesStep DEF OverrunInv, StreamTypes
<1>4. ASSUME NEW n \in ReadLengths(toServer[conn], Ample(toServer[conn])),
             ServerTakes(n),
             Taken(toServer[conn], n) = Msg("galLen") => galLen' = Size["galKey"],
             ServerSends(Msg("ACK"), "galKey")
      PROVE  OverrunInv'
  <2>1. n \in 1 .. Len(toServer[conn]) /\ toServer[conn] # <<>>
    BY <1>1, ReadLengthsFacts DEF OverrunInv, StreamTypes
  <2>2. toServer[conn] = Msg("galLen") /\ galLen' = Size["galKey"]
    <3>1. toServer[conn] = Msg("galLen")
      BY <1>1, <2>1 DEF SendsGalLen
    <3> QED
      BY <1>2, <1>4, <3>1, WholeRead, WholeTaken
  <2>3. /\ toServer' \in [Clients -> Seq(Unit)]
        /\ toServer'[conn] = Rest(toServer[conn], n)
        /\ \A d \in Clients \ {conn} : toServer'[d] = toServer[d]
    BY <1>1, <1>4, <2>1, ServerTakesFacts DEF OverrunInv
  <2>4. CASE Dies
    BY <1>1, <1>2, <2>2, <2>3, <2>4, DiesStep
  <2>5. CASE ~ Dies
    <3>1. /\ spc' = "galKey"
          /\ UNCHANGED <<conn, backlog, open>>
          /\ toClient' \in [Clients -> Seq(Unit)]
          /\ toClient'[conn] = toClient[conn] \o Msg("ACK")
          /\ \A d \in Clients \ {conn} : toClient'[d] = toClient[d]
      BY <1>1, <1>2, <1>4, <2>5, ServerSendsFacts DEF OverrunInv
    <3>3. toServer'[conn] = <<>> /\ Len(toServer'[conn]) = 0
      BY <1>2, <1>4, <2>2, <2>3, WholeRead, EmptySeq
    <3>4. cpc[conn] \in {"ack1", "gone"}
      BY <1>1, <2>1 DEF SendsGalLen
    <3>5. cpc[conn] = "ack1" => toClient'[conn] = Msg("ACK")
      BY <1>1, <1>2, <3>1, ConcatEmptySeq DEF SendsGalLen
    <3>6. conn \in open'
      BY <1>1, <3>1 DEF SendsGalLen
    <3> DEFINE c == conn
    <3>7. SendsKey(c)' /\ c \in Clients /\ OthersKeep(c) /\ conn' = c
      BY <1>1, <1>2, <2>2, <2>3, <3>1, <3>3, <3>4, <3>5, <3>6 DEF SendsKey, OthersKeep
    <3> HIDE DEF c
    <3> QED
      BY <1>1, <1>2, <2>2, <2>3, <3>1, <3>7, ServerFrame DEF ServerPcs, c
  <2> QED
    BY <2>4, <2>5
<1> QED
  BY <1>3, <1>4 DEF ServerReadGalLen

\* The read the theorem is about: what the client has written and the server
\* not yet read fits in what is left of the buffer.
LEMMA ServerReadGalKeyStep ==
    ASSUME OverrunInv, ServerReadGalKey
    PROVE  OverrunInv'
<1>1. /\ spc = "galKey" /\ UNCHANGED <<cpc, galLen>>
      /\ conn \in Clients /\ SendsKey(conn)
      /\ galLen \in Nat /\ totalRead \in Nat /\ totalRead <= galLen
  BY DEF ServerReadGalKey, clientVars, OverrunInv, ServedInv, StreamTypes, NoGaloisOverrun
<1>2. Msg("ACK") \in Seq(Unit)
  BY MsgFacts DEF FixedKinds
<1>3. CASE KeyEmpty \/ KeyAtEnd
  BY <1>1, <1>3, ServerElsewhere DEF KeyEmpty, KeyAtEnd, OverrunInv, StreamTypes
<1>4. ASSUME NEW n \in ReadLengths(toServer[conn], galLen),
             ServerTakes(n),
             totalRead' = totalRead + n,
             KeyIncomplete \/ KeyComplete \/ KeyDamaged
      PROVE  OverrunInv'
  <2>1. /\ toServer[conn] \in Seq(Unit)
        /\ n \in 1 .. Len(toServer[conn])
        /\ toServer[conn] # <<>>
    BY <1>1, ReadLengthsFacts DEF OverrunInv, StreamTypes
  <2>2. /\ toServer' \in [Clients -> Seq(Unit)]
        /\ Len(toServer'[conn]) = Len(toServer[conn]) - n
        /\ \A d \in Clients \ {conn} : toServer'[d] = toServer[d]
    BY <1>1, <1>4, <2>1, ServerTakesFacts DEF OverrunInv
  <2>3. totalRead' + Len(toServer'[conn]) <= galLen /\ totalRead' \in Nat /\ totalRead' <= galLen
    <3>1. Len(toServer[conn]) \in Nat /\ totalRead + Len(toServer[conn]) <= galLen
      BY <1>1, <2>1, LenProperties DEF SendsKey
    <3> DEFINE before == Len(toServer[conn])
               after  == Len(toServer'[conn])
    <3>2. /\ before \in Nat /\ totalRead + before <= galLen
          /\ n \in 1 .. before /\ after = before - n
      BY <2>1, <2>2, <3>1
    <3> HIDE DEF before, after
    <3>3. totalRead' + after <= galLen /\ totalRead' \in Nat /\ totalRead' <= galLen
      BY <1>1, <1>4, <3>2
    <3> QED
      BY <3>3 DEF after
  <2>4. CASE KeyIncomplete
    <3>1. spc' = "galKey" /\ UNCHANGED <<conn, backlog, open, toClient>>
      BY <2>4 DEF KeyIncomplete, GoesTo
    <3> DEFINE c == conn
    <3>2. SendsKey(c)' /\ c \in Clients /\ OthersKeep(c) /\ conn' = c
      BY <1>1, <2>1, <2>2, <2>3, <3>1 DEF SendsKey, OthersKeep
    <3>3. toClient' \in [Clients -> Seq(Unit)]
      BY <3>1 DEF OverrunInv, StreamTypes
    <3> HIDE DEF c
    <3> QED
      BY <1>1, <2>2, <2>3, <3>1, <3>2, <3>3, ServerFrame DEF ServerPcs, c
  <2>5. CASE KeyComplete
    BY <1>1, <1>2, <2>2, <2>3, <2>5, ServerElsewhere DEF KeyComplete
  <2>6. CASE KeyDamaged
    BY <1>1, <2>2, <2>3, <2>6, ServerElsewhere DEF KeyDamaged
  <2> QED
    BY <1>4, <2>4, <2>5, <2>6
<1> QED
  BY <1>3, <1>4 DEF ServerReadGalKey

\* The request for the initial ads, or the end of the process.
LEMMA ServerReadObtainStep ==
    ASSUME OverrunInv, ServerReadObtain
    PROVE  OverrunInv'
<1>1. /\ UNCHANGED <<cpc, galLen, totalRead>> /\ conn \in Clients
      /\ totalRead' \in Nat /\ totalRead' <= galLen
  BY DEF ServerReadObtain, clientVars, OverrunInv, ServedInv, StreamTypes, NoGaloisOverrun
<1>2. Msg("ads") \in Seq(Unit)
  BY MsgFacts DEF FixedKinds
<1>3. CASE Dies /\ UNCHANGED toServer
  BY <1>1, <1>3, ServerElsewhere DEF OverrunInv, StreamTypes
<1>4. ASSUME NEW n \in ReadLengths(toServer[conn], Size["OBTAIN"]), ServerTakes(n),
             ServerSends(Msg("ads"), "query") \/ Dies
      PROVE  OverrunInv'
  <2>1. n \in 1 .. Len(toServer[conn])
    BY <1>1, ReadLengthsFacts DEF OverrunInv, StreamTypes
  <2> QED
    BY <1>1, <1>2, <1>4, <2>1, ServerTakesFacts, ServerElsewhere DEF OverrunInv
<1> QED
  BY <1>3, <1>4 DEF ServerReadObtain

\* A reply is announced, or the process ends.
LEMMA AnswersFacts ==
    ASSUME NEW bytes, Answers(bytes)
    PROVE  Dies \/ ServerSends(Msg("size"), "ack")
  BY DEF Answers

\* A piece of a query, its answer, or the end of the stream.
LEMMA ServerReadQueryStep ==
    ASSUME OverrunInv, ServerReadQuery
    PROVE  OverrunInv'
<1>1. /\ UNCHANGED <<cpc, galLen, totalRead>> /\ conn \in Clients
      /\ totalRead' \in Nat /\ totalRead' <= galLen
  BY DEF ServerReadQuery, clientVars, OverrunInv, ServedInv, StreamTypes, NoGaloisOverrun
<1>2. Msg("size") \in Seq(Unit)
  BY MsgFacts DEF FixedKinds
<1>3. CASE QueryAtEnd
  <2>1. Dies \/ ServerSends(Msg("size"), "ack")
    BY <1>3, AnswersFacts DEF QueryAtEnd
  <2> QED
    BY <1>1, <1>2, <1>3, <2>1, ServerElsewhere DEF QueryAtEnd, OverrunInv, StreamTypes
<1>4. ASSUME NEW n \in ReadLengths(toServer[conn], Buf), ServerTakes(n),
             GoesTo("query") \/ Answers(got')
      PROVE  OverrunInv'
  <2>1. n \in 1 .. Len(toServer[conn])
    BY <1>1, ReadLengthsFacts DEF OverrunInv, StreamTypes
  <2>2. GoesTo("query") \/ Dies \/ ServerSends(Msg("size"), "ack")
    BY <1>4, AnswersFacts
  <2> QED
    BY <1>1, <1>2, <1>4, <2>1, <2>2, ServerTakesFacts, ServerElsewhere DEF OverrunInv
<1> QED
  BY <1>3, <1>4 DEF ServerReadQuery

\* The reply goes out whatever the read returned.
LEMMA ServerReadAckStep ==
    ASSUME OverrunInv, answer \in Ads \cup {NoAd}, ServerReadAck
    PROVE  OverrunInv'
<1>1. /\ UNCHANGED <<cpc, galLen, totalRead>> /\ conn \in Clients
      /\ totalRead' \in Nat /\ totalRead' <= galLen
      /\ ServerSends(Units("reply", answer, Size["reply"]), "query")
  BY DEF ServerReadAck, clientVars, OverrunInv, ServedInv, StreamTypes, NoGaloisOverrun
<1>2. Units("reply", answer, Size["reply"]) \in Seq(Unit)
  BY UnitsFacts, SessionAssumption DEF FixedKinds, Kinds
<1>3. CASE UNCHANGED toServer
  BY <1>1, <1>2, <1>3, ServerElsewhere DEF OverrunInv, StreamTypes
<1>4. ASSUME NEW n \in ReadLengths(toServer[conn], Size["ACK"]), ServerTakes(n)
      PROVE  OverrunInv'
  <2>1. n \in 1 .. Len(toServer[conn])
    BY <1>1, ReadLengthsFacts DEF OverrunInv, StreamTypes
  <2> QED
    BY <1>1, <1>2, <1>4, <2>1, ServerTakesFacts, ServerElsewhere DEF OverrunInv
<1> QED
  BY <1>3, <1>4 DEF ServerReadAck

\* A crash leaves no connection.
LEMMA ServerCrashStep ==
    ASSUME OverrunInv, ServerCrash
    PROVE  OverrunInv'
  BY DiesStep DEF ServerCrash, memory, clientVars, OverrunInv, StreamTypes, NoGaloisOverrun

\* A restart finds none.
LEMMA ServerRestartStep ==
    ASSUME OverrunInv, ServerRestart
    PROVE  OverrunInv'
<1>1. /\ spc' = "accept" /\ galLen' = 0 /\ totalRead' = 0
      /\ UNCHANGED <<conn, backlog, open, cpc, toServer, toClient>>
  BY DEF ServerRestart, clientVars
<1>2. Waiting' = Waiting
  BY <1>1 DEF Waiting
<1> QED
  BY <1>1, <1>2
  DEF OverrunInv, StreamTypes, BacklogInv, ServedInv, NoGaloisOverrun, Fresh

-----------------------------------------------------------------------------
(* The theorem.                                                            *)

\* At the start nobody is connected and no key is being read.
LEMMA OverrunInit == Init => OverrunInv
<1> SUFFICES ASSUME Init PROVE OverrunInv
  OBVIOUS
<1>1. StreamTypes
  BY SessionTypeInit, TypeInvTypes
<1>2. Len(backlog) = 0
  BY EmptySeq DEF Init
<1>3. BacklogInv
  BY <1>2, SessionAssumption DEF Init, BacklogInv, Waiting
<1> QED
  BY <1>1, <1>3 DEF Init, OverrunInv, ServedInv, NoGaloisOverrun

\* Every step keeps the invariant.
LEMMA OverrunStep ==
    ASSUME OpeningIsWhole
    PROVE  TypeInv /\ OverrunInv /\ [Next]_vars => OverrunInv'
<1> SUFFICES ASSUME TypeInv, OverrunInv, [Next]_vars PROVE OverrunInv'
  OBVIOUS
<1>1. answer \in Ads \cup {NoAd}
  BY DEF TypeInv, MemoryTypes
<1>2. CASE ServerStep
  BY <1>1, <1>2, ServerAcceptStep, ServerReadConnectStep, ServerReadGalLenStep,
     ServerReadGalKeyStep, ServerReadObtainStep, ServerReadQueryStep, ServerReadAckStep
  DEF ServerStep
<1>3. CASE ServerCrash \/ ServerRestart
  BY <1>3, ServerCrashStep, ServerRestartStep
<1>4. ASSUME NEW c \in Clients,
             ClientStep(c) \/ ClientConnect(c) \/ Click(c) \/ Leave(c)
      PROVE  OverrunInv'
  BY <1>4, ClientReadParamsStep, ClientReadAck1Step, ClientReadAck2Step,
     ClientReadAdsStep, ClientReadSizeStep, ClientReadReplyStep,
     ClientConnectStep, ClickStep, LeaveStep
  DEF ClientStep
<1>5. CASE UNCHANGED vars
  BY <1>5
  DEF vars, control, memory, clientVars, OverrunInv, StreamTypes, BacklogInv, ServedInv,
      NoGaloisOverrun, Waiting, Fresh, SendsGalLen, SendsKey
<1> QED
  BY <1>2, <1>3, <1>4, <1>5 DEF Next

\* The read loop of main_server.cpp:342-346 asks for gal_len bytes each time,
\* whatever it has read; it never writes past the gal_len bytes allocated,
\* however many clients there are, whoever leaves or crashes and however the key
\* is cut.
THEOREM GaloisBufferSafe ==
    ASSUME OpeningIsWhole
    PROVE  Spec => []NoGaloisOverrun
<1>1. TypeInv /\ OverrunInv /\ [Next]_vars => OverrunInv'
  BY OverrunStep
<1>2. OverrunInv => NoGaloisOverrun
  BY DEF OverrunInv
<1> QED
  BY <1>1, <1>2, OverrunInit, SessionTypeInv, PTL DEF Spec

-----------------------------------------------------------------------------
(* The bytes between the server and the client it serves, read by read.    *)

QuerySplit(c) ==
    \E ad \in Ads, n \in QuerySizes : got \o toServer[c] = Units("query", ad, n)

FullReads == \E k \in Nat : Len(got) = k * Buf

\* A size that came cut has left its end to be read for the reply.
SizeLeft(c) == toClient[c] # <<>> /\ Head(toClient[c]).kind = "size"

\* While the client served runs, its key, its query and each answer are whole
\* between the buffers and the streams.
InTurn(c) ==
    /\ spc = "galKey" =>
           /\ totalRead < galLen
           /\ cpc[c] = "ack1" => got = <<>>
           /\ cpc[c] = "ack2" => /\ got \o toServer[c] = Msg("galKey")
                                 /\ totalRead = Len(got)
                                 /\ toClient[c] = <<>>
    /\ spc = "obtain" =>
           \/ cpc[c] = "ack2" /\ toServer[c] = <<>> /\ toClient[c] = Msg("ACK")
           \/ cpc[c] = "ads" /\ toServer[c] = Msg("OBTAIN") /\ toClient[c] = <<>>
    /\ spc = "query" =>
           \/ /\ cpc[c] = "ads" /\ got = <<>>
              /\ toServer[c] = <<>> /\ toClient[c] = Msg("ads")
           \/ /\ cpc[c] = "prompt" /\ got = <<>>
              /\ toServer[c] = <<>> /\ toClient[c] = <<>>
           \/ /\ cpc[c] = "size" /\ QuerySplit(c) /\ FullReads
              /\ toClient[c] = <<>>
           \/ /\ cpc[c] = "reply" /\ got = <<>>
              /\ toServer[c] = <<>>
              /\ Len(toClient[c]) = Size["reply"] \/ SizeLeft(c)
    /\ spc = "ack" =>
           \/ cpc[c] = "size" /\ toServer[c] = <<>> /\ toClient[c] = Msg("size")
           \/ /\ cpc[c] = "reply" /\ toServer[c] = Msg("ACK")
              /\ toClient[c] = <<>> \/ SizeLeft(c)

TurnInv == conn \in Clients => /\ conn \in open
                               /\ cpc[conn] # "gone" => InTurn(conn)

\* Joining streams is associative.
LEMMA JoinAssociates ==
    ASSUME NEW s \in Seq(Unit), NEW t \in Seq(Unit), NEW u \in Seq(Unit)
    PROVE  (s \o t) \o u = s \o (t \o u)
<1> DEFINE st == s \o t
           tu == t \o u
<1>1. /\ Len(s) \in Nat /\ Len(t) \in Nat /\ Len(u) \in Nat
      /\ st \in Seq(Unit) /\ Len(st) = Len(s) + Len(t)
      /\ \A i \in 1 .. Len(s) + Len(t) : st[i] = IF i <= Len(s) THEN s[i] ELSE t[i - Len(s)]
      /\ tu \in Seq(Unit) /\ Len(tu) = Len(t) + Len(u)
      /\ \A i \in 1 .. Len(t) + Len(u) : tu[i] = IF i <= Len(t) THEN t[i] ELSE u[i - Len(t)]
  BY ConcatProperties, LenProperties
<1> HIDE DEF st, tu
<1> DEFINE l == st \o u
           r == s \o tu
<1>2. /\ l \in Seq(Unit) /\ Len(l) = Len(st) + Len(u)
      /\ \A i \in 1 .. Len(st) + Len(u) : l[i] = IF i <= Len(st) THEN st[i] ELSE u[i - Len(st)]
      /\ r \in Seq(Unit) /\ Len(r) = Len(s) + Len(tu)
      /\ \A i \in 1 .. Len(s) + Len(tu) : r[i] = IF i <= Len(s) THEN s[i] ELSE tu[i - Len(s)]
  <2>1. st \in Seq(Unit) /\ tu \in Seq(Unit)
    BY <1>1
  <2>2. /\ l \in Seq(Unit) /\ Len(l) = Len(st) + Len(u)
        /\ \A i \in 1 .. Len(st) + Len(u) : l[i] = IF i <= Len(st) THEN st[i] ELSE u[i - Len(st)]
    BY <2>1, ConcatProperties
  <2>3. /\ r \in Seq(Unit) /\ Len(r) = Len(s) + Len(tu)
        /\ \A i \in 1 .. Len(s) + Len(tu) : r[i] = IF i <= Len(s) THEN s[i] ELSE tu[i - Len(s)]
    BY <2>1, ConcatProperties
  <2> QED
    BY <2>2, <2>3
<1> HIDE DEF l, r
<1>3. ASSUME NEW i \in 1 .. Len(s) + Len(t) + Len(u)
      PROVE  l[i] = r[i]
  <2>1. CASE i <= Len(s)
    <3>1. i \in 1 .. Len(s) + Len(t) /\ i <= Len(st) /\ i \in 1 .. Len(st) + Len(u) /\ i \in 1 .. Len(s) + Len(tu)
      BY <1>1, <2>1
    <3>2. l[i] = st[i] /\ st[i] = s[i] /\ r[i] = s[i]
      BY <1>1, <1>2, <2>1, <3>1
    <3> QED
      BY <3>2
  <2>2. CASE i > Len(s) /\ i <= Len(s) + Len(t)
    <3>1. /\ i \in 1 .. Len(s) + Len(t) /\ i <= Len(st) /\ ~ i <= Len(s)
          /\ i \in 1 .. Len(st) + Len(u) /\ i \in 1 .. Len(s) + Len(tu)
          /\ i - Len(s) \in 1 .. Len(t) + Len(u) /\ i - Len(s) <= Len(t)
      BY <1>1, <2>2
    <3>2. l[i] = st[i] /\ st[i] = t[i - Len(s)] /\ r[i] = tu[i - Len(s)] /\ tu[i - Len(s)] = t[i - Len(s)]
      BY <1>1, <1>2, <3>1
    <3> QED
      BY <3>2
  <2>3. CASE i > Len(s) + Len(t)
    <3>1. /\ ~ i <= Len(st) /\ ~ i <= Len(s)
          /\ i \in 1 .. Len(st) + Len(u) /\ i \in 1 .. Len(s) + Len(tu)
          /\ i - Len(s) \in 1 .. Len(t) + Len(u) /\ ~ i - Len(s) <= Len(t)
          /\ i - Len(st) = (i - Len(s)) - Len(t)
      BY <1>1, <2>3
    <3>2. l[i] = u[i - Len(st)] /\ r[i] = tu[i - Len(s)] /\ tu[i - Len(s)] = u[(i - Len(s)) - Len(t)]
      BY <1>1, <1>2, <3>1
    <3> QED
      BY <3>1, <3>2
  <2> QED
    BY <1>1, <2>1, <2>2, <2>3
<1>4. l = r
  <2>1. Len(l) = Len(s) + Len(t) + Len(u) /\ Len(r) = Len(l)
    BY <1>1, <1>2
  <2>2. \A i \in 1 .. Len(l) : l[i] = r[i]
    BY <1>3, <2>1
  <2> QED
    BY <1>2, <2>1, <2>2, SeqEqual
<1> QED
  BY <1>4, Zenon DEF l, r, st, tu

\* A read that takes n units takes n units.
LEMMA TakenLength ==
    ASSUME NEW s \in Seq(Unit), NEW n \in 1 .. Len(s)
    PROVE  Len(Taken(s, n)) = n
<1>1. Len(s) \in Nat /\ n \in Nat
  BY LenProperties
<1>2. \A i \in 1 .. n : s[i] \in Unit
  BY <1>1, ElementOfSeq
<1> QED
  BY <1>1, <1>2, SubSeqProperties DEF Taken

\* A read moves bytes from the stream to the buffer, and loses none.
LEMMA SplitRead ==
    ASSUME NEW s \in Seq(Unit), NEW t \in Seq(Unit), NEW n \in 1 .. Len(t)
    PROVE  /\ s \o Taken(t, n) \in Seq(Unit)
           /\ (s \o Taken(t, n)) \o Rest(t, n) = s \o t
           /\ Len(s \o Taken(t, n)) = Len(s) + n
<1>1. /\ Taken(t, n) \in Seq(Unit) /\ Rest(t, n) \in Seq(Unit)
      /\ Len(t) \in Nat /\ Len(s) \in Nat /\ Len(Rest(t, n)) = Len(t) - n
  BY TakenFacts, RestFacts, LenProperties
<1>2. Taken(t, n) \o Rest(t, n) = t
  <2>1. /\ 1 \in 1 .. Len(t) + 1 /\ n \in 1 - 1 .. Len(t)
        /\ Len(t) \in n .. Len(t)
    BY <1>1
  <2>2. SubSeq(t, 1, n) \o SubSeq(t, n + 1, Len(t)) = SubSeq(t, 1, Len(t))
    BY <2>1, ConcatAdjacentSubSeq
  <2> QED
    BY <2>2, SubSeqFull DEF Taken, Rest
<1>3. (s \o Taken(t, n)) \o Rest(t, n) = s \o (Taken(t, n) \o Rest(t, n))
  <2>1. Taken(t, n) \in Seq(Unit) /\ Rest(t, n) \in Seq(Unit)
    BY <1>1
  <2> QED
    BY <2>1, JoinAssociates, Zenon
<1>4. Len(Taken(t, n)) = n
  BY TakenLength
<1> QED
  BY <1>1, <1>2, <1>3, <1>4, ConcatProperties

\* What a step of one client leaves to show: its own turn.
LEMMA TurnClientFrame ==
    ASSUME TurnInv, NEW c \in Clients,
           UNCHANGED <<control, memory>>, OthersKeep(c), cpc[c] # "gone",
           c = conn /\ cpc'[c] # "gone" /\ InTurn(c) => InTurn(c)'
    PROVE  TurnInv'
<1>1. UNCHANGED <<spc, conn, open, got, totalRead, galLen>>
  BY DEF control, memory
<1>2. ASSUME conn \in Clients, conn # c
      PROVE  TurnInv'
  <2>1. /\ cpc'[conn] = cpc[conn] /\ toServer'[conn] = toServer[conn]
        /\ toClient'[conn] = toClient[conn]
    BY <1>2 DEF OthersKeep
  <2> QED
    BY <1>1, <2>1 DEF TurnInv, InTurn, SizeLeft, QuerySplit, FullReads
<1> QED
  BY <1>1, <1>2 DEF TurnInv

\* A client reads what is on its own stream, from the place it is at.
LEMMA OwnRead ==
    ASSUME StreamTypes, NEW c \in Clients, NEW limit,
           NEW n \in ReadLengths(toClient[c], limit), ClientTakes(c, n)
    PROVE  /\ toClient[c] \in Seq(Unit) /\ toClient[c] # <<>>
           /\ n \in 1 .. Len(toClient[c])
           /\ toClient' \in [Clients -> Seq(Unit)]
           /\ toClient'[c] = Rest(toClient[c], n)
           /\ \A d \in Clients \ {c} : toClient'[d] = toClient[d]
<1>1. toClient[c] \in Seq(Unit)
  BY DEF StreamTypes
<1>2. n \in 1 .. Len(toClient[c]) /\ toClient[c] # <<>>
  BY <1>1, ReadLengthsFacts
<1> QED
  BY <1>1, <1>2, ClientTakesFacts

\* A write to a connection that is up, or the end of the client.
LEMMA OwnWrite ==
    ASSUME StreamTypes, NEW c \in Clients, NEW message \in Seq(Unit),
           NEW next \in ClientPcs,
           ClientWrites(c, message, next) \/ ClientGoesTo(c, "gone")
    PROVE  /\ \A d \in Clients \ {c} : cpc'[d] = cpc[d] /\ toServer'[d] = toServer[d]
           /\ cpc'[c] \in {next, "gone"}
           /\ c \in open /\ cpc'[c] # "gone" =>
                  cpc'[c] = next /\ toServer'[c] = toServer[c] \o message
  BY ClientWritesFacts DEF ClientGoesTo, StreamTypes, ClientPcs

LEMMA TurnReadParams ==
    ASSUME OverrunInv, TurnInv, NEW c \in Clients, ClientReadParams(c)
    PROVE  TurnInv'
<1> USE DEF FixedKinds, ClientPcs
<1>1. /\ cpc[c] = "params" /\ UNCHANGED <<control, memory>> /\ StreamTypes
      /\ Msg("galLen") \in Seq(Unit)
  BY MsgFacts DEF ClientReadParams, OverrunInv
<1>2. OthersKeep(c)
  <2>1. ClientWrites(c, Msg("galLen"), "ack1") \/ ClientGoesTo(c, "gone")
    BY DEF ClientReadParams
  <2>2. \A d \in Clients \ {c} : toClient'[d] = toClient[d]
    BY <1>1, OwnRead DEF ClientReadParams
  <2> QED
    BY <1>1, <2>1, <2>2, OwnWrite DEF OthersKeep
<1>3. ASSUME c = conn, InTurn(c)
      PROVE  InTurn(c)'
  <2>1. spc \notin {"galKey", "obtain", "query", "ack"}
    BY <1>1, <1>3 DEF InTurn, OverrunInv, ServedInv, SendsKey
  <2> QED
    BY <1>1, <2>1 DEF InTurn, control
<1> QED
  BY <1>1, <1>2, <1>3, TurnClientFrame

\* The key is written whole behind the ACK of its length.
LEMMA TurnReadAck1 ==
    ASSUME AckIsWhole, OverrunInv, TurnInv, NEW c \in Clients, ClientReadAck1(c)
    PROVE  TurnInv'
<1> USE DEF FixedKinds, ClientPcs
<1>1. /\ cpc[c] = "ack1" /\ UNCHANGED <<control, memory>> /\ StreamTypes
      /\ UNCHANGED <<spc, got, totalRead, galLen>>
      /\ Msg("galKey") \in Seq(Unit)
      /\ ClientWrites(c, Msg("galKey"), "ack2")
  BY MsgFacts DEF ClientReadAck1, OverrunInv, control, memory
<1>2. OthersKeep(c)
  <2>1. \A d \in Clients \ {c} : toClient'[d] = toClient[d]
    BY <1>1, OwnRead DEF ClientReadAck1, ReadsAck
  <2> QED
    BY <1>1, <2>1, OwnWrite DEF OthersKeep
<1>3. ASSUME c = conn, InTurn(c), cpc'[c] # "gone"
      PROVE  InTurn(c)'
  <2>1. spc \notin {"obtain", "query", "ack"}
    BY <1>1, <1>3 DEF InTurn
  <2>2. CASE spc = "galKey"
    <3>1. SendsKey(c) /\ got = <<>>
      BY <1>1, <1>3, <2>2 DEF InTurn, OverrunInv, ServedInv
    <3>2. toServer[c] = <<>> /\ totalRead = 0 /\ c \in open
      BY <1>1, <3>1 DEF SendsKey
    <3>3. cpc'[c] = "ack2" /\ toServer'[c] = toServer[c] \o Msg("galKey")
      BY <1>1, <1>3, <3>2, OwnWrite
    <3>4. toServer'[c] = Msg("galKey") /\ <<>> \o Msg("galKey") = Msg("galKey")
      BY <1>1, <3>2, <3>3, ConcatEmptySeq
    <3>5. got' \o toServer'[c] = Msg("galKey") /\ totalRead' = Len(got')
      BY <1>1, <3>1, <3>2, <3>4, EmptySeq
    <3>6. toClient'[c] = <<>>
      <4>1. toClient[c] = Msg("ACK")
        BY <1>1, <3>1 DEF SendsKey
      <4>2. PICK n \in ReadLengths(toClient[c], Ample(toClient[c])) : ClientTakes(c, n)
        BY <3>2 DEF ClientReadAck1, ReadsAck, ClientAtEnd
      <4>3. toClient'[c] = Rest(toClient[c], n)
        BY <1>1, <4>2, OwnRead
      <4> QED
        BY <4>1, <4>2, <4>3, WholeRead DEF AckIsWhole
    <3> QED
      BY <1>1, <1>3, <2>2, <3>3, <3>5, <3>6 DEF InTurn
  <2>3. CASE spc # "galKey"
    BY <1>1, <2>1, <2>3 DEF InTurn
  <2> QED
    BY <2>2, <2>3
<1> QED
  BY <1>1, <1>2, <1>3, TurnClientFrame

\* The ACK of the key is the only thing to read, and lets the request go.
LEMMA TurnReadAck2 ==
    ASSUME AckIsWhole, OverrunInv, TurnInv, NEW c \in Clients, ClientReadAck2(c)
    PROVE  TurnInv'
<1> USE DEF FixedKinds, ClientPcs
<1>1. /\ cpc[c] = "ack2" /\ UNCHANGED <<control, memory>> /\ StreamTypes
      /\ UNCHANGED <<spc, got, totalRead, galLen>>
      /\ Msg("OBTAIN") \in Seq(Unit)
      /\ ClientWrites(c, Msg("OBTAIN"), "ads") \/ ClientGoesTo(c, "gone")
  BY MsgFacts DEF ClientReadAck2, OverrunInv, control, memory
<1>2. OthersKeep(c)
  <2>1. \A d \in Clients \ {c} : toClient'[d] = toClient[d]
    BY <1>1, OwnRead DEF ClientReadAck2, ReadsAck
  <2> QED
    BY <1>1, <2>1, OwnWrite DEF OthersKeep
<1>3. ASSUME c = conn, InTurn(c), cpc'[c] # "gone"
      PROVE  InTurn(c)'
  <2>1. spc \notin {"query", "ack"} /\ c \in open /\ toClient[c] \in Seq(Unit)
    BY <1>1, <1>3 DEF InTurn, TurnInv, StreamTypes
  <2>2. PICK n \in ReadLengths(toClient[c], Ample(toClient[c])) : ClientTakes(c, n)
    BY <2>1 DEF ClientReadAck2, ReadsAck, ClientAtEnd
  <2>3. toClient[c] # <<>> /\ toClient'[c] = Rest(toClient[c], n)
    BY <1>1, <2>2, OwnRead
  <2>4. spc # "galKey"
    BY <1>1, <1>3, <2>3 DEF InTurn
  <2>5. CASE spc = "obtain"
    <3>1. toServer[c] = <<>> /\ toClient[c] = Msg("ACK")
      BY <1>1, <1>3, <2>5 DEF InTurn
    <3>2. toClient'[c] = <<>>
      BY <2>2, <2>3, <3>1, WholeRead DEF AckIsWhole
    <3>3. cpc'[c] = "ads" /\ toServer'[c] = toServer[c] \o Msg("OBTAIN")
      BY <1>1, <1>3, <2>1, OwnWrite
    <3>4. toServer'[c] = Msg("OBTAIN")
      BY <1>1, <3>1, <3>3, ConcatEmptySeq
    <3> QED
      BY <1>1, <2>5, <3>2, <3>3, <3>4 DEF InTurn
  <2>6. CASE spc # "obtain"
    BY <1>1, <2>1, <2>4, <2>6 DEF InTurn
  <2> QED
    BY <2>5, <2>6
<1> QED
  BY <1>1, <1>2, <1>3, TurnClientFrame

\* The first ads are all there is to read; a client that takes fewer ends.
LEMMA TurnReadAds ==
    ASSUME OverrunInv, TurnInv, NEW c \in Clients, ClientReadAds(c)
    PROVE  TurnInv'
<1> USE DEF FixedKinds, ClientPcs
<1>1. /\ cpc[c] = "ads" /\ UNCHANGED <<control, memory>> /\ StreamTypes
      /\ UNCHANGED <<spc, got, totalRead, galLen>>
      /\ \E next \in {"prompt", "gone"} : ClientGoesTo(c, next)
  BY DEF ClientReadAds, OverrunInv, control, memory
<1>2. /\ UNCHANGED toServer /\ cpc'[c] \in {"prompt", "gone"}
      /\ OthersKeep(c)
  <2>1. \A d \in Clients \ {c} : toClient'[d] = toClient[d]
    BY <1>1, OwnRead DEF ClientReadAds
  <2> QED
    BY <1>1, <2>1 DEF OthersKeep, ClientGoesTo, StreamTypes
<1>3. ASSUME c = conn, InTurn(c), cpc'[c] # "gone"
      PROVE  InTurn(c)'
  <2>1. /\ spc # "ack" /\ c \in open /\ toClient[c] \in Seq(Unit)
        /\ cpc'[c] = "prompt"
    BY <1>1, <1>2, <1>3 DEF InTurn, TurnInv, StreamTypes
  <2>2. PICK n \in ReadLengths(toClient[c], Ample(toClient[c])) :
                 /\ ClientTakes(c, n)
                 /\ ClientGoesTo(c, IF n >= Size["ads"] THEN "prompt" ELSE "gone")
    BY <2>1 DEF ClientReadAds, ClientAtEnd
  <2>3. /\ toClient[c] # <<>> /\ toClient'[c] = Rest(toClient[c], n)
        /\ n \in 1 .. Len(toClient[c])
    BY <1>1, <2>2, OwnRead
  <2>4. spc \notin {"galKey", "obtain"}
    BY <1>1, <1>3, <2>3 DEF OverrunInv, ServedInv, SendsKey, InTurn
  <2>5. CASE spc = "query"
    <3>1. got = <<>> /\ toServer[c] = <<>> /\ toClient[c] = Msg("ads")
      BY <1>1, <1>3, <2>5 DEF InTurn
    <3>2. n >= Size["ads"]
      BY <1>1, <2>1, <2>2 DEF ClientGoesTo, StreamTypes
    <3>3. Len(toClient[c]) = Size["ads"] /\ Size["ads"] \in Nat
      BY <3>1, MsgFacts
    <3>4. n = Len(toClient[c])
      BY <2>3, <3>2, <3>3
    <3>5. toClient'[c] = <<>>
      BY <2>1, <2>3, <3>4, RestFacts
    <3> QED
      BY <1>1, <1>2, <2>1, <2>5, <3>1, <3>5 DEF InTurn
  <2>6. CASE spc # "query"
    BY <1>1, <2>1, <2>4, <2>6 DEF InTurn
  <2> QED
    BY <2>5, <2>6
<1> QED
  BY <1>1, <1>2, <1>3, TurnClientFrame

\* A query is written to an empty stream and an empty buffer.
LEMMA TurnClick ==
    ASSUME OverrunInv, TurnInv, NEW c \in Clients, Click(c)
    PROVE  TurnInv'
<1> USE DEF FixedKinds, ClientPcs
<1>1. /\ cpc[c] = "prompt" /\ UNCHANGED <<control, memory, toClient>> /\ StreamTypes
      /\ UNCHANGED <<spc, got, totalRead, galLen>>
  BY DEF Click, OverrunInv, control, memory
<1>2. PICK ad \in Ads : WritesQuery(c, ad) \/ QueryFails(c, ad)
  BY DEF Click
<1>3. \/ ClientGoesTo(c, "gone")
      \/ \E n \in QuerySizes : ClientWrites(c, Units("query", ad, n), "size")
  BY <1>2 DEF WritesQuery, QueryFails
<1>4. \A n \in QuerySizes : n \in Nat /\ Units("query", ad, n) \in Seq(Unit)
  BY UnitsFacts, SessionAssumption DEF Kinds
<1>5. OthersKeep(c)
  <2>1. \A d \in Clients \ {c} : cpc'[d] = cpc[d] /\ toServer'[d] = toServer[d]
    <3>1. CASE ClientGoesTo(c, "gone")
      BY <1>1, <3>1 DEF ClientGoesTo, StreamTypes
    <3>2. ASSUME NEW n \in QuerySizes, ClientWrites(c, Units("query", ad, n), "size")
          PROVE  <2>1
      BY <1>1, <1>4, <3>2, OwnWrite
    <3> QED
      BY <1>3, <3>1, <3>2
  <2> QED
    BY <1>1, <2>1 DEF OthersKeep
<1>6. ASSUME c = conn, InTurn(c), cpc'[c] # "gone"
      PROVE  InTurn(c)'
  <2>1. c \in open /\ spc \notin {"galKey", "obtain", "ack"}
    BY <1>1, <1>6 DEF InTurn, TurnInv, OverrunInv, ServedInv, SendsKey
  <2>2. CASE spc = "query"
    <3>1. got = <<>> /\ toServer[c] = <<>> /\ toClient[c] = <<>>
      BY <1>1, <1>6, <2>2 DEF InTurn
    <3>2. PICK n \in QuerySizes : ClientWrites(c, Units("query", ad, n), "size")
      BY <1>1, <1>3, <1>6 DEF ClientGoesTo, StreamTypes
    <3>3. cpc'[c] = "size" /\ toServer'[c] = toServer[c] \o Units("query", ad, n)
      BY <1>1, <1>4, <1>6, <2>1, <3>2, OwnWrite
    <3>4. got' \o toServer'[c] = Units("query", ad, n)
      <4>1. toServer'[c] = Units("query", ad, n)
        BY <1>4, <3>1, <3>3, ConcatEmptySeq
      <4>2. <<>> \o Units("query", ad, n) = Units("query", ad, n)
        BY <1>4, ConcatEmptySeq
      <4> QED
        BY <1>1, <3>1, <4>1, <4>2
    <3>5. QuerySplit(c)'
      BY <3>4 DEF QuerySplit
    <3>6. FullReads'
      <4>1. Len(got') = 0 /\ 0 = 0 * Buf /\ 0 \in Nat
        BY <1>1, <3>1, EmptySeq, SessionAssumption
      <4> QED
        BY <4>1 DEF FullReads
    <3> QED
      BY <1>1, <2>2, <3>1, <3>3, <3>5, <3>6 DEF InTurn
  <2>3. CASE spc # "query"
    BY <1>1, <2>1, <2>3 DEF InTurn
  <2> QED
    BY <2>2, <2>3
<1> QED
  BY <1>1, <1>5, <1>6, TurnClientFrame

\* The size is acknowledged when a part of it has been read.
LEMMA TurnReadSize ==
    ASSUME OverrunInv, TurnInv, NEW c \in Clients, ClientReadSize(c)
    PROVE  TurnInv'
<1> USE DEF FixedKinds, ClientPcs
<1>1. /\ cpc[c] = "size" /\ UNCHANGED <<control, memory>> /\ StreamTypes
      /\ UNCHANGED <<spc, got, totalRead, galLen>>
      /\ \/ \E next \in {"reply", "gone"} : ClientWrites(c, Msg("ACK"), next)
         \/ ClientGoesTo(c, "gone")
      /\ Msg("ACK") \in Seq(Unit) /\ Msg("size") \in Seq(Unit)
  BY MsgFacts DEF ClientReadSize, OverrunInv, control, memory
<1>2. OthersKeep(c)
  <2>1. \A d \in Clients \ {c} : toClient'[d] = toClient[d]
    BY <1>1, OwnRead DEF ClientReadSize
  <2> QED
    BY <1>1, <2>1, OwnWrite DEF OthersKeep
<1>3. ASSUME c = conn, InTurn(c), cpc'[c] # "gone"
      PROVE  InTurn(c)'
  <2>1. c \in open /\ toClient[c] \in Seq(Unit) /\ spc \notin {"galKey", "obtain"}
    BY <1>1, <1>3 DEF InTurn, TurnInv, StreamTypes, OverrunInv, ServedInv, SendsKey
  <2>2. PICK n \in ReadLengths(toClient[c], Size["size"]) : ClientTakes(c, n)
    BY <2>1 DEF ClientReadSize, ClientAtEnd
  <2>3. /\ toClient[c] # <<>> /\ toClient'[c] = Rest(toClient[c], n)
        /\ n \in 1 .. Len(toClient[c])
    BY <1>1, <2>1, <2>2, OwnRead
  <2>4. spc # "query"
    BY <1>1, <1>3, <2>3 DEF InTurn
  <2>5. CASE spc = "ack"
    <3>1. toServer[c] = <<>> /\ toClient[c] = Msg("size")
      BY <1>1, <1>3, <2>5 DEF InTurn
    <3>2. toClient'[c] # <<>> => Head(toClient'[c]).kind = "size"
      <4>1. toClient'[c] # <<>> => /\ n + 1 \in 1 .. Len(Msg("size"))
                                   /\ Head(toClient'[c]) = Msg("size")[n + 1]
        BY <1>1, <2>3, <3>1, RestHead
      <4> QED
        BY <4>1, MsgFacts
    <3>3. cpc'[c] = "reply" /\ toServer'[c] = toServer[c] \o Msg("ACK")
      BY <1>1, <1>3, <2>1, OwnWrite
    <3>4. toServer'[c] = Msg("ACK")
      BY <1>1, <3>1, <3>3, ConcatEmptySeq
    <3> QED
      BY <1>1, <2>5, <3>2, <3>3, <3>4 DEF InTurn, SizeLeft
  <2>6. CASE spc # "ack"
    BY <1>1, <2>1, <2>4, <2>6 DEF InTurn
  <2> QED
    BY <2>5, <2>6
<1> QED
  BY <1>1, <1>2, <1>3, TurnClientFrame

\* A reply read whole leaves nothing on the way; one cut ends the client.
LEMMA TurnReadReply ==
    ASSUME OverrunInv, TurnInv, NEW c \in Clients, ClientReadReply(c)
    PROVE  TurnInv'
<1> USE DEF FixedKinds, ClientPcs
<1>1. /\ cpc[c] = "reply" /\ UNCHANGED <<control, memory>> /\ StreamTypes
      /\ UNCHANGED <<spc, got, totalRead, galLen>>
      /\ \E next \in {"prompt", "gone"} : ClientGoesTo(c, next)
  BY DEF ClientReadReply, OverrunInv, control, memory
<1>2. /\ UNCHANGED toServer /\ cpc'[c] \in {"prompt", "gone"}
      /\ OthersKeep(c)
  <2>1. \A d \in Clients \ {c} : toClient'[d] = toClient[d]
    BY <1>1, OwnRead DEF ClientReadReply
  <2> QED
    BY <1>1, <2>1 DEF OthersKeep, ClientGoesTo, StreamTypes
<1>3. ASSUME c = conn, InTurn(c), cpc'[c] # "gone"
      PROVE  InTurn(c)'
  <2>1. /\ c \in open /\ toClient[c] \in Seq(Unit) /\ cpc'[c] = "prompt"
        /\ spc \notin {"galKey", "obtain"}
    BY <1>1, <1>2, <1>3 DEF InTurn, TurnInv, StreamTypes, OverrunInv, ServedInv, SendsKey
  <2>2. PICK n \in ReadLengths(toClient[c], Size["reply"]) :
            /\ ClientTakes(c, n)
            /\ \/ Taken(toClient[c], n) = Units("reply", toClient[c][1].item, Size["reply"])
               \/ ClientGoesTo(c, "gone")
    BY <2>1 DEF ClientReadReply, ClientAtEnd
  <2>3. /\ toClient[c] # <<>> /\ toClient'[c] = Rest(toClient[c], n)
        /\ n \in 1 .. Len(toClient[c])
    BY <1>1, <2>2, OwnRead
  <2>4. Taken(toClient[c], n) = Units("reply", toClient[c][1].item, Size["reply"])
    BY <1>1, <2>1, <2>2 DEF ClientGoesTo, StreamTypes
  <2>5. /\ toClient[c][1].item \in Ads \cup {NoAd}
        /\ Len(Units("reply", toClient[c][1].item, Size["reply"])) = Size["reply"]
        /\ Units("reply", toClient[c][1].item, Size["reply"])[1].kind = "reply"
    <3>1. toClient[c][1] \in Unit
      BY <2>1, <2>3, ElementOfSeq, LenProperties
    <3>2. PICK ad \in Ads \cup {NoAd} : ad = toClient[c][1].item
      BY <3>1 DEF Unit
    <3>3. PICK m \in Nat : m = Size["reply"] /\ 1 \in 1 .. m
      BY SessionAssumption
    <3>4. "reply" \in Kinds
      BY DEF Kinds
    <3>5. /\ Len(Units("reply", ad, m)) = m
          /\ Units("reply", ad, m)[1].kind = "reply"
      <4>1. Len(Units("reply", ad, m)) = m
        BY <3>4, UnitsFacts
      <4>2. Units("reply", ad, m)[1].kind = "reply"
        BY <3>3 DEF Units
      <4> QED
        BY <4>1, <4>2
    <3>6. Units("reply", toClient[c][1].item, Size["reply"]) = Units("reply", ad, m)
      BY <3>2, <3>3
    <3> QED
      BY <3>2, <3>3, <3>5, <3>6, Zenon
  <2>6. Len(Taken(toClient[c], n)) = n
    BY <2>1, <2>3, TakenLength
  <2>7. ~ SizeLeft(c)
    <3>1. /\ \A i \in 1 .. n : toClient[c][i] \in Unit
          /\ 1 \in 1 .. n
      BY <2>1, <2>3, ElementOfSeq, LenProperties
    <3>2. Taken(toClient[c], n)[1] = toClient[c][1]
      BY <2>1, <2>3, <3>1, SubSeqProperties, LenProperties DEF Taken
    <3>3. Head(toClient[c]) = toClient[c][1]
      BY <2>1, <2>3, HeadTailProperties
    <3> QED
      BY <2>4, <2>5, <3>2, <3>3 DEF SizeLeft
  <2>8. spc # "ack"
    BY <1>1, <1>3, <2>3, <2>7 DEF InTurn
  <2>9. CASE spc = "query"
    <3>1. got = <<>> /\ toServer[c] = <<>> /\ Len(toClient[c]) = Size["reply"]
      BY <1>1, <1>3, <2>7, <2>9 DEF InTurn
    <3>2. toClient'[c] = <<>>
      BY <2>1, <2>3, <2>4, <2>5, <2>6, <3>1, RestFacts
    <3> QED
      BY <1>1, <1>2, <2>1, <2>9, <3>1, <3>2 DEF InTurn
  <2>10. CASE spc # "query"
    BY <1>1, <2>1, <2>8, <2>10 DEF InTurn
  <2> QED
    BY <2>9, <2>10
<1> QED
  BY <1>1, <1>2, <1>3, TurnClientFrame

LEMMA TurnLeave ==
    ASSUME OverrunInv, TurnInv, NEW c \in Clients, Leave(c)
    PROVE  TurnInv'
<1>1. /\ cpc[c] # "gone" /\ UNCHANGED <<control, memory, toServer, toClient>>
      /\ cpc' = [cpc EXCEPT ![c] = "gone"]
  BY DEF Leave, ClientGoesTo
<1>2. OthersKeep(c) /\ cpc'[c] = "gone"
  BY <1>1 DEF OthersKeep, OverrunInv, StreamTypes
<1> QED
  BY <1>1, <1>2, TurnClientFrame

\* A client that connects is not the one served.
LEMMA TurnConnect ==
    ASSUME OverrunInv, TurnInv, NEW c \in Clients, ClientConnect(c)
    PROVE  TurnInv'
<1>1. /\ conn # c /\ open \subseteq open' /\ UNCHANGED <<spc, conn, memory, toClient>>
  BY DEF ClientConnect, OverrunInv, BacklogInv
<1>2. \A d \in Clients \ {c} : cpc'[d] = cpc[d] /\ toServer'[d] = toServer[d]
  BY DEF ClientConnect, ClientGoesTo, OverrunInv, StreamTypes
<1> QED
  BY <1>1, <1>2 DEF TurnInv, InTurn, SizeLeft, QuerySplit, FullReads, memory

\* What a step of the server leaves to show: the turn of the client it serves,
\* if that client runs and the server goes on with it.
LEMMA TurnServerFrame ==
    ASSUME TurnInv, NEW c \in Clients, conn = c, UNCHANGED <<cpc, open>>,
           conn' \in {c, NoClient},
           conn' = c /\ cpc[c] # "gone" /\ InTurn(c) => InTurn(c)'
    PROVE  TurnInv'
  BY SessionAssumption DEF TurnInv

LEMMA TurnDies ==
    ASSUME Dies
    PROVE  TurnInv'
  BY SessionAssumption DEF Dies, TurnInv

\* The server reads what its client has written, and keeps or ends the rest.
LEMMA ServedRead ==
    ASSUME StreamTypes, conn \in Clients, NEW limit,
           NEW n \in ReadLengths(toServer[conn], limit), ServerTakes(n)
    PROVE  /\ toServer[conn] \in Seq(Unit) /\ toServer[conn] # <<>>
           /\ n \in 1 .. Len(toServer[conn]) /\ n <= limit
           /\ toServer'[conn] = Rest(toServer[conn], n)
<1>1. toServer[conn] \in Seq(Unit)
  BY DEF StreamTypes
<1>2. n \in 1 .. Len(toServer[conn]) /\ n <= limit /\ toServer[conn] # <<>>
  BY <1>1, ReadLengthsFacts
<1> QED
  BY <1>1, <1>2, ServerTakesFacts

LEMMA TurnAccept ==
    ASSUME OverrunInv, TurnInv, ServerAccept
    PROVE  TurnInv'
<1>1. /\ backlog # <<>> /\ conn' = Head(backlog) /\ spc' = "connect"
      /\ UNCHANGED <<open, cpc>> /\ backlog \in Seq(Clients)
  BY DEF ServerAccept, clientVars, OverrunInv, StreamTypes
<1>2. /\ Len(backlog) \in Nat /\ 1 \in 1 .. Len(backlog) /\ conn' = backlog[1]
  BY <1>1, HeadTailProperties, EmptySeq, LenProperties
<1>3. conn' \in open
  BY <1>2 DEF OverrunInv, BacklogInv, Waiting, Fresh
<1> QED
  BY <1>1, <1>3 DEF TurnInv, InTurn

LEMMA TurnReadConnect ==
    ASSUME OverrunInv, TurnInv, ServerReadConnect
    PROVE  TurnInv'
<1>1. conn \in Clients /\ UNCHANGED cpc
  BY DEF ServerReadConnect, OverrunInv, ServedInv, clientVars
<1>2. WrongRequest \/ ServerSends(Msg("params"), "galLen")
  BY DEF ServerReadConnect
<1>3. CASE WrongRequest
  BY <1>3, SessionAssumption DEF WrongRequest, TurnInv
<1>4. CASE ServerSends(Msg("params"), "galLen") /\ ~ Dies
  <2>1. spc' = "galLen" /\ UNCHANGED <<conn, open>>
    BY <1>4 DEF ServerSends
  <2> QED
    BY <1>1, <2>1, TurnServerFrame DEF InTurn
<1> QED
  BY <1>2, <1>3, <1>4, TurnDies

\* The buffer of the key is empty when its length has been read.
LEMMA TurnReadGalLen ==
    ASSUME OpeningIsWhole, OverrunInv, TurnInv, ServerReadGalLen
    PROVE  TurnInv'
<1>1. /\ conn \in Clients /\ UNCHANGED cpc /\ got' = <<>> /\ SendsGalLen(conn)
      /\ Dies \/ ServerSends(Msg("ACK"), "galKey")
  BY DEF ServerReadGalLen, OverrunInv, ServedInv, clientVars
<1>2. CASE ServerSends(Msg("ACK"), "galKey") /\ ~ Dies
  <2>1. /\ spc' = "galKey" /\ UNCHANGED <<conn, open>> /\ totalRead' = 0
        /\ Size["galKey"] \in Nat \ {0}
    BY <1>2, SessionAssumption DEF ServerSends, Dies, ServerReadGalLen, FixedKinds
  <2>2. galLen' = Size["galKey"]
    BY <1>1, <2>1, ServerReadGalLenStep DEF OverrunInv, ServedInv, SendsKey
  <2> QED
    BY <1>1, <2>1, <2>2, TurnServerFrame DEF InTurn, SendsGalLen
<1> QED
  BY <1>1, <1>2, TurnDies

\* The key gathered and the key on its way are one key, until it is stored.
LEMMA TurnReadGalKey ==
    ASSUME TypeInv, OverrunInv, TurnInv, ServerReadGalKey
    PROVE  TurnInv'
<1> USE DEF FixedKinds
<1>1. /\ conn \in Clients /\ UNCHANGED <<cpc, galLen>> /\ spc = "galKey" /\ StreamTypes
      /\ SendsKey(conn) /\ galLen = Size["galKey"] /\ got \in Seq(Unit)
      /\ Msg("galKey") \in Seq(Unit) /\ Len(Msg("galKey")) = galLen
      /\ Msg("ACK") \in Seq(Unit)
  BY MsgFacts
  DEF ServerReadGalKey, OverrunInv, ServedInv, clientVars, SendsKey, TypeInv, MemoryTypes
<1>2. CASE KeyAtEnd
  <2>1. cpc[conn] = "gone" /\ (Dies \/ UNCHANGED <<conn, open>>)
    BY <1>2 DEF KeyAtEnd, ServerAtEnd, ServerReset, GoesTo
  <2> QED
    BY <1>1, <2>1, TurnServerFrame, TurnDies
<1>3. ASSUME NEW n \in ReadLengths(toServer[conn], galLen), ServerTakes(n),
             totalRead' = totalRead + n,
             got' = got \o Taken(toServer[conn], n),
             KeyIncomplete \/ KeyComplete
      PROVE  TurnInv'
  <2>1. /\ toServer[conn] \in Seq(Unit) /\ toServer[conn] # <<>>
        /\ n \in 1 .. Len(toServer[conn])
        /\ toServer'[conn] = Rest(toServer[conn], n)
    BY <1>1, <1>3, ServedRead
  <2>2. CASE Dies
    BY <2>2, TurnDies
  <2>3. CASE ~ Dies
    <3>1. UNCHANGED <<conn, open>>
      BY <1>3, <2>3 DEF KeyIncomplete, KeyComplete, GoesTo, ServerSends
    <3>2. ASSUME cpc[conn] # "gone", InTurn(conn)
          PROVE  InTurn(conn)'
      <4>1. cpc[conn] = "ack2" /\ toClient[conn] = <<>>
        BY <1>1, <2>1, <3>2 DEF SendsKey, InTurn
      <4>2. got \o toServer[conn] = Msg("galKey") /\ totalRead = Len(got)
        BY <1>1, <3>2, <4>1 DEF InTurn
      <4>3. /\ got' \in Seq(Unit)
            /\ got' \o toServer'[conn] = Msg("galKey")
            /\ totalRead' = Len(got')
        <5> DEFINE more == got \o Taken(toServer[conn], n)
        <5>1. /\ more \in Seq(Unit) /\ Len(more) = Len(got) + n
              /\ more \o Rest(toServer[conn], n) = got \o toServer[conn]
          BY <1>1, <2>1, SplitRead, Zenon
        <5>2. got' = more
          BY <1>3
        <5> HIDE DEF more
        <5> QED
          BY <1>3, <2>1, <4>2, <5>1, <5>2
      <4>4. CASE KeyIncomplete
        <5>1. spc' = "galKey" /\ totalRead' < galLen' /\ toClient' = toClient
          BY <1>1, <4>4 DEF KeyIncomplete, GoesTo
        <5> QED
          BY <1>1, <3>1, <4>1, <4>3, <5>1 DEF InTurn
      <4>5. CASE KeyComplete
        <5>1. /\ spc' = "obtain" /\ totalRead' >= galLen
              /\ toClient'[conn] = toClient[conn] \o Msg("ACK")
          BY <1>1, <2>3, <4>5, ServerSendsFacts DEF KeyComplete
        <5>2. toClient'[conn] = Msg("ACK")
          BY <1>1, <4>1, <5>1, ConcatEmptySeq
        <5>3. toServer'[conn] = <<>>
          <6>1. toServer'[conn] \in Seq(Unit)
            BY <2>1, RestFacts
          <6>2. /\ Len(got') \in Nat /\ Len(toServer'[conn]) \in Nat
                /\ Len(got') + Len(toServer'[conn]) = galLen
            BY <1>1, <4>3, <6>1, ConcatProperties, LenProperties
          <6>3. Len(toServer'[conn]) = 0
            BY <4>3, <5>1, <6>2
          <6> QED
            BY <6>1, <6>3, EmptySeq
        <5> QED
          BY <1>1, <3>1, <4>1, <5>1, <5>2, <5>3 DEF InTurn
      <4> QED
        BY <1>3, <4>4, <4>5
    <3> QED
      BY <1>1, <3>1, <3>2, TurnServerFrame
  <2> QED
    BY <2>2, <2>3
<1> QED
  BY <1>2, <1>3, TurnDies DEF ServerReadGalKey, KeyDamaged, KeyEmpty

\* The request is read whole, or ends the process.
LEMMA TurnReadObtain ==
    ASSUME OverrunInv, TurnInv, ServerReadObtain
    PROVE  TurnInv'
<1> USE DEF FixedKinds
<1>1. /\ conn \in Clients /\ UNCHANGED cpc /\ spc = "obtain" /\ StreamTypes
      /\ got' = <<>>
      /\ Msg("ads") \in Seq(Unit) /\ Msg("OBTAIN") \in Seq(Unit)
  BY MsgFacts DEF ServerReadObtain, OverrunInv, ServedInv, clientVars
<1>2. ASSUME NEW n \in ReadLengths(toServer[conn], Size["OBTAIN"]), ServerTakes(n),
             Taken(toServer[conn], n) = Msg("OBTAIN"),
             ServerSends(Msg("ads"), "query"), ~ Dies
      PROVE  TurnInv'
  <2>1. /\ toServer[conn] \in Seq(Unit) /\ toServer[conn] # <<>>
        /\ n \in 1 .. Len(toServer[conn])
        /\ toServer'[conn] = Rest(toServer[conn], n)
    BY <1>1, <1>2, ServedRead
  <2>2. /\ spc' = "query" /\ UNCHANGED <<conn, open>>
        /\ toClient'[conn] = toClient[conn] \o Msg("ads")
    BY <1>1, <1>2, ServerSendsFacts
  <2>3. ASSUME cpc[conn] # "gone", InTurn(conn)
        PROVE  InTurn(conn)'
    <3>1. cpc[conn] = "ads" /\ toServer[conn] = Msg("OBTAIN") /\ toClient[conn] = <<>>
      BY <1>1, <2>1, <2>3 DEF InTurn
    <3>2. n = Len(toServer[conn])
      BY <1>2, <2>1, <3>1, TakenLength
    <3>3. toServer'[conn] = <<>> /\ toClient'[conn] = Msg("ads")
      BY <1>1, <2>1, <2>2, <3>1, <3>2, RestFacts, ConcatEmptySeq
    <3> QED
      BY <1>1, <2>2, <3>1, <3>3 DEF InTurn
  <2> QED
    BY <1>1, <2>2, <2>3, TurnServerFrame
<1> QED
  BY <1>2, TurnDies DEF ServerReadObtain

\* The bytes gathered load when nothing of the query is on its way any more.
LEMMA LoadsWhole ==
    ASSUME NEW ad \in Ads, NEW m \in Nat, NEW s \in Seq(Unit), NEW t \in Seq(Unit),
           s \o t = Units("query", ad, m), Loads(s)
    PROVE  t = <<>>
<1>1. PICK k \in 1 .. Len(s) : s[k].left = 0
  BY DEF Loads
<1>2. /\ Len(s) \in Nat /\ Len(t) \in Nat /\ Len(s) + Len(t) = m
      /\ (s \o t)[k] = s[k]
  <2>1. /\ Len(s) \in Nat /\ Len(t) \in Nat
        /\ Len(s \o t) = Len(s) + Len(t)
        /\ (s \o t)[k] = s[k]
    BY ConcatProperties, LenProperties
  <2>2. Len(Units("query", ad, m)) = m
    BY UnitsFacts DEF Kinds
  <2> QED
    BY <2>1, <2>2
<1>3. \A i \in 1 .. m : Units("query", ad, m)[i].left = m - i
  BY DEF Units
<1>4. k \in 1 .. m /\ m - k = 0
  BY <1>1, <1>2, <1>3
<1>5. Len(t) = 0
  BY <1>2, <1>4
<1> QED
  BY <1>5, EmptySeq

\* Bytes that are a whole query load.
LEMMA WholeLoads ==
    ASSUME NEW ad \in Ads, NEW m \in Nat \ {0}
    PROVE  Loads(Units("query", ad, m))
<1>0. "query" \in Kinds /\ ad \in Ads \cup {NoAd} /\ m \in Nat
  BY DEF Kinds
<1>1. /\ Len(Units("query", ad, m)) = m
      /\ \A i \in 1 .. m : Units("query", ad, m)[i].kind = "query"
  BY <1>0, UnitsFacts
<1>2. Units("query", ad, m)[m].left = 0
  BY DEF Units
<1> QED
  BY <1>1, <1>2 DEF Loads

\* A full buffer is gathered, a short one is the end of the query.
LEMMA TurnReadQuery ==
    ASSUME TypeInv, OverrunInv, TurnInv, ServerReadQuery
    PROVE  TurnInv'
<1> USE DEF FixedKinds
<1>1. /\ conn \in Clients /\ UNCHANGED cpc /\ spc = "query" /\ StreamTypes
      /\ got \in Seq(Unit) /\ Msg("size") \in Seq(Unit)
  BY MsgFacts
  DEF ServerReadQuery, OverrunInv, ServedInv, clientVars, TypeInv, MemoryTypes
<1>2. CASE QueryAtEnd
  <2>1. /\ cpc[conn] = "gone"
        /\ Dies \/ ServerSends(Msg("size"), "ack")
    BY <1>2, AnswersFacts DEF QueryAtEnd, ServerAtEnd, ServerReset
  <2> QED
    BY <1>1, <2>1, TurnServerFrame, TurnDies DEF ServerSends
<1>3. ASSUME NEW n \in ReadLengths(toServer[conn], Buf), ServerTakes(n),
             got' = got \o Taken(toServer[conn], n),
             \/ n = Buf /\ GoesTo("query")
             \/ Loads(got') /\ ServerSends(Msg("size"), "ack"),
             ~ Dies
      PROVE  TurnInv'
  <2>1. /\ toServer[conn] \in Seq(Unit) /\ toServer[conn] # <<>>
        /\ n \in 1 .. Len(toServer[conn])
        /\ toServer'[conn] = Rest(toServer[conn], n)
        /\ toServer'[conn] \in Seq(Unit)
    BY <1>1, <1>3, ServedRead, RestFacts
  <2>2. UNCHANGED <<conn, open>>
    BY <1>3 DEF GoesTo, ServerSends
  <2>3. ASSUME cpc[conn] # "gone", InTurn(conn)
        PROVE  InTurn(conn)'
    <3>1. /\ cpc[conn] = "size" /\ QuerySplit(conn) /\ FullReads
          /\ toClient[conn] = <<>>
      BY <1>1, <2>1, <2>3 DEF InTurn
    <3>2. PICK ad \in Ads, m \in QuerySizes : got \o toServer[conn] = Units("query", ad, m)
      BY <3>1 DEF QuerySplit
    <3>3. /\ got' \in Seq(Unit) /\ Len(got') = Len(got) + n
          /\ got' \o toServer'[conn] = Units("query", ad, m)
      <4> DEFINE more == got \o Taken(toServer[conn], n)
      <4>1. /\ more \in Seq(Unit) /\ Len(more) = Len(got) + n
            /\ more \o Rest(toServer[conn], n) = got \o toServer[conn]
        BY <1>1, <2>1, SplitRead, Zenon
      <4>2. got' = more
        BY <1>3
      <4> HIDE DEF more
      <4> QED
        BY <2>1, <3>2, <4>1, <4>2
    <3>4. CASE n = Buf /\ GoesTo("query")
      <4>1. QuerySplit(conn)'
        BY <2>2, <3>3 DEF QuerySplit
      <4>2. FullReads'
        <5>1. PICK k \in Nat : Len(got) = k * Buf
          BY <3>1 DEF FullReads
        <5>2. Len(got') = (k + 1) * Buf /\ k + 1 \in Nat
          BY <3>3, <3>4, <5>1, SessionAssumption
        <5> QED
          BY <5>2 DEF FullReads
      <4> QED
        BY <1>1, <2>2, <3>1, <3>4, <4>1, <4>2 DEF InTurn, GoesTo
    <3>5. CASE Loads(got') /\ ServerSends(Msg("size"), "ack")
      <4>1. m \in Nat
        BY SessionAssumption
      <4>2. toServer'[conn] = <<>>
        BY <2>1, <3>3, <3>5, <4>1, LoadsWhole
      <4>3. spc' = "ack" /\ toClient'[conn] = toClient[conn] \o Msg("size")
        BY <1>1, <1>3, <3>5, ServerSendsFacts
      <4>4. toClient'[conn] = Msg("size")
        BY <1>1, <3>1, <4>3, ConcatEmptySeq
      <4> QED
        BY <1>1, <2>2, <3>1, <4>2, <4>3, <4>4 DEF InTurn
    <3> QED
      BY <1>3, <3>4, <3>5
  <2> QED
    BY <1>1, <2>2, <2>3, TurnServerFrame
<1>4. ASSUME NEW bytes, Answers(bytes)
      PROVE  Dies \/ (Loads(bytes) /\ ServerSends(Msg("size"), "ack"))
  BY <1>4 DEF Answers
<1> QED
  BY <1>2, <1>3, <1>4, TurnDies DEF ServerReadQuery

\* The ACK is read, and the reply alone is on its way.
LEMMA TurnReadAck ==
    ASSUME AckIsWhole, TypeInv, OverrunInv, TurnInv, ServerReadAck
    PROVE  TurnInv'
<1> USE DEF FixedKinds
<1> DEFINE reply == Units("reply", answer, Size["reply"])
<1>1. /\ conn \in Clients /\ UNCHANGED cpc /\ spc = "ack" /\ StreamTypes
      /\ got' = <<>> /\ ServerSends(reply, "query")
      /\ toServer[conn] \in Seq(Unit)
  BY DEF ServerReadAck, OverrunInv, ServedInv, clientVars, StreamTypes
<1>2. reply \in Seq(Unit) /\ Len(reply) = Size["reply"]
  <2>1. answer \in Ads \cup {NoAd} /\ Size["reply"] \in Nat /\ "reply" \in Kinds
    BY SessionAssumption DEF TypeInv, MemoryTypes, Kinds
  <2> QED
    BY <2>1, UnitsFacts
<1> HIDE DEF reply
<1>3. CASE ~ Dies
  <2>1. /\ spc' = "query" /\ UNCHANGED <<conn, open>>
        /\ toClient'[conn] = toClient[conn] \o reply
    BY <1>1, <1>2, <1>3, ServerSendsFacts
  <2>2. ASSUME cpc[conn] # "gone", InTurn(conn)
        PROVE  InTurn(conn)'
    <3>1. PICK n \in ReadLengths(toServer[conn], Size["ACK"]) : ServerTakes(n)
      BY <2>2 DEF ServerReadAck, ServerAtEnd
    <3>2. /\ toServer[conn] # <<>> /\ n \in 1 .. Len(toServer[conn])
          /\ toServer'[conn] = Rest(toServer[conn], n)
      BY <1>1, <3>1, ServedRead
    <3>3. /\ cpc[conn] = "reply" /\ toServer[conn] = Msg("ACK")
          /\ toClient[conn] = <<>> \/ SizeLeft(conn)
      BY <1>1, <2>2, <3>2 DEF InTurn
    <3>4. toServer'[conn] = <<>>
      <4>1. "ACK" \in FixedKinds /\ Size["ACK"] = Ample(Msg("ACK"))
        BY MsgFacts DEF Ample
      <4> QED
        BY <3>1, <3>2, <3>3, <4>1, WholeRead DEF AckIsWhole
    <3>5. Len(toClient'[conn]) = Size["reply"] \/ SizeLeft(conn)'
      <4>1. CASE toClient[conn] = <<>>
        BY <1>2, <2>1, <4>1, ConcatEmptySeq
      <4>2. CASE SizeLeft(conn)
        <5>1. toClient[conn] \in Seq(Unit) /\ toClient[conn] # <<>>
          BY <1>1, <4>2 DEF StreamTypes, SizeLeft
        <5>2. /\ toClient'[conn] # <<>>
              /\ Head(toClient'[conn]) = Head(toClient[conn])
          BY <1>2, <2>1, <5>1, ConcatProperties, HeadTailProperties, EmptySeq, LenProperties
        <5> QED
          BY <2>1, <4>2, <5>2 DEF SizeLeft
      <4> QED
        BY <3>3, <4>1, <4>2
    <3> QED
      BY <1>1, <2>1, <3>3, <3>4, <3>5 DEF InTurn
  <2> QED
    BY <1>1, <2>1, <2>2, TurnServerFrame
<1> QED
  BY <1>3, TurnDies

LEMMA TurnStep ==
    ASSUME OpeningIsWhole, AckIsWhole
    PROVE  TypeInv /\ OverrunInv /\ TurnInv /\ [Next]_vars => TurnInv'
<1> SUFFICES ASSUME TypeInv, OverrunInv, TurnInv, [Next]_vars PROVE TurnInv'
  OBVIOUS
<1>1. CASE ServerStep
  BY <1>1, TurnAccept, TurnReadConnect, TurnReadGalLen, TurnReadGalKey,
     TurnReadObtain, TurnReadQuery, TurnReadAck
  DEF ServerStep
<1>2. CASE ServerCrash
  BY <1>2, TurnDies DEF ServerCrash
<1>3. CASE ServerRestart
  BY <1>3 DEF ServerRestart, clientVars, TurnInv, InTurn
<1>4. ASSUME NEW c \in Clients,
             ClientStep(c) \/ ClientConnect(c) \/ Click(c) \/ Leave(c)
      PROVE  TurnInv'
  BY <1>4, TurnReadParams, TurnReadAck1, TurnReadAck2, TurnReadAds, TurnReadSize,
     TurnReadReply, TurnConnect, TurnClick, TurnLeave
  DEF ClientStep
<1>5. CASE UNCHANGED vars
  BY <1>5
  DEF vars, control, memory, clientVars, TurnInv, InTurn, SizeLeft, QuerySplit, FullReads
<1> QED
  BY <1>1, <1>2, <1>3, <1>4, <1>5 DEF Next

LEMMA TurnInit == Init => TurnInv
  BY SessionAssumption DEF Init, TurnInv

\* main_server.cpp:402-409 ends the query at the first read that does not fill
\* the buffer: the server and a running client wait for each other only over
\* a query that ends with a full one, whoever crashes or leaves and however
\* the key, the query, its size, the reply and the ads are cut.
THEOREM StallOnlyAtFullBufferAlways ==
    ASSUME OpeningIsWhole, AckIsWhole
    PROVE  Spec => []StallOnlyAtFullBuffer
<1>1. TypeInv /\ OverrunInv /\ [Next]_vars => OverrunInv'
  BY OverrunStep
<1>2. TypeInv /\ OverrunInv /\ TurnInv => StallOnlyAtFullBuffer
  <2> SUFFICES ASSUME TypeInv, OverrunInv, TurnInv, NEW c \in Clients, MutualWait(c)
               PROVE  spc = "query" /\ Loads(got) /\ Len(got) % Buf = 0
    BY DEF StallOnlyAtFullBuffer, StalledAtFullBuffer
  <2> USE DEF FixedKinds
  <2>1. /\ conn = c /\ cpc[c] \notin {"off", "prompt", "gone"}
        /\ toServer[c] = <<>> /\ toClient[c] = <<>>
        /\ spc \in {"connect", "galLen", "galKey", "obtain", "query", "ack"}
        /\ InTurn(c) /\ got \in Seq(Unit)
    BY DEF MutualWait, TurnInv, TypeInv, MemoryTypes
  <2>2. \A kind \in FixedKinds : Msg(kind) # <<>>
    BY MsgFacts, EmptySeq
  <2>3. spc \notin {"connect", "galLen"}
    BY <2>1, <2>2 DEF OverrunInv, ServedInv, Fresh, SendsGalLen
  <2>4. spc # "galKey"
    <3> SUFFICES ASSUME spc = "galKey" PROVE FALSE
      OBVIOUS
    <3>1. SendsKey(c)
      BY <2>1 DEF OverrunInv, ServedInv
    <3>2. cpc[c] = "ack2" /\ galLen = Size["galKey"]
      BY <2>1, <2>2, <3>1 DEF SendsKey
    <3>3. got \o <<>> = Msg("galKey") /\ totalRead = Len(got) /\ totalRead < galLen
      BY <2>1, <3>2 DEF InTurn
    <3>4. Len(got) = Size["galKey"] /\ Size["galKey"] \in Nat
      BY <2>1, <3>3, ConcatEmptySeq, MsgFacts
    <3> QED
      BY <3>2, <3>3, <3>4
  <2>5. Len(toClient[c]) = 0 /\ Len(toServer[c]) = 0 /\ Size["reply"] # 0
    BY <2>1, EmptySeq, SessionAssumption
  <2>6. spc = "query" /\ QuerySplit(c) /\ FullReads
    BY <2>1, <2>2, <2>3, <2>4, <2>5 DEF InTurn, SizeLeft
  <2>7. Loads(got)
    <3>1. PICK ad \in Ads, n \in QuerySizes : got \o <<>> = Units("query", ad, n)
      BY <2>1, <2>6 DEF QuerySplit
    <3>2. got = Units("query", ad, n) /\ n \in Nat \ {0}
      BY <2>1, <3>1, ConcatEmptySeq, SessionAssumption
    <3> QED
      BY <3>2, WholeLoads
  <2>8. Len(got) % Buf = 0
    <3>1. PICK k \in Nat : Len(got) = k * Buf
      BY <2>6 DEF FullReads
    <3>2. Buf \in Nat \ {0}
      BY SessionAssumption
    <3>3. (k * Buf) % Buf = 0
      BY <3>2
    <3> QED
      BY <3>1, <3>3
  <2> QED
    BY <2>6, <2>7, <2>8
<1> QED
  BY <1>1, <1>2, OverrunInit, TurnInit, TurnStep, SessionTypeInv, PTL DEF Spec


-----------------------------------------------------------------------------
(* The conversation implements AdService.  The invariant.                  *)

Carries(s, kind) == \E i \in 1 .. Len(s) : s[i].kind = kind

\* The server has answered the connect of c, and serves no other.
Held(c) == conn = c /\ spc \notin {"accept", "connect"}

\* A connection that is open and not held has been told nothing.
HoldInv ==
    /\ spc = "down" => open = {}
    /\ spc = "accept" => conn = NoClient
    /\ conn \in Clients => conn \in open
    /\ \A i \in 1 .. Len(backlog) : backlog[i] \in open
    /\ \A c \in Clients : cpc[c] = "off" => c \notin open /\ toClient[c] = <<>>
    /\ \A c \in open : ~ Held(c) => cpc[c] \in {"params", "gone"} /\ toClient[c] = <<>>

\* Parameters, and behind them one ACK at most, or what is left of it.
OneAckLast(s) ==
    \A i \in 1 .. Len(s) : \/ s[i].kind = "params"
                           \/ /\ Len(s) - i < Size["ACK"]
                              /\ \A j \in i .. Len(s) : s[j].kind = "ACK"

\* The rest of an ACK of which something was read.
AckLeft(s) == /\ Len(s) < Size["ACK"]
              /\ \A i \in 1 .. Len(s) : s[i].kind = "ACK"

\* While the key of c is not stored, one ACK at most is on its way to c, behind
\* what is left of the parameters; c may have taken it for the second one, but
\* then there is only the rest of that ACK to read until the key is stored.
BeforeKey(c) ==
    /\ OneAckLast(toClient[c])
    /\ cpc[c] \notin {"prompt", "size", "reply"}
    /\ cpc[c] = "ads" => AckLeft(toClient[c])
    /\ conn = c /\ spc = "galLen" => ~ Carries(toClient[c], "ACK") /\ cpc[c] # "ads"

KeyInv ==
    /\ spc \in {"obtain", "query", "ack"} => key0 = conn /\ conn \in keyed
    /\ \A c \in Clients \ keyed : BeforeKey(c)

\* The query that c waits for is the only one in these bytes, and ends them if
\* it ends in them.
QueryOf(c, s) ==
    \A i \in 1 .. Len(s) :
        s[i].kind = "query" => /\ s[i].item = asked[c]
                               /\ s[i].left = 0 => i = Len(s)

Complete(s) == \E i \in 1 .. Len(s) : s[i].kind = "query" /\ s[i].left = 0

NoAnswer(c) == ~ Carries(toClient[c], "size") /\ ~ Carries(toClient[c], "reply")

\* No query of c is under way.
Idle(c) ==
    /\ ~ Carries(toServer[c], "query")
    /\ NoAnswer(c)
    /\ conn = c => spc # "ack" /\ (spc = "query" => ~ Carries(got, "query"))

\* The query is, and its size has not been sent.
Asking(c) ==
    /\ QueryOf(c, toServer[c])
    /\ NoAnswer(c)
    /\ conn = c => /\ spc # "ack"
                   /\ spc = "query" => /\ QueryOf(c, got)
                                       /\ Complete(got) => toServer[c] = <<>>

\* The size is on its way, behind what is left of the first ads.
Sized(c) ==
    /\ ~ Carries(toClient[c], "reply")
    /\ conn = c => spc = "ack" /\ answer = asked[c] /\ toServer[c] = <<>>

\* The ACK of the size is, and all that was sent to c was read.
Acked(c) ==
    /\ toClient[c] = <<>>
    /\ ~ Carries(toServer[c], "query")
    /\ conn = c => spc = "ack" /\ answer = asked[c]

\* The reply is, and nothing else; some of the ACK may not have been read.
Replied(c) ==
    /\ toClient[c] = Units("reply", asked[c], Size["reply"])
    /\ ~ Carries(toServer[c], "query")
    /\ conn = c => spc = "query" /\ ~ Carries(got, "query")

\* What c took for the size was not all of it: something else will be read for
\* the reply, and end it.
Misled(c) ==
    IF toClient[c] = <<>>
    THEN conn = c => spc # "ack"
    ELSE toClient[c][1].kind # "reply"

Talk(c) ==
    /\ cpc[c] \notin {"size", "reply", "gone"} => Idle(c)
    /\ cpc[c] = "size" => Asking(c) \/ Sized(c)
    /\ cpc[c] = "reply" => Acked(c) \/ Replied(c) \/ Misled(c)

TalkInv == \A c \in Clients : Talk(c)

ServiceInv == HoldInv /\ KeyInv /\ TalkInv

-----------------------------------------------------------------------------
(* The units of what is written, taken and left.                           *)

LEMMA RestUnits ==
    ASSUME NEW s \in Seq(Unit), NEW n \in 1 .. Len(s)
    PROVE  \A i \in 1 .. Len(Rest(s, n)) : i + n \in 1 .. Len(s) /\ Rest(s, n)[i] = s[i + n]
<1>1. Len(s) \in Nat /\ n \in Nat /\ n + 1 \in Nat
  BY LenProperties
<1>2. \A i \in n + 1 .. Len(s) : s[i] \in Unit
  BY <1>1, ElementOfSeq
<1>3. /\ Len(Rest(s, n)) = Len(s) - n
      /\ \A i \in 1 .. Len(s) - n : Rest(s, n)[i] = s[n + 1 + i - 1]
  BY <1>1, <1>2, SubSeqProperties DEF Rest
<1> QED
  BY <1>1, <1>3

LEMMA TakenUnits ==
    ASSUME NEW s \in Seq(Unit), NEW n \in 1 .. Len(s)
    PROVE  /\ Len(Taken(s, n)) = n
           /\ \A i \in 1 .. n : i \in 1 .. Len(s) /\ Taken(s, n)[i] = s[i]
<1>1. Len(s) \in Nat /\ n \in Nat
  BY LenProperties
<1>2. \A i \in 1 .. n : s[i] \in Unit
  BY <1>1, ElementOfSeq
<1>3. /\ Len(Taken(s, n)) = n
      /\ \A i \in 1 .. n : Taken(s, n)[i] = s[1 + i - 1]
  BY <1>1, <1>2, SubSeqProperties DEF Taken
<1> QED
  BY <1>1, <1>3

LEMMA JoinedUnits ==
    ASSUME NEW s \in Seq(Unit), NEW t \in Seq(Unit)
    PROVE  /\ Len(s \o t) = Len(s) + Len(t)
           /\ Len(s) \in Nat /\ Len(t) \in Nat
           /\ \A i \in 1 .. Len(s \o t) :
                  \/ i \in 1 .. Len(s) /\ (s \o t)[i] = s[i]
                  \/ i - Len(s) \in 1 .. Len(t) /\ (s \o t)[i] = t[i - Len(s)]
<1>1. /\ Len(s \o t) = Len(s) + Len(t)
      /\ Len(s) \in Nat /\ Len(t) \in Nat
      /\ \A i \in 1 .. Len(s) + Len(t) :
             (s \o t)[i] = IF i <= Len(s) THEN s[i] ELSE t[i - Len(s)]
  BY ConcatProperties, LenProperties
<1> QED
  BY <1>1

\* What is missing from a stream is missing from what is left of it.
LEMMA CarriesRest ==
    ASSUME NEW s \in Seq(Unit), NEW n \in 1 .. Len(s), NEW kind,
           ~ Carries(s, kind)
    PROVE  ~ Carries(Rest(s, n), kind) /\ ~ Carries(Taken(s, n), kind)
  BY RestUnits, TakenUnits DEF Carries

LEMMA QueryOfRest ==
    ASSUME NEW c \in Clients, NEW s \in Seq(Unit), NEW n \in 1 .. Len(s), QueryOf(c, s)
    PROVE  QueryOf(c, Rest(s, n))
<1>1. /\ Len(s) \in Nat /\ Len(Rest(s, n)) = Len(s) - n
      /\ \A i \in 1 .. Len(Rest(s, n)) : i + n \in 1 .. Len(s) /\ Rest(s, n)[i] = s[i + n]
  BY RestUnits, RestFacts, LenProperties
<1> QED
  BY <1>1 DEF QueryOf

LEMMA OneAckLastRest ==
    ASSUME NEW s \in Seq(Unit), NEW n \in 1 .. Len(s), OneAckLast(s)
    PROVE  OneAckLast(Rest(s, n))
<1>1. /\ Len(s) \in Nat /\ Len(Rest(s, n)) = Len(s) - n
      /\ \A i \in 1 .. Len(Rest(s, n)) : i + n \in 1 .. Len(s) /\ Rest(s, n)[i] = s[i + n]
  BY RestUnits, RestFacts, LenProperties
<1> QED
  BY <1>1 DEF OneAckLast

LEMMA OneAckLastJoined ==
    ASSUME NEW s \in Seq(Unit), NEW t \in Seq(Unit), Len(t) = Size["ACK"],
           \A i \in 1 .. Len(s) : s[i].kind = "params",
           \A i \in 1 .. Len(t) : t[i].kind = "ACK"
    PROVE  OneAckLast(s \o t)
<1> DEFINE u == s \o t
<1>1. /\ Len(u) = Len(s) + Len(t) /\ Len(s) \in Nat /\ Len(t) \in Nat
      /\ \A i \in 1 .. Len(s) + Len(t) :
             u[i] = IF i <= Len(s) THEN s[i] ELSE t[i - Len(s)]
  BY ConcatProperties, LenProperties
<1> HIDE DEF u
<1>2. ASSUME NEW i \in 1 .. Len(u), i <= Len(s) PROVE u[i].kind = "params"
  BY <1>1, <1>2
<1>3. ASSUME NEW i \in 1 .. Len(u), i > Len(s)
      PROVE  /\ Len(u) - i < Size["ACK"]
             /\ \A j \in i .. Len(u) : u[j].kind = "ACK"
  <2>1. Len(u) - i < Len(t) /\ i \in Nat
    BY <1>1, <1>3
  <2>2. ASSUME NEW j \in i .. Len(u) PROVE u[j].kind = "ACK"
    <3>1. j \in 1 .. Len(s) + Len(t) /\ ~ j <= Len(s) /\ j - Len(s) \in 1 .. Len(t)
      BY <1>1, <1>3, <2>1
    <3>2. u[j] = t[j - Len(s)]
      BY <1>1, <3>1
    <3> QED
      BY <3>1, <3>2
  <2> QED
    BY <2>1, <2>2
<1>4. OneAckLast(u)
  BY <1>1, <1>2, <1>3 DEF OneAckLast
<1> QED
  BY <1>4 DEF u

LEMMA CarriesJoined ==
    ASSUME NEW s \in Seq(Unit), NEW t \in Seq(Unit), NEW kind,
           ~ Carries(s, kind), ~ Carries(t, kind)
    PROVE  ~ Carries(s \o t, kind)
  BY JoinedUnits DEF Carries

LEMMA CarriesMsg ==
    ASSUME NEW kind \in FixedKinds, NEW other \in Kinds, other # kind
    PROVE  ~ Carries(Msg(kind), other)
  BY MsgFacts DEF Carries

\* What is appended does not change how a stream begins.
LEMMA JoinedHead ==
    ASSUME NEW s \in Seq(Unit), NEW t \in Seq(Unit)
    PROVE  /\ s # <<>> => s \o t # <<>> /\ (s \o t)[1] = s[1]
           /\ s = <<>> => s \o t = t
<1>1. /\ Len(s \o t) = Len(s) + Len(t)
      /\ Len(s) \in Nat /\ Len(t) \in Nat /\ Len(<<>>) = 0
      /\ \A i \in 1 .. Len(s) + Len(t) :
             (s \o t)[i] = IF i <= Len(s) THEN s[i] ELSE t[i - Len(s)]
  BY ConcatProperties, LenProperties, EmptySeq
<1>2. ASSUME s # <<>> PROVE s \o t # <<>> /\ (s \o t)[1] = s[1]
  <2>1. Len(s) # 0
    BY <1>2, EmptySeq
  <2> QED
    BY <1>1, <2>1
<1> QED
  BY <1>2, ConcatEmptySeq

LEMMA CarriesNone ==
    ASSUME NEW kind
    PROVE  ~ Carries(<<>>, kind)
  BY EmptySeq DEF Carries

-----------------------------------------------------------------------------
(* What a step leaves to show.                                             *)

OtherStreamsKeep(c) ==
    \A d \in Clients \ {c} : /\ cpc'[d] = cpc[d] /\ asked'[d] = asked[d]
                             /\ toServer'[d] = toServer[d]
                             /\ toClient'[d] = toClient[d]

\* A client that has nothing of its own to do with a step keeps what holds of it.
LEMMA OtherTalk ==
    ASSUME NEW d \in Clients, Talk(d),
           conn' # d \/ (conn' = conn /\ spc' = spc /\ got' = got /\ answer' = answer),
           cpc'[d] = cpc[d], asked'[d] = asked[d],
           toServer'[d] = toServer[d], toClient'[d] = toClient[d]
    PROVE  Talk(d)'
<1>1. Idle(d) => Idle(d)'
  BY DEF Idle, NoAnswer, Carries
<1>2. Asking(d) => Asking(d)'
  BY DEF Asking, NoAnswer, Carries, QueryOf, Complete
<1>3. Sized(d) => Sized(d)'
  BY DEF Sized, Carries
<1>4. Acked(d) => Acked(d)'
  BY DEF Acked, Carries
<1>5. Replied(d) => Replied(d)'
  BY DEF Replied, Carries
<1>6. Misled(d) => Misled(d)'
  BY DEF Misled
<1> QED
  BY <1>1, <1>2, <1>3, <1>4, <1>5, <1>6 DEF Talk

\* Nothing that the server sends sets a misled client right.
LEMMA MisledKept ==
    ASSUME TypeInv, NEW c \in Clients, Misled(c), UNCHANGED cpc,
           NEW t \in Seq(Unit), t # <<>>, conn = c,
           spc # "ack" => t[1].kind # "reply",
           toClient'[c] = toClient[c] \o t
    PROVE  Misled(c)'
<1>1. toClient[c] \in Seq(Unit)
  BY DEF TypeInv, ControlTypes
<1> QED
  BY <1>1, JoinedHead DEF Misled

LEMMA OtherBeforeKey ==
    ASSUME NEW d \in Clients, BeforeKey(d),
           conn' # d \/ (conn' = conn /\ spc' = spc),
           cpc'[d] = cpc[d], toClient'[d] = toClient[d]
    PROVE  BeforeKey(d)'
  BY DEF BeforeKey, Carries, OneAckLast, AckLeft

\* A step of one client, connected before: its own connection.
LEMMA ServiceClientFrame ==
    ASSUME TypeInv, ServiceInv, NEW c \in Clients,
           UNCHANGED <<control, memory, keyed>>,
           OtherStreamsKeep(c),
           cpc'[c] # "off",
           c \in open => Held(c) \/ (cpc'[c] \in {"params", "gone"} /\ toClient'[c] = <<>>),
           c \notin keyed => BeforeKey(c)',
           Talk(c)'
    PROVE  ServiceInv'
<1>1. /\ UNCHANGED <<spc, conn, backlog, open, got, key0, answer, keyed>>
      /\ Held(c)' = Held(c)
      /\ open \subseteq Clients
  BY DEF control, memory, Held, TypeInv, ControlTypes
<1>2. HoldInv'
  BY <1>1 DEF ServiceInv, HoldInv, Held, OtherStreamsKeep
<1>3. KeyInv'
  <2>1. \A d \in Clients \ keyed : BeforeKey(d)'
    BY <1>1, OtherBeforeKey DEF ServiceInv, KeyInv, OtherStreamsKeep
  <2> QED
    BY <1>1, <2>1 DEF ServiceInv, KeyInv
<1>4. TalkInv'
  BY <1>1, OtherTalk DEF ServiceInv, TalkInv, OtherStreamsKeep
<1> QED
  BY <1>2, <1>3, <1>4 DEF ServiceInv

\* A step of the server that leaves its process up: the connection it serves.
LEMMA ServiceServerFrame ==
    ASSUME TypeInv, ServiceInv, NEW c \in Clients, conn = c,
           UNCHANGED <<clientVars, backlog, open>>,
           OtherStreamsKeep(c),
           spc' # "down",
           conn' = IF spc' = "accept" THEN NoClient ELSE c,
           keyed \subseteq keyed', keyed' \subseteq keyed \cup {c},
           c \in open => Held(c)' \/ (cpc[c] \in {"params", "gone"} /\ toClient'[c] = <<>>),
           cpc[c] = "off" => toClient'[c] = <<>>,
           spc' \in {"obtain", "query", "ack"} => key0' = c /\ c \in keyed',
           c \notin keyed' => BeforeKey(c)',
           Talk(c)'
    PROVE  ServiceInv'
<1>1. /\ UNCHANGED <<cpc, asked, backlog, open>>
      /\ \A d \in Clients \ {c} : conn # d /\ conn' # d
      /\ NoClient \notin Clients /\ open \subseteq Clients
  BY SessionAssumption DEF clientVars, TypeInv, ControlTypes
<1>2. HoldInv'
  <2>1. \A d \in open : ~ Held(d)' => cpc[d] \in {"params", "gone"} /\ toClient'[d] = <<>>
    BY <1>1 DEF ServiceInv, HoldInv, Held, OtherStreamsKeep
  <2> QED
    BY <1>1, <2>1 DEF ServiceInv, HoldInv, OtherStreamsKeep
<1>3. KeyInv'
  <2>1. \A d \in Clients \ keyed' : BeforeKey(d)'
    BY <1>1, OtherBeforeKey DEF ServiceInv, KeyInv, OtherStreamsKeep
  <2> QED
    BY <1>1, <2>1 DEF ServiceInv, KeyInv
<1>4. TalkInv'
  BY <1>1, OtherTalk DEF ServiceInv, TalkInv, OtherStreamsKeep
<1> QED
  BY <1>2, <1>3, <1>4 DEF ServiceInv

\* What the connection served loses when the process ends, after one more read
\* of it at most, is only what the server would have done next.
LEMMA ServiceDiesStep ==
    ASSUME TypeInv, ServiceInv, Dies, UNCHANGED clientVars,
           keyed \subseteq keyed', keyed' \subseteq Clients,
           \/ UNCHANGED toServer
           \/ conn \in Clients /\ \E n \in 1 .. Len(toServer[conn]) : ServerTakes(n)
    PROVE  ServiceInv'
<1>1. /\ spc' = "down" /\ conn' = NoClient /\ backlog' = <<>> /\ open' = {}
      /\ UNCHANGED <<toClient, cpc, asked>>
      /\ NoClient \notin Clients
      /\ Len(backlog') = 0
  BY EmptySeq, SessionAssumption DEF Dies, clientVars
<1>2. HoldInv'
  BY <1>1 DEF ServiceInv, HoldInv
<1>3. KeyInv'
  <2>1. \A d \in Clients \ keyed' : BeforeKey(d)'
    BY <1>1, OtherBeforeKey DEF ServiceInv, KeyInv
  <2> QED
    BY <1>1, <2>1 DEF KeyInv
<1>4. ASSUME NEW d \in Clients
      PROVE  Talk(d)'
  <2>1. CASE toServer'[d] = toServer[d]
    BY <1>1, <2>1, OtherTalk DEF ServiceInv, TalkInv
  <2>2. CASE toServer'[d] # toServer[d]
    <3>1. PICK n \in 1 .. Len(toServer[d]) : toServer'[d] = Rest(toServer[d], n)
      BY <2>2, ServerTakesFacts, TypeInvTypes
    <3>2. toServer[d] \in Seq(Unit) /\ toServer[d] # <<>>
      BY <3>1, EmptySeq, LenProperties DEF TypeInv
    <3>3. Idle(d) => Idle(d)'
      <4>1. ~ Carries(toServer[d], "query") => ~ Carries(Rest(toServer[d], n), "query")
        BY <3>2, CarriesRest
      <4> QED
        BY <1>1, <3>1, <4>1 DEF Idle, NoAnswer, Carries
    <3>4. Asking(d) => Asking(d)'
      <4>1. QueryOf(d, toServer[d]) => QueryOf(d, toServer[d])'
        <5>1. QueryOf(d, toServer[d]) => QueryOf(d, Rest(toServer[d], n))
          BY <3>2, QueryOfRest
        <5> QED
          BY <1>1, <3>1, <5>1 DEF QueryOf
      <4> QED
        BY <1>1, <4>1 DEF Asking, NoAnswer, Carries
    <3>5. Sized(d) => Sized(d)'
      BY <1>1 DEF Sized, Carries
    <3>6. (Acked(d) => Acked(d)') /\ (Replied(d) => Replied(d)')
      <4>1. ~ Carries(toServer[d], "query") => ~ Carries(Rest(toServer[d], n), "query")
        BY <3>2, CarriesRest
      <4> QED
        BY <1>1, <3>1, <4>1 DEF Acked, Replied, Carries
    <3>7. Misled(d) => Misled(d)'
      BY <1>1 DEF Misled
    <3> QED
      BY <1>1, <3>3, <3>4, <3>5, <3>6, <3>7 DEF ServiceInv, TalkInv, Talk
  <2> QED
    BY <2>1, <2>2
<1> QED
  BY <1>2, <1>3, <1>4 DEF ServiceInv, TalkInv

-----------------------------------------------------------------------------
(* Steps of a client.                                                      *)

\* What a read or a write of a client does to its own streams.
ReadsOwn(c) ==
    \/ toClient'[c] = toClient[c]
    \/ \E n \in 1 .. Len(toClient[c]) : toClient'[c] = Rest(toClient[c], n)

WritesOwn(c, message) ==
    \/ toServer'[c] = toServer[c]
    \/ c \in open /\ toServer'[c] = toServer[c] \o message

LEMMA ClientReads ==
    ASSUME TypeInv, NEW c \in Clients, NEW limit,
           NEW n \in ReadLengths(toClient[c], limit), ClientTakes(c, n)
    PROVE  /\ toClient[c] \in Seq(Unit) /\ toClient[c] # <<>>
           /\ n \in 1 .. Len(toClient[c]) /\ n <= limit
           /\ toClient'[c] = Rest(toClient[c], n)
           /\ ReadsOwn(c)
           /\ \A d \in Clients \ {c} : toClient'[d] = toClient[d]
<1>1. StreamTypes /\ toClient[c] \in Seq(Unit)
  BY TypeInvTypes DEF StreamTypes
<1>2. n \in 1 .. Len(toClient[c]) /\ toClient[c] # <<>> /\ n <= limit
  BY <1>1, ReadLengthsFacts
<1> QED
  BY <1>1, <1>2, ClientTakesFacts DEF ReadsOwn

LEMMA ClientWritesOwn ==
    ASSUME TypeInv, NEW c \in Clients, NEW message \in Seq(Unit), NEW next \in ClientPcs,
           ClientWrites(c, message, next) \/ ClientGoesTo(c, next)
    PROVE  /\ WritesOwn(c, message)
           /\ cpc'[c] \in {next, "gone"}
           /\ c \in open /\ ClientWrites(c, message, next) =>
                  cpc'[c] = next /\ toServer'[c] = toServer[c] \o message
           /\ \A d \in Clients \ {c} : cpc'[d] = cpc[d] /\ toServer'[d] = toServer[d]
<1>1. StreamTypes
  BY TypeInvTypes
<1> QED
  BY <1>1 DEF StreamTypes, WritesOwn, ClientWrites, ClientGoesTo

LEMMA IdleKept ==
    ASSUME TypeInv, NEW c \in Clients, Idle(c), UNCHANGED <<control, memory>>,
           ReadsOwn(c),
           \/ toServer'[c] = toServer[c]
           \/ \E kind \in FixedKinds : WritesOwn(c, Msg(kind))
    PROVE  Idle(c)'
<1>1. toServer[c] \in Seq(Unit) /\ toClient[c] \in Seq(Unit)
  BY DEF TypeInv, ControlTypes
<1>2. \A n \in 1 .. Len(toClient[c]) : /\ ~ Carries(Rest(toClient[c], n), "size")
                                       /\ ~ Carries(Rest(toClient[c], n), "reply")
  BY <1>1, CarriesRest DEF Idle, NoAnswer
<1>3. \A kind \in FixedKinds : ~ Carries(toServer[c] \o Msg(kind), "query")
  <2>1. "query" \in Kinds /\ "query" \notin FixedKinds
    BY DEF Kinds, FixedKinds
  <2>2. \A kind \in FixedKinds : Msg(kind) \in Seq(Unit) /\ ~ Carries(Msg(kind), "query")
    BY <2>1, MsgFacts, CarriesMsg
  <2> QED
    BY <1>1, <2>2, CarriesJoined DEF Idle
<1>4. ~ Carries(toServer[c], "query")' /\ NoAnswer(c)'
  BY <1>2, <1>3 DEF Idle, NoAnswer, Carries, ReadsOwn, WritesOwn
<1> QED
  BY <1>4 DEF Idle, Carries, control, memory

LEMMA BeforeKeyKept ==
    ASSUME TypeInv, NEW c \in Clients, BeforeKey(c), UNCHANGED control,
           ReadsOwn(c),
           cpc'[c] \in {"off", "params", "ack1", "ack2", "gone"}
    PROVE  BeforeKey(c)'
<1>1. toClient[c] \in Seq(Unit)
  BY DEF TypeInv, ControlTypes
<1>2. ASSUME NEW n \in 1 .. Len(toClient[c])
      PROVE  /\ OneAckLast(Rest(toClient[c], n))
             /\ ~ Carries(toClient[c], "ACK") => ~ Carries(Rest(toClient[c], n), "ACK")
  BY <1>1, CarriesRest, OneAckLastRest DEF BeforeKey
<1>3. /\ OneAckLast(toClient'[c])
      /\ ~ Carries(toClient[c], "ACK") => ~ Carries(toClient'[c], "ACK")
  BY <1>2 DEF BeforeKey, ReadsOwn
<1> QED
  BY <1>3 DEF BeforeKey, OneAckLast, Carries, AckLeft, control

LEMMA ReadsKeepEmpty ==
    ASSUME NEW c \in Clients, ReadsOwn(c), toClient[c] = <<>>
    PROVE  toClient'[c] = <<>>
  BY EmptySeq DEF ReadsOwn

\* The end of a client, whatever it did last: nobody reads what it wrote.
LEMMA GoneStep ==
    ASSUME TypeInv, ServiceInv, NEW c \in Clients,
           UNCHANGED <<control, memory, keyed>>,
           OtherStreamsKeep(c), ReadsOwn(c),
           cpc'[c] = "gone", cpc[c] # "off"
    PROVE  ServiceInv'
<1>1. c \in open => Held(c) \/ toClient'[c] = <<>>
  BY ReadsKeepEmpty DEF ServiceInv, HoldInv
<1>2. c \notin keyed => BeforeKey(c)'
  BY BeforeKeyKept DEF ServiceInv, KeyInv
<1>3. Talk(c)'
  BY DEF Talk
<1> QED
  BY <1>1, <1>2, <1>3, ServiceClientFrame

\* A step of the set-up that writes a message of it.
LEMMA SetupStep ==
    ASSUME TypeInv, ServiceInv, NEW c \in Clients,
           UNCHANGED <<control, memory, keyed>>,
           OtherStreamsKeep(c), ReadsOwn(c),
           \E kind \in FixedKinds : WritesOwn(c, Msg(kind)),
           cpc[c] \in {"params", "ack1"},
           cpc'[c] \in {"ack1", "ack2"},
           cpc[c] = "ack1" \/ toClient[c] # <<>>
    PROVE  ServiceInv'
<1>1. c \in open => Held(c)
  BY DEF ServiceInv, HoldInv
<1>2. c \notin keyed => BeforeKey(c)'
  BY BeforeKeyKept DEF ServiceInv, KeyInv
<1>3. Talk(c)'
  BY IdleKept DEF ServiceInv, TalkInv, Talk
<1> QED
  BY <1>1, <1>2, <1>3, ServiceClientFrame

LEMMA ReadParamsStep ==
    ASSUME TypeInv, ServiceInv, NEW c \in Clients, ClientReadParams(c)
    PROVE  ServiceInv'
<1> USE DEF FixedKinds, ClientPcs
<1>1. cpc[c] = "params" /\ UNCHANGED <<control, memory, asked, keyed>>
  BY DEF ClientReadParams
<1>2. Msg("galLen") \in Seq(Unit)
  BY MsgFacts
<1>3. CASE ClientAtEnd(c) /\ ClientGoesTo(c, "gone") /\ UNCHANGED toClient
  BY <1>1, <1>2, <1>3, ClientWritesOwn, GoneStep DEF OtherStreamsKeep, ReadsOwn
<1>4. ASSUME NEW n \in ReadLengths(toClient[c], Ample(toClient[c])), ClientTakes(c, n),
             \/ ClientWrites(c, Msg("galLen"), "ack1")
             \/ ClientGoesTo(c, "gone")
      PROVE  ServiceInv'
  <2>1. /\ toClient[c] # <<>> /\ ReadsOwn(c)
        /\ \A d \in Clients \ {c} : toClient'[d] = toClient[d]
    BY <1>4, ClientReads
  <2>2. /\ cpc'[c] \in {"ack1", "gone"}
        /\ WritesOwn(c, Msg("galLen"))
        /\ \A d \in Clients \ {c} : cpc'[d] = cpc[d] /\ toServer'[d] = toServer[d]
    BY <1>2, <1>4, ClientWritesOwn
  <2> QED
    BY <1>1, <2>1, <2>2, SetupStep, GoneStep DEF OtherStreamsKeep
<1> QED
  BY <1>3, <1>4 DEF ClientReadParams

\* A read for an ACK sets the buffer only if the first unit there is is of one.
LEMMA ReadsAckFacts ==
    ASSUME TypeInv, NEW c \in Clients, ReadsAck(c)
    PROVE  /\ ReadsOwn(c)
           /\ \A d \in Clients \ {c} : toClient'[d] = toClient[d]
           /\ \/ /\ c \notin open
                 /\ toClient[c] = <<>> /\ toClient' = toClient
              \/ /\ toClient[c] # <<>>
                 /\ cbuf'[c] => toClient[c][1].kind = "ACK"
                 /\ \E n \in 1 .. Len(toClient[c]) : toClient'[c] = Rest(toClient[c], n)
<1>1. CASE ClientAtEnd(c) /\ UNCHANGED <<toClient, cbuf>>
  BY <1>1 DEF ClientAtEnd, ReadsOwn
<1>2. ASSUME NEW n \in ReadLengths(toClient[c], Ample(toClient[c])), ClientTakes(c, n),
             NEW seen, Head(toClient[c]) # Msg("ACK")[1] => seen = FALSE,
             cbuf' = [cbuf EXCEPT ![c] = seen]
      PROVE  /\ toClient[c] # <<>>
             /\ cbuf'[c] => toClient[c][1].kind = "ACK"
             /\ ReadsOwn(c)
             /\ \E m \in 1 .. Len(toClient[c]) : toClient'[c] = Rest(toClient[c], m)
             /\ \A d \in Clients \ {c} : toClient'[d] = toClient[d]
  <2>1. /\ toClient[c] # <<>> /\ toClient[c] \in Seq(Unit)
        /\ ReadsOwn(c)
        /\ n \in 1 .. Len(toClient[c]) /\ toClient'[c] = Rest(toClient[c], n)
        /\ \A d \in Clients \ {c} : toClient'[d] = toClient[d]
    BY <1>2, ClientReads
  <2>2. cbuf'[c] = seen
    BY <1>2 DEF TypeInv, ClientTypes
  <2>3. Head(toClient[c]) = toClient[c][1]
    BY <2>1, HeadTailProperties
  <2>4. Msg("ACK")[1].kind = "ACK"
    <3>1. "ACK" \in FixedKinds
      BY DEF FixedKinds
    <3>2. Size["ACK"] \in Nat \ {0} /\ \A i \in 1 .. Size["ACK"] : Msg("ACK")[i].kind = "ACK"
      BY <3>1, MsgFacts
    <3> QED
      BY <3>2
  <2>5. cbuf'[c] => toClient[c][1].kind = "ACK"
    BY <1>2, <2>2, <2>3, <2>4
  <2> QED
    BY <2>1, <2>5
<1>3. ASSUME NEW n \in ReadLengths(toClient[c], Ample(toClient[c])), ClientTakes(c, n),
             NEW seen \in IF Head(toClient[c]) # Msg("ACK")[1] THEN {FALSE}
                          ELSE IF n < Size["ACK"] THEN {TRUE, cbuf[c]} ELSE {TRUE},
             cbuf' = [cbuf EXCEPT ![c] = seen]
      PROVE  /\ toClient[c] # <<>>
             /\ cbuf'[c] => toClient[c][1].kind = "ACK"
             /\ ReadsOwn(c)
             /\ \E m \in 1 .. Len(toClient[c]) : toClient'[c] = Rest(toClient[c], m)
             /\ \A d \in Clients \ {c} : toClient'[d] = toClient[d]
  BY <1>2, <1>3
<1> QED
  BY <1>1, <1>3 DEF ReadsAck

LEMMA ReadAck1Step ==
    ASSUME TypeInv, ServiceInv, NEW c \in Clients, ClientReadAck1(c)
    PROVE  ServiceInv'
<1> USE DEF FixedKinds, ClientPcs
<1>1. cpc[c] = "ack1" /\ UNCHANGED <<control, memory, asked, keyed>>
  BY DEF ClientReadAck1
<1>2. ReadsOwn(c) /\ \A d \in Clients \ {c} : toClient'[d] = toClient[d]
  BY ReadsAckFacts DEF ClientReadAck1
<1>3. Msg("galKey") \in Seq(Unit)
  BY MsgFacts
<1>4. /\ cpc'[c] \in {"ack2", "gone"}
      /\ WritesOwn(c, Msg("galKey"))
      /\ \A d \in Clients \ {c} : cpc'[d] = cpc[d] /\ toServer'[d] = toServer[d]
  BY <1>3, ClientWritesOwn DEF ClientReadAck1
<1> QED
  BY <1>1, <1>2, <1>4, SetupStep, GoneStep DEF OtherStreamsKeep

\* "Setup done" on an ACK before the key is stored leaves less than an ACK to
\* read.
LEMMA ReadAck2Step ==
    ASSUME TypeInv, ServiceInv, NEW c \in Clients, ClientReadAck2(c)
    PROVE  ServiceInv'
<1> USE DEF FixedKinds, ClientPcs
<1>1. cpc[c] = "ack2" /\ UNCHANGED <<control, memory, asked, keyed>> /\ ReadsAck(c)
  BY DEF ClientReadAck2
<1>2. ReadsOwn(c) /\ \A d \in Clients \ {c} : toClient'[d] = toClient[d]
  BY <1>1, ReadsAckFacts
<1>3. Msg("OBTAIN") \in Seq(Unit)
  BY MsgFacts
<1>4. /\ cpc'[c] \in {"ads", "gone"} /\ (cpc'[c] = "ads" => cbuf'[c])
      /\ WritesOwn(c, Msg("OBTAIN"))
      /\ \A d \in Clients \ {c} : cpc'[d] = cpc[d] /\ toServer'[d] = toServer[d]
  BY <1>3, ClientWritesOwn DEF ClientReadAck2
<1>5. CASE cpc'[c] = "gone"
  BY <1>1, <1>2, <1>4, <1>5, GoneStep DEF OtherStreamsKeep
<1>6. CASE cpc'[c] = "ads"
  <2>1. Held(c) \/ c \notin open
    BY <1>1 DEF ServiceInv, HoldInv
  <2>2. Talk(c)'
    BY <1>1, <1>2, <1>4, <1>6, IdleKept DEF ServiceInv, TalkInv, Talk
  <2>3. ASSUME c \notin keyed PROVE BeforeKey(c)'
    <3>1. BeforeKey(c)
      BY <2>3 DEF ServiceInv, KeyInv
    <3>2. CASE c \notin open /\ toClient[c] = <<>> /\ toClient' = toClient
      <4>1. conn # c
        BY <3>2 DEF ServiceInv, HoldInv
      <4>2. AckLeft(<<>>)
        <5>1. Len(<<>>) = 0 /\ Size["ACK"] \in Nat \ {0}
          BY EmptySeq, SessionAssumption DEF FixedKinds
        <5> QED
          BY <5>1 DEF AckLeft
      <4> QED
        BY <1>1, <1>6, <3>1, <3>2, <4>1, <4>2 DEF BeforeKey, OneAckLast, AckLeft, control
    <3>3. ASSUME toClient[c][1].kind = "ACK", toClient[c] # <<>>,
                 NEW n \in 1 .. Len(toClient[c]), toClient'[c] = Rest(toClient[c], n)
          PROVE  BeforeKey(c)'
      <4>1. toClient[c] \in Seq(Unit) /\ Len(toClient[c]) \in Nat
        BY LenProperties DEF TypeInv, ControlTypes
      <4>2. /\ Len(toClient[c]) - 1 < Size["ACK"]
            /\ \A j \in 1 .. Len(toClient[c]) : toClient[c][j].kind = "ACK"
        <5>1. 1 \in 1 .. Len(toClient[c])
          BY <3>3, <4>1
        <5> QED
          BY <3>1, <3>3, <5>1 DEF BeforeKey, OneAckLast
      <4>3. AckLeft(Rest(toClient[c], n))
        <5>1. Len(Rest(toClient[c], n)) = Len(toClient[c]) - n
          BY <3>3, <4>1, RestFacts
        <5>2. \A i \in 1 .. Len(Rest(toClient[c], n)) : Rest(toClient[c], n)[i].kind = "ACK"
          BY <3>3, <4>1, <4>2, RestUnits
        <5>3. Size["ACK"] \in Nat
          BY SessionAssumption
        <5>4. Len(Rest(toClient[c], n)) < Size["ACK"]
          BY <3>3, <4>1, <4>2, <5>1, <5>3
        <5> QED
          BY <5>2, <5>4 DEF AckLeft
      <4>4. ~ (conn = c /\ spc = "galLen")
        <5>1. Carries(toClient[c], "ACK")
          BY <3>3, <4>1, <4>2 DEF Carries
        <5> QED
          BY <3>1, <5>1 DEF BeforeKey
      <4>5. OneAckLast(Rest(toClient[c], n))
        BY <3>1, <3>3, <4>1, OneAckLastRest DEF BeforeKey
      <4> QED
        BY <1>1, <1>6, <3>3, <4>3, <4>4, <4>5 DEF BeforeKey, OneAckLast, AckLeft, control
    <3> QED
      BY <1>1, <1>4, <1>6, <3>2, <3>3, ReadsAckFacts
  <2> QED
    BY <1>1, <1>2, <1>4, <1>6, <2>1, <2>2, <2>3, ServiceClientFrame DEF OtherStreamsKeep
<1> QED
  BY <1>4, <1>5, <1>6

LEMMA ReadAdsStep ==
    ASSUME TypeInv, ServiceInv, NEW c \in Clients, ClientReadAds(c)
    PROVE  ServiceInv' /\ (cpc'[c] = "prompt" => c \in keyed)
<1> USE DEF FixedKinds, ClientPcs
<1>1. /\ cpc[c] = "ads" /\ UNCHANGED <<control, memory, asked, keyed>>
      /\ cpc \in [Clients -> ClientPcs]
  BY DEF ClientReadAds, TypeInv, ClientTypes
<1>2. CASE ClientAtEnd(c) /\ ClientGoesTo(c, "gone") /\ UNCHANGED toClient
  BY <1>1, <1>2, GoneStep DEF ClientGoesTo, OtherStreamsKeep, ReadsOwn
<1>3. ASSUME NEW n \in ReadLengths(toClient[c], Ample(toClient[c])), ClientTakes(c, n),
             NEW next, next = IF n >= Size["ads"] THEN "prompt" ELSE "gone",
             ClientGoesTo(c, next)
      PROVE  ServiceInv' /\ (next = "prompt" => c \in keyed) /\ cpc'[c] = next
  <2>1. /\ toClient[c] \in Seq(Unit) /\ n \in 1 .. Len(toClient[c]) /\ ReadsOwn(c)
        /\ \A d \in Clients \ {c} : toClient'[d] = toClient[d]
    BY <1>3, ClientReads
  <2>2. ASSUME next = "prompt" PROVE c \in keyed
    <3>1. SUFFICES ASSUME c \notin keyed PROVE FALSE
      OBVIOUS
    <3>2. Len(toClient[c]) < Size["ACK"]
      BY <1>1, <3>1 DEF ServiceInv, KeyInv, BeforeKey, AckLeft
    <3>3. n >= Size["ads"] /\ n \in 1 .. Len(toClient[c])
      BY <1>3, <2>1, <2>2
    <3>4. /\ Size["ACK"] \in Nat /\ Size["ads"] \in Nat /\ Size["ACK"] <= Size["ads"]
          /\ Len(toClient[c]) \in Nat
      BY <2>1, SessionAssumption, LenProperties
    <3> QED
      BY <3>2, <3>3, <3>4
  <2>3. OtherStreamsKeep(c) /\ cpc'[c] = next /\ toServer' = toServer
    BY <1>1, <1>3, <2>1 DEF ClientGoesTo, OtherStreamsKeep
  <2>4. CASE next = "gone"
    BY <1>1, <2>1, <2>3, <2>4, GoneStep
  <2>5. CASE next = "prompt"
    <3>1. Held(c) \/ c \notin open
      BY <1>1 DEF ServiceInv, HoldInv
    <3>2. Talk(c)'
      BY <1>1, <2>1, <2>3, <2>5, IdleKept DEF ServiceInv, TalkInv, Talk
    <3> QED
      BY <1>1, <2>2, <2>3, <2>5, <3>1, <3>2, ServiceClientFrame
  <2> QED
    BY <1>3, <2>2, <2>3, <2>4, <2>5
<1>4. \/ ClientAtEnd(c) /\ ClientGoesTo(c, "gone") /\ UNCHANGED toClient
      \/ \E n \in ReadLengths(toClient[c], Ample(toClient[c])) :
             ClientTakes(c, n) /\ ClientGoesTo(c, IF n >= Size["ads"] THEN "prompt" ELSE "gone")
  BY DEF ClientReadAds
<1>5. CASE ClientAtEnd(c) /\ ClientGoesTo(c, "gone") /\ UNCHANGED toClient
  BY <1>1, <1>2, <1>5 DEF ClientGoesTo
<1> QED
  BY <1>3, <1>4, <1>5

\* A click needs a client whose key is stored, and starts its only query.
LEMMA ServiceClickStep ==
    ASSUME TypeInv, ServiceInv, NEW c \in Clients, Click(c)
    PROVE  ServiceInv'
<1> USE DEF ClientPcs
<1>1. /\ cpc[c] = "prompt" /\ UNCHANGED <<control, memory, keyed, toClient>>
      /\ c \in keyed /\ Idle(c) /\ ReadsOwn(c)
      /\ Held(c) \/ c \notin open
      /\ toServer[c] \in Seq(Unit) /\ toServer \in [Clients -> Seq(Unit)]
      /\ asked \in [Clients -> Ads \cup {NoAd}]
  BY DEF Click, ServiceInv, KeyInv, BeforeKey, TalkInv, Talk, ReadsOwn, HoldInv, TypeInv, ClientTypes
<1>2. PICK ad \in Ads : /\ asked' = [asked EXCEPT ![c] = ad]
                        /\ WritesQuery(c, ad) \/ QueryFails(c, ad)
  BY DEF Click
<1>3. asked'[c] = ad /\ \A d \in Clients \ {c} : asked'[d] = asked[d]
  BY <1>1, <1>2
<1>4. CASE QueryFails(c, ad)
  <2>1. <<>> \in Seq(Unit)
    BY EmptySeq
  <2>2. /\ cpc'[c] = "gone"
        /\ \A d \in Clients \ {c} : cpc'[d] = cpc[d] /\ toServer'[d] = toServer[d]
    BY <1>4, <2>1, ClientWritesOwn DEF QueryFails
  <2> QED
    BY <1>1, <1>3, <2>2, GoneStep DEF OtherStreamsKeep
<1>5. ASSUME NEW n \in QuerySizes, ClientWrites(c, Units("query", ad, n), "size")
      PROVE  ServiceInv'
  <2>1. n \in Nat \ {0} /\ "query" \in Kinds
    BY SessionAssumption DEF Kinds
  <2> DEFINE query == Units("query", ad, n)
  <2>2. query \in Seq(Unit) /\ Len(query) = n
    BY <2>1, UnitsFacts
  <2>3. \A i \in 1 .. n : query[i].item = ad /\ (query[i].left = 0 => i = n)
    BY <2>1 DEF Units
  <2>4. /\ WritesOwn(c, query)
        /\ cpc'[c] \in {"size", "gone"}
        /\ \A d \in Clients \ {c} : cpc'[d] = cpc[d] /\ toServer'[d] = toServer[d]
    BY <1>5, <2>2, ClientWritesOwn
  <2> HIDE DEF query
  <2>5. CASE cpc'[c] = "gone"
    BY <1>1, <1>3, <2>4, <2>5, GoneStep DEF OtherStreamsKeep
  <2>6. CASE cpc'[c] = "size"
    <3>1. \A i \in 1 .. Len(toServer[c]) : toServer[c][i].kind # "query"
      BY <1>1 DEF Idle, Carries
    <3>2. \A i \in 1 .. Len(toServer[c] \o query) :
              (toServer[c] \o query)[i].kind = "query" =>
                  /\ (toServer[c] \o query)[i].item = ad
                  /\ (toServer[c] \o query)[i].left = 0 => i = Len(toServer[c] \o query)
      <4>1. /\ Len(toServer[c] \o query) = Len(toServer[c]) + n
            /\ Len(toServer[c]) \in Nat
            /\ \A i \in 1 .. Len(toServer[c] \o query) :
                  \/ i \in 1 .. Len(toServer[c]) /\ (toServer[c] \o query)[i] = toServer[c][i]
                  \/ /\ i - Len(toServer[c]) \in 1 .. n
                     /\ (toServer[c] \o query)[i] = query[i - Len(toServer[c])]
        BY <1>1, <2>2, JoinedUnits
      <4> QED
        BY <2>1, <2>3, <3>1, <4>1
    <3>3. QueryOf(c, toServer[c])'
      BY <1>3, <2>4, <3>1, <3>2 DEF QueryOf, WritesOwn
    <3>4. Asking(c)'
      BY <1>1, <3>3 DEF Idle, Asking, NoAnswer, Carries, QueryOf, Complete, control, memory
    <3>5. Talk(c)'
      BY <2>6, <3>4 DEF Talk
    <3> QED
      BY <1>1, <1>3, <2>4, <2>6, <3>5, ServiceClientFrame DEF OtherStreamsKeep
  <2> QED
    BY <2>4, <2>5, <2>6
<1> QED
  BY <1>2, <1>4, <1>5 DEF WritesQuery

\* Whatever is read as a size, no reply is on its way yet.
LEMMA ReadSizeStep ==
    ASSUME TypeInv, ServiceInv, NEW c \in Clients, ClientReadSize(c)
    PROVE  ServiceInv'
<1> USE DEF FixedKinds, ClientPcs
<1>1. /\ cpc[c] = "size" /\ UNCHANGED <<control, memory, asked, keyed>>
      /\ c \in keyed
      /\ Held(c) \/ c \notin open
      /\ Asking(c) \/ Sized(c)
  BY DEF ClientReadSize, ServiceInv, KeyInv, BeforeKey, HoldInv, TalkInv, Talk
<1>2. Msg("ACK") \in Seq(Unit)
  BY MsgFacts
<1>3. CASE ClientAtEnd(c) /\ ClientGoesTo(c, "gone") /\ UNCHANGED toClient
  BY <1>1, <1>2, <1>3, ClientWritesOwn, GoneStep DEF OtherStreamsKeep, ReadsOwn
<1>4. ASSUME NEW n \in ReadLengths(toClient[c], Size["size"]), ClientTakes(c, n),
             NEW next \in {"reply", "gone"}, ClientWrites(c, Msg("ACK"), next)
      PROVE  ServiceInv'
  <2>1. /\ toClient[c] # <<>> /\ ReadsOwn(c) /\ toClient[c] \in Seq(Unit)
        /\ n \in 1 .. Len(toClient[c]) /\ toClient'[c] = Rest(toClient[c], n)
        /\ \A d \in Clients \ {c} : toClient'[d] = toClient[d]
    BY <1>4, ClientReads
  <2>2. /\ WritesOwn(c, Msg("ACK"))
        /\ \A d \in Clients \ {c} : cpc'[d] = cpc[d] /\ toServer'[d] = toServer[d]
        /\ cpc'[c] \in {"reply", "gone"}
    BY <1>2, <1>4, ClientWritesOwn
  <2>3. CASE cpc'[c] = "gone"
    BY <1>1, <2>1, <2>2, <2>3, GoneStep DEF OtherStreamsKeep
  <2>4. CASE cpc'[c] = "reply"
    <3>1. ~ Carries(toClient'[c], "reply")
      BY <1>1, <2>1, CarriesRest DEF Asking, Sized, NoAnswer
    <3>2. ASSUME toClient'[c] # <<>> PROVE Talk(c)'
      <4>1. toClient'[c] \in Seq(Unit)
        BY <2>1, RestFacts
      <4>2. 1 \in 1 .. Len(toClient'[c])
        BY <3>2, <4>1, EmptySeq, LenProperties
      <4>3. Misled(c)'
        BY <3>1, <3>2, <4>2 DEF Misled, Carries
      <4> QED
        BY <2>4, <4>3 DEF Talk
    <3>3. ASSUME toClient'[c] = <<>>, Asking(c) PROVE Talk(c)'
      <4>1. Misled(c)'
        BY <1>1, <3>3 DEF Asking, Misled, control
      <4> QED
        BY <2>4, <4>1 DEF Talk
    <3>4. ASSUME toClient'[c] = <<>>, Sized(c), conn = c PROVE Talk(c)'
      <4>1. toServer[c] = <<>> /\ <<>> \o Msg("ACK") = Msg("ACK")
        BY <1>2, <3>4, ConcatEmptySeq DEF Sized
      <4>2. ~ Carries(Msg("ACK"), "query") /\ ~ Carries(<<>>, "query")
        BY CarriesMsg, CarriesNone DEF Kinds
      <4>3. ~ Carries(toServer[c], "query")'
        BY <2>2, <4>1, <4>2 DEF WritesOwn, Carries
      <4>4. Acked(c)'
        BY <1>1, <3>4, <4>3 DEF Acked, Sized, Carries, control, memory
      <4> QED
        BY <2>4, <4>4 DEF Talk
    <3>5. ASSUME toClient'[c] = <<>>, conn # c PROVE Talk(c)'
      <4>1. Misled(c)'
        BY <1>1, <3>5 DEF Misled, control
      <4> QED
        BY <2>4, <4>1 DEF Talk
    <3>6. Talk(c)'
      BY <1>1, <3>2, <3>3, <3>4, <3>5
    <3> QED
      BY <1>1, <2>1, <2>2, <2>4, <3>6, ServiceClientFrame DEF OtherStreamsKeep
  <2> QED
    BY <2>2, <2>3, <2>4
<1>5. \/ ClientAtEnd(c) /\ ClientGoesTo(c, "gone") /\ UNCHANGED toClient
      \/ \E n \in ReadLengths(toClient[c], Size["size"]), next \in {"reply", "gone"} :
             ClientTakes(c, n) /\ ClientWrites(c, Msg("ACK"), next)
  BY DEF ClientReadSize
<1> QED
  BY <1>3, <1>4, <1>5

\* What is read as a reply is the whole of the reply to the ad asked for.
LEMMA ReadReplyStep ==
    ASSUME TypeInv, ServiceInv, NEW c \in Clients, ClientReadReply(c)
    PROVE  /\ ServiceInv'
           /\ \/ cpc'[c] = "gone" /\ UNCHANGED stored
              \/ /\ cpc'[c] = "prompt"
                 /\ stored' = [stored EXCEPT ![c] = [number |-> asked[c], ad |-> asked[c]]]
<1> USE DEF FixedKinds, ClientPcs
<1>1. /\ cpc[c] = "reply" /\ UNCHANGED <<control, memory, asked, keyed>>
      /\ c \in keyed
      /\ Held(c) \/ c \notin open
      /\ Acked(c) \/ Replied(c) \/ Misled(c)
      /\ cpc \in [Clients -> ClientPcs]
  BY DEF ClientReadReply, ServiceInv, KeyInv, BeforeKey, HoldInv, TalkInv, Talk, TypeInv, ClientTypes
<1>2. CASE ClientAtEnd(c) /\ ClientGoesTo(c, "gone") /\ UNCHANGED <<toClient, stored>>
  BY <1>1, <1>2, GoneStep DEF ClientGoesTo, OtherStreamsKeep, ReadsOwn
<1>3. ASSUME NEW n \in ReadLengths(toClient[c], Size["reply"]), ClientTakes(c, n),
             IF Taken(toClient[c], n) = Units("reply", toClient[c][1].item, Size["reply"])
             THEN /\ stored' = [stored EXCEPT ![c] = [number |-> asked[c], ad |-> toClient[c][1].item]]
                  /\ ClientGoesTo(c, "prompt")
             ELSE ClientGoesTo(c, "gone") /\ UNCHANGED stored
      PROVE  /\ ServiceInv'
             /\ \/ cpc'[c] = "gone" /\ UNCHANGED stored
                \/ /\ cpc'[c] = "prompt"
                   /\ stored' = [stored EXCEPT ![c] = [number |-> asked[c], ad |-> asked[c]]]
  <2>1. /\ toClient[c] # <<>> /\ ReadsOwn(c) /\ toClient[c] \in Seq(Unit)
        /\ n \in 1 .. Len(toClient[c]) /\ toClient'[c] = Rest(toClient[c], n)
        /\ \A d \in Clients \ {c} : toClient'[d] = toClient[d]
    BY <1>3, ClientReads
  <2>2. CASE Taken(toClient[c], n) # Units("reply", toClient[c][1].item, Size["reply"])
    BY <1>1, <1>3, <2>1, <2>2, GoneStep DEF ClientGoesTo, OtherStreamsKeep
  <2>3. CASE Taken(toClient[c], n) = Units("reply", toClient[c][1].item, Size["reply"])
    <3>2. /\ Size["reply"] \in Nat \ {0} /\ asked[c] \in Ads \cup {NoAd} /\ "reply" \in Kinds
      BY SessionAssumption DEF TypeInv, ClientTypes, Kinds
    <3>a. ~ Misled(c)
      <4>1. 1 \in 1 .. n /\ Taken(toClient[c], n)[1] = toClient[c][1]
        BY <2>1, TakenUnits, LenProperties
      <4>2. Units("reply", toClient[c][1].item, Size["reply"])[1].kind = "reply"
        BY <3>2 DEF Units
      <4> QED
        BY <2>1, <2>3, <4>1, <4>2 DEF Misled
    <3>1. Replied(c)
      BY <1>1, <2>1, <3>a DEF Acked
    <3>3. Len(toClient[c]) = Size["reply"] /\ toClient[c][1].item = asked[c]
      <4>1. Len(Units("reply", asked[c], Size["reply"])) = Size["reply"]
        BY <3>2, UnitsFacts
      <4>2. Units("reply", asked[c], Size["reply"])[1].item = asked[c]
        BY <3>2 DEF Units
      <4> QED
        BY <3>1, <4>1, <4>2 DEF Replied
    <3>4. n = Len(toClient[c])
      <4>1. Len(Taken(toClient[c], n)) = n
        BY <2>1, TakenUnits
      <4>2. Len(Units("reply", toClient[c][1].item, Size["reply"])) = Size["reply"]
        BY <3>2, <3>3, UnitsFacts
      <4> QED
        BY <2>3, <3>3, <4>1, <4>2
    <3>5. toClient'[c] = <<>>
      BY <2>1, <3>4, RestFacts
    <3>6. /\ cpc'[c] = "prompt" /\ toServer' = toServer
          /\ \A d \in Clients \ {c} : cpc'[d] = cpc[d]
      BY <1>1, <1>3, <2>3 DEF ClientGoesTo
    <3>7. Idle(c)'
      <4>1. /\ ~ Carries(<<>>, "query") /\ ~ Carries(<<>>, "size") /\ ~ Carries(<<>>, "reply")
        BY CarriesNone
      <4> QED
        BY <1>1, <3>1, <3>5, <3>6, <4>1
        DEF Idle, NoAnswer, Replied, Carries, control, memory
    <3>8. Talk(c)'
      BY <3>6, <3>7 DEF Talk
    <3>9. ServiceInv'
      BY <1>1, <2>1, <3>6, <3>8, ServiceClientFrame DEF OtherStreamsKeep
    <3> QED
      BY <1>3, <2>3, <3>3, <3>6, <3>9
  <2> QED
    BY <2>2, <2>3
<1>4. CASE ClientAtEnd(c) /\ ClientGoesTo(c, "gone") /\ UNCHANGED <<toClient, stored>>
  BY <1>1, <1>2, <1>4 DEF ClientGoesTo
<1> QED
  BY <1>3, <1>4 DEF ClientReadReply

LEMMA ServiceLeaveStep ==
    ASSUME TypeInv, ServiceInv, NEW c \in Clients, Leave(c)
    PROVE  ServiceInv'
<1>1. /\ cpc[c] # "off" /\ cpc'[c] = "gone"
      /\ UNCHANGED <<control, memory, asked, keyed, toClient, toServer>>
      /\ \A d \in Clients \ {c} : cpc'[d] = cpc[d]
  BY DEF Leave, ClientGoesTo, TypeInv, ClientTypes
<1> QED
  BY <1>1, GoneStep DEF OtherStreamsKeep, ReadsOwn

\* A new connection is last in the backlog, and open.
LEMMA ConnectStep ==
    ASSUME TypeInv, ServiceInv, NEW c \in Clients, ClientConnect(c)
    PROVE  ServiceInv'
<1> USE DEF FixedKinds
<1>1. /\ cpc[c] = "off" /\ UNCHANGED <<spc, conn, memory, asked, keyed, toClient>>
      /\ c \notin open /\ toClient[c] = <<>> /\ conn # c
      /\ cpc \in [Clients -> ClientPcs] /\ toServer \in [Clients -> Seq(Unit)]
      /\ open \subseteq Clients
  BY DEF ClientConnect, ServiceInv, HoldInv, TypeInv, ClientTypes, ControlTypes
<1>2. UNCHANGED <<got, answer, key0>>
  BY <1>1 DEF memory
<1>3. /\ cpc' \in [Clients -> ClientPcs] /\ cpc'[c] \in {"params", "gone"}
      /\ \A d \in Clients \ {c} : cpc'[d] = cpc[d] /\ toServer'[d] = toServer[d]
      /\ \/ toServer'[c] = toServer[c] \/ toServer'[c] = Msg("connect")
  BY <1>1 DEF ClientConnect, ClientGoesTo, ClientPcs
<1>4. HoldInv'
  <2>1. CASE spc = "down"
    BY <1>1, <1>3, <2>1 DEF ClientConnect, ServiceInv, HoldInv, Held
  <2>2. CASE spc # "down"
    <3>1. backlog' = Append(backlog, c) /\ open' = open \cup {c}
      BY <2>2 DEF ClientConnect
    <3>2. /\ Len(backlog') = Len(backlog) + 1 /\ Len(backlog) \in Nat
          /\ \A i \in 1 .. Len(backlog) : backlog'[i] = backlog[i]
          /\ backlog'[Len(backlog) + 1] = c
      BY <3>1, AppendProperties, LenProperties DEF TypeInv, ControlTypes
    <3>3. \A i \in 1 .. Len(backlog') : backlog'[i] \in open'
      <4>1. \A i \in 1 .. Len(backlog) : backlog[i] \in open
        BY DEF ServiceInv, HoldInv
      <4>2. \A i \in 1 .. Len(backlog') : i \in 1 .. Len(backlog) \/ i = Len(backlog) + 1
        BY <3>2
      <4> QED
        BY <3>1, <3>2, <4>1, <4>2
    <3>4. \A d \in open' : ~ Held(d)' => cpc'[d] \in {"params", "gone"} /\ toClient'[d] = <<>>
      BY <1>1, <1>3, <3>1 DEF ServiceInv, HoldInv, Held
    <3>5. \A d \in Clients : cpc'[d] = "off" => d \notin open' /\ toClient'[d] = <<>>
      BY <1>1, <1>3, <3>1 DEF ServiceInv, HoldInv
    <3> QED
      BY <1>1, <2>2, <3>1, <3>3, <3>4, <3>5 DEF ServiceInv, HoldInv
  <2> QED
    BY <2>1, <2>2
<1>5. BeforeKey(c)' /\ Idle(c)'
  <2>1. /\ ~ Carries(Msg("connect"), "query")
        /\ ~ Carries(<<>>, "ACK") /\ ~ Carries(<<>>, "size") /\ ~ Carries(<<>>, "reply")
    BY CarriesNone, CarriesMsg DEF Kinds
  <2>2. ~ Carries(toServer[c], "query")
    BY <1>1 DEF ServiceInv, TalkInv, Talk, Idle
  <2>3. OneAckLast(<<>>)
    BY EmptySeq DEF OneAckLast
  <2>4. toClient'[c] = <<>> /\ cpc'[c] \notin {"prompt", "size", "reply", "ads"}
    BY <1>1, <1>3
  <2>5. BeforeKey(c)'
    BY <2>1, <2>3, <2>4 DEF BeforeKey
  <2>6. ~ Carries(toServer'[c], "query")
    BY <1>3, <2>1, <2>2
  <2>7. conn' # c
    BY <1>1 DEF ClientConnect
  <2> QED
    BY <2>1, <2>4, <2>5, <2>6, <2>7 DEF Idle, NoAnswer
<1>6. UNCHANGED asked /\ \A d \in Clients \ {c} : Talk(d)' /\ (d \notin keyed => BeforeKey(d)')
  BY <1>1, <1>2, <1>3, OtherTalk, OtherBeforeKey DEF ServiceInv, TalkInv, KeyInv
<1>7. Talk(c)'
  BY <1>3, <1>5 DEF Talk
<1> QED
  BY <1>1, <1>2, <1>4, <1>5, <1>6, <1>7 DEF ServiceInv, KeyInv, TalkInv

-----------------------------------------------------------------------------
(* Steps of the server.                                                    *)

\* What the server took from the stream of c, or did not.
TookFrom(c) ==
    \/ toServer'[c] = toServer[c]
    \/ \E n \in 1 .. Len(toServer[c]) : toServer'[c] = Rest(toServer[c], n)

LEMMA ServerReads ==
    ASSUME TypeInv, NEW c \in Clients, conn = c, NEW limit,
           NEW n \in ReadLengths(toServer[c], limit), ServerTakes(n)
    PROVE  /\ toServer[c] \in Seq(Unit) /\ toServer[c] # <<>>
           /\ n \in 1 .. Len(toServer[c]) /\ n <= limit
           /\ toServer'[c] = Rest(toServer[c], n)
           /\ TookFrom(c)
           /\ \A d \in Clients \ {c} : toServer'[d] = toServer[d]
<1>1. StreamTypes /\ toServer[c] \in Seq(Unit)
  BY TypeInvTypes DEF StreamTypes
<1>2. n \in 1 .. Len(toServer[c]) /\ toServer[c] # <<>> /\ n <= limit
  BY <1>1, ReadLengthsFacts
<1> QED
  BY <1>1, <1>2, ServerTakesFacts DEF TookFrom

\* A server at none of the last two reads sends no answer to a query, which
\* stays where it was.
LEMMA TalkKept ==
    ASSUME TypeInv, ServiceInv, NEW c \in Clients, conn = c,
           spc \notin {"query", "ack"},
           UNCHANGED clientVars, TookFrom(c),
           \/ toClient'[c] = toClient[c]
           \/ \E kind \in FixedKinds \ {"size", "reply"} : toClient'[c] = toClient[c] \o Msg(kind),
           conn' # c \/ (spc' # "ack" /\ (spc' = "query" => got' = <<>>))
    PROVE  Talk(c)'
<1>1. toServer[c] \in Seq(Unit) /\ toClient[c] \in Seq(Unit) /\ UNCHANGED <<cpc, asked>>
  BY DEF TypeInv, ControlTypes, clientVars
<1>2. ASSUME NoAnswer(c) PROVE NoAnswer(c)'
  <2>1. \A kind \in FixedKinds \ {"size", "reply"} :
            /\ ~ Carries(toClient[c] \o Msg(kind), "size")
            /\ ~ Carries(toClient[c] \o Msg(kind), "reply")
    <3>1. \A kind \in FixedKinds \ {"size", "reply"} :
              /\ Msg(kind) \in Seq(Unit)
              /\ ~ Carries(Msg(kind), "size") /\ ~ Carries(Msg(kind), "reply")
      BY MsgFacts, CarriesMsg DEF Kinds, FixedKinds
    <3> QED
      BY <1>1, <1>2, <3>1, CarriesJoined DEF NoAnswer
  <2> QED
    BY <1>2, <2>1 DEF NoAnswer, Carries
<1>3. ASSUME Idle(c) PROVE Idle(c)'
  <2>1. \A n \in 1 .. Len(toServer[c]) : ~ Carries(Rest(toServer[c], n), "query")
    BY <1>1, <1>3, CarriesRest DEF Idle
  <2>2. ~ Carries(toServer[c], "query")'
    BY <1>3, <2>1 DEF Idle, Carries, TookFrom
  <2>3. ~ Carries(<<>>, "query")
    BY CarriesNone
  <2> QED
    BY <1>2, <1>3, <2>2, <2>3 DEF Idle, Carries
<1>4. ASSUME Asking(c) PROVE Asking(c)'
  <2>1. \A n \in 1 .. Len(toServer[c]) : QueryOf(c, Rest(toServer[c], n))
    BY <1>1, <1>4, QueryOfRest DEF Asking
  <2>2. QueryOf(c, toServer[c])'
    BY <1>1, <1>4, <2>1 DEF Asking, QueryOf, TookFrom
  <2>3. Len(<<>>) = 0
    BY EmptySeq
  <2> QED
    BY <1>2, <1>4, <2>2, <2>3 DEF Asking, QueryOf, Complete
<1>5. ~ Sized(c) /\ ~ Acked(c) /\ ~ Replied(c)
  BY DEF Sized, Acked, Replied
<1>6. ASSUME Misled(c) PROVE Misled(c)'
  <2>1. CASE toClient'[c] = toClient[c]
    BY <1>6, <2>1 DEF Misled
  <2>2. ASSUME NEW kind \in FixedKinds \ {"size", "reply"},
               toClient'[c] = toClient[c] \o Msg(kind)
        PROVE  Misled(c)'
    <3>1. /\ Msg(kind) \in Seq(Unit) /\ Len(Msg(kind)) # 0
          /\ Msg(kind)[1].kind = kind
      BY MsgFacts
    <3>2. Msg(kind) # <<>>
      BY <3>1, EmptySeq
    <3> QED
      BY <1>1, <1>6, <2>2, <3>1, <3>2, MisledKept
  <2> QED
    BY <2>1, <2>2
<1> QED
  BY <1>1, <1>3, <1>4, <1>5, <1>6 DEF ServiceInv, TalkInv, Talk

\* The head of the backlog is a client that has been told nothing.
LEMMA AcceptStep ==
    ASSUME TypeInv, ServiceInv, ServerAccept
    PROVE  ServiceInv'
<1>1. /\ spc = "accept" /\ spc' = "connect" /\ conn = NoClient /\ NoClient \notin Clients
      /\ conn' = Head(backlog) /\ backlog' = Tail(backlog)
      /\ UNCHANGED <<open, cpc, asked, got, answer, keyed, toServer, toClient>>
      /\ backlog # <<>> /\ backlog \in Seq(Clients)
  BY SessionAssumption DEF ServerAccept, memory, clientVars, ServiceInv, HoldInv, TypeInv, ControlTypes
<1>2. /\ Len(backlog) \in Nat \ {0} /\ Head(backlog) = backlog[1]
      /\ Len(Tail(backlog)) = Len(backlog) - 1
      /\ \A i \in 1 .. Len(Tail(backlog)) : Tail(backlog)[i] = backlog[i + 1]
  BY <1>1, HeadTailProperties, EmptySeq, LenProperties
<1>3. \A i \in 1 .. Len(backlog) : backlog[i] \in open
  BY DEF ServiceInv, HoldInv
<1>4. conn' \in open /\ \A i \in 1 .. Len(backlog') : backlog'[i] \in open
  BY <1>1, <1>2, <1>3
<1>5. HoldInv'
  BY <1>1, <1>4 DEF ServiceInv, HoldInv, Held
<1>6. ASSUME NEW d \in Clients PROVE Talk(d)' /\ (d \notin keyed => BeforeKey(d)')
  <2>1. CASE conn' # d
    BY <1>1, <2>1, OtherTalk, OtherBeforeKey DEF ServiceInv, TalkInv, KeyInv
  <2>2. CASE conn' = d
    <3>1. d \in open /\ cpc[d] \in {"params", "gone"}
      BY <1>1, <1>4, <2>2 DEF ServiceInv, HoldInv, Held
    <3>2. cpc[d] # "gone" => Idle(d)'
      BY <1>1, <3>1 DEF ServiceInv, TalkInv, Talk, Idle, NoAnswer, Carries
    <3>3. d \notin keyed => BeforeKey(d)'
      BY <1>1 DEF ServiceInv, KeyInv, BeforeKey, OneAckLast
    <3> QED
      BY <1>1, <3>1, <3>2, <3>3 DEF Talk
  <2> QED
    BY <2>1, <2>2
<1> QED
  BY <1>1, <1>5, <1>6 DEF ServiceInv, KeyInv, TalkInv

\* What a step of the server at a read has of its own client.
LEMMA AtRead ==
    ASSUME TypeInv, ServiceInv, spc \notin {"accept", "spin", "down"}
    PROVE  /\ conn \in Clients /\ conn \in open /\ StreamTypes
           /\ Talk(conn) /\ (conn \notin keyed => BeforeKey(conn))
           /\ keyed \subseteq Clients
           /\ cpc[conn] # "off"
  BY TypeInvTypes DEF TypeInv, ControlTypes, MemoryTypes, ServiceInv, HoldInv, TalkInv, KeyInv

\* A server that goes on with its client, wherever the streams of that client
\* are, has this left to show.
LEMMA ServesOn ==
    ASSUME TypeInv, ServiceInv, NEW c \in Clients, conn = c,
           spc \notin {"accept", "spin", "down"},
           UNCHANGED <<clientVars, conn, backlog, open>>,
           spc' \in {"galLen", "galKey", "obtain", "query", "ack", "spin"},
           \A d \in Clients \ {c} : toServer'[d] = toServer[d] /\ toClient'[d] = toClient[d],
           keyed \subseteq keyed', keyed' \subseteq keyed \cup {c},
           spc' \in {"obtain", "query", "ack"} => key0' = c /\ c \in keyed',
           c \notin keyed' => BeforeKey(c)',
           Talk(c)'
    PROVE  ServiceInv'
<1>1. OtherStreamsKeep(c) /\ Held(c)' /\ cpc[c] # "off"
  BY AtRead DEF OtherStreamsKeep, clientVars, Held
<1> QED
  BY <1>1, ServiceServerFrame

LEMMA ReadConnectStep ==
    ASSUME TypeInv, ServiceInv, ServerReadConnect
    PROVE  ServiceInv'
<1> USE DEF FixedKinds
<1>1. PICK c \in Clients : c = conn
  BY AtRead DEF ServerReadConnect
<1>2. /\ spc = "connect" /\ UNCHANGED <<memory, clientVars, keyed>>
      /\ StreamTypes /\ keyed \subseteq Clients /\ c \in open
      /\ cpc[c] \in {"params", "gone"} /\ toClient[c] = <<>>
      /\ c \notin keyed => BeforeKey(c)
  BY <1>1, AtRead DEF ServerReadConnect, ServiceInv, HoldInv, Held
<1>3. ASSUME WrongRequest, TookFrom(c), \A d \in Clients \ {c} : toServer'[d] = toServer[d]
      PROVE  ServiceInv'
  <2>1. /\ spc' = "accept" /\ conn' = NoClient /\ NoClient \notin Clients
        /\ UNCHANGED <<backlog, open, toClient>>
    BY <1>3, SessionAssumption DEF WrongRequest
  <2>2. Talk(c)'
    BY <1>1, <1>2, <1>3, <2>1, TalkKept
  <2>3. OtherStreamsKeep(c) /\ UNCHANGED cpc
    BY <1>2, <1>3, <2>1 DEF OtherStreamsKeep, clientVars
  <2>4. c \notin keyed => BeforeKey(c)'
    BY <1>2, <2>1, <2>3, OtherBeforeKey
  <2> QED
    BY <1>1, <1>2, <2>1, <2>2, <2>3, <2>4, ServiceServerFrame
<1>4. ASSUME NEW n \in ReadLengths(toServer[c], Ample(toServer[c])), ServerTakes(n),
             ServerSends(Msg("params"), "galLen")
      PROVE  ServiceInv'
  <2>1. /\ TookFrom(c) /\ n \in 1 .. Len(toServer[c])
        /\ \A d \in Clients \ {c} : toServer'[d] = toServer[d]
    BY <1>1, <1>4, ServerReads
  <2>2. CASE Dies
    BY <1>1, <1>2, <1>4, <2>1, <2>2, ServiceDiesStep
  <2>3. CASE ~ Dies
    <3>1. Msg("params") \in Seq(Unit)
      BY MsgFacts
    <3>2. /\ spc' = "galLen" /\ UNCHANGED <<conn, backlog, open>>
          /\ toClient'[c] = toClient[c] \o Msg("params")
          /\ \A d \in Clients \ {c} : toClient'[d] = toClient[d]
      BY <1>1, <1>2, <1>4, <2>3, <3>1, ServerSendsFacts
    <3>3. toClient'[c] = Msg("params")
      BY <1>2, <3>1, <3>2, ConcatEmptySeq
    <3>4. Talk(c)'
      BY <1>1, <1>2, <2>1, <3>2, TalkKept
    <3>5. BeforeKey(c)'
      <4>a. \A i \in 1 .. Len(Msg("params")) : Msg("params")[i].kind = "params"
        BY MsgFacts
      <4>b. "params" # "ACK"
        OBVIOUS
      <4>1. OneAckLast(Msg("params")) /\ ~ Carries(Msg("params"), "ACK")
        BY <4>a, <4>b, Zenon DEF OneAckLast, Carries
      <4> QED
        BY <1>2, <3>3, <4>1 DEF BeforeKey, OneAckLast, Carries, clientVars
    <3> QED
      BY <1>1, <1>2, <2>1, <3>2, <3>4, <3>5, ServesOn
  <2> QED
    BY <2>2, <2>3
<1>5. CASE ServerAtEnd /\ WrongRequest /\ UNCHANGED toServer
  BY <1>3, <1>5 DEF TookFrom
<1>6. ASSUME NEW n \in ReadLengths(toServer[c], Ample(toServer[c])), ServerTakes(n), WrongRequest
      PROVE  ServiceInv'
  BY <1>1, <1>3, <1>6, ServerReads
<1> QED
  BY <1>1, <1>4, <1>5, <1>6 DEF ServerReadConnect

\* The first ACK is the only one on its way.
LEMMA ReadGalLenStep ==
    ASSUME TypeInv, ServiceInv, ServerReadGalLen
    PROVE  ServiceInv'
<1> USE DEF FixedKinds
<1>1. PICK c \in Clients : c = conn
  BY AtRead DEF ServerReadGalLen
<1>2. /\ spc = "galLen" /\ UNCHANGED <<clientVars, keyed>>
      /\ StreamTypes /\ keyed \subseteq Clients
      /\ c \notin keyed => BeforeKey(c)
  BY <1>1, AtRead DEF ServerReadGalLen
<1>3. CASE ServerAtEnd /\ Dies /\ UNCHANGED toServer
  BY <1>2, <1>3, ServiceDiesStep
<1>4. ASSUME NEW n \in ReadLengths(toServer[c], Ample(toServer[c])), ServerTakes(n),
             ServerSends(Msg("ACK"), "galKey")
      PROVE  ServiceInv'
  <2>1. /\ TookFrom(c) /\ n \in 1 .. Len(toServer[c])
        /\ \A d \in Clients \ {c} : toServer'[d] = toServer[d]
    BY <1>1, <1>4, ServerReads
  <2>2. CASE Dies
    BY <1>1, <1>2, <1>4, <2>1, <2>2, ServiceDiesStep
  <2>3. CASE ~ Dies
    <3>1. /\ Msg("ACK") \in Seq(Unit) /\ Len(Msg("ACK")) = Size["ACK"]
          /\ Size["ACK"] \in Nat \ {0}
          /\ \A i \in 1 .. Size["ACK"] : Msg("ACK")[i].kind = "ACK"
          /\ toClient[c] \in Seq(Unit)
      BY MsgFacts DEF TypeInv, ControlTypes
    <3>2. /\ spc' = "galKey" /\ UNCHANGED <<conn, backlog, open>>
          /\ toClient'[c] = toClient[c] \o Msg("ACK")
          /\ \A d \in Clients \ {c} : toClient'[d] = toClient[d]
      BY <1>1, <1>2, <1>4, <2>3, <3>1, ServerSendsFacts
    <3>3. Talk(c)'
      BY <1>1, <1>2, <2>1, <3>2, TalkKept
    <3>4. c \notin keyed => BeforeKey(c)'
      <4>1. SUFFICES ASSUME c \notin keyed PROVE BeforeKey(c)'
        OBVIOUS
      <4>2. \A i \in 1 .. Len(toClient[c]) : toClient[c][i].kind = "params"
        BY <1>1, <1>2, <4>1 DEF BeforeKey, OneAckLast, Carries
      <4>3. OneAckLast(toClient[c] \o Msg("ACK"))
        BY <3>1, <4>2, OneAckLastJoined
      <4> QED
        BY <1>1, <1>2, <3>2, <4>1, <4>3 DEF BeforeKey, OneAckLast, clientVars
    <3> QED
      BY <1>1, <1>2, <2>1, <3>2, <3>3, <3>4, ServesOn
  <2> QED
    BY <2>2, <2>3
<1> QED
  BY <1>1, <1>3, <1>4 DEF ServerReadGalLen

\* The second one is sent when the key is stored.
LEMMA ReadGalKeyStep ==
    ASSUME TypeInv, ServiceInv, ServerReadGalKey
    PROVE  ServiceInv'
<1> USE DEF FixedKinds
<1>1. PICK c \in Clients : c = conn
  BY AtRead DEF ServerReadGalKey
<1>2. /\ spc = "galKey" /\ UNCHANGED clientVars
      /\ StreamTypes /\ keyed \subseteq Clients
      /\ c \notin keyed => BeforeKey(c)
  BY <1>1, AtRead DEF ServerReadGalKey
<1>3. ASSUME TookFrom(c), \A d \in Clients \ {c} : toServer'[d] = toServer[d],
             NEW next \in {"galKey", "spin"}, GoesTo(next), UNCHANGED keyed
      PROVE  ServiceInv'
  <2>1. /\ spc' = next /\ UNCHANGED <<conn, backlog, open, toClient, cpc>>
    BY <1>2, <1>3 DEF GoesTo, clientVars
  <2>2. Talk(c)'
    BY <1>1, <1>2, <1>3, <2>1, TalkKept
  <2>3. c \notin keyed => BeforeKey(c)'
    BY <1>2, <2>1 DEF BeforeKey, OneAckLast
  <2> QED
    BY <1>1, <1>2, <1>3, <2>1, <2>2, <2>3, ServesOn
<1>4. CASE KeyAtEnd
  <2>1. CASE GoesTo("spin")
    BY <1>3, <1>4, <2>1 DEF KeyAtEnd, TookFrom
  <2>2. CASE Dies
    BY <1>2, <1>4, <2>2, ServiceDiesStep DEF KeyAtEnd
  <2> QED
    BY <1>4, <2>1, <2>2 DEF KeyAtEnd
<1>a. CASE KeyEmpty
  BY <1>2, <1>a, ServiceDiesStep DEF KeyEmpty
<1>5. ASSUME NEW n \in ReadLengths(toServer[c], galLen), ServerTakes(n),
             KeyIncomplete \/ KeyComplete \/ KeyDamaged
      PROVE  ServiceInv'
  <2>1. /\ TookFrom(c) /\ n \in 1 .. Len(toServer[c])
        /\ \A d \in Clients \ {c} : toServer'[d] = toServer[d]
    BY <1>1, <1>5, ServerReads
  <2>2. CASE KeyIncomplete
    BY <1>3, <2>1, <2>2 DEF KeyIncomplete
  <2>3. ASSUME Dies, keyed' \in {keyed, keyed \cup {conn}}
        PROVE  ServiceInv'
    <3>1. keyed \subseteq keyed' /\ keyed' \subseteq Clients
      BY <1>1, <1>2, <2>3
    <3> QED
      BY <1>1, <1>2, <1>5, <2>1, <2>3, <3>1, ServiceDiesStep
  <2>4. CASE KeyDamaged
    BY <2>3, <2>4 DEF KeyDamaged
  <2>5. CASE KeyComplete
    <3>1. /\ key0' = c /\ keyed' = keyed \cup {c} /\ ServerSends(Msg("ACK"), "obtain")
      BY <1>1, <2>5 DEF KeyComplete
    <3>2. CASE Dies
      BY <1>1, <2>3, <3>1, <3>2
    <3>3. CASE ~ Dies
      <4>1. Msg("ACK") \in Seq(Unit)
        BY MsgFacts
      <4>2. /\ spc' = "obtain" /\ UNCHANGED <<conn, backlog, open>>
            /\ toClient'[c] = toClient[c] \o Msg("ACK")
            /\ \A d \in Clients \ {c} : toClient'[d] = toClient[d]
        BY <1>1, <1>2, <3>1, <3>3, <4>1, ServerSendsFacts
      <4>3. Talk(c)'
        BY <1>1, <1>2, <2>1, <4>2, TalkKept
      <4> QED
        BY <1>1, <1>2, <2>1, <3>1, <4>2, <4>3, ServesOn
    <3> QED
      BY <3>2, <3>3
  <2> QED
    BY <1>5, <2>2, <2>4, <2>5
<1> QED
  BY <1>1, <1>4, <1>a, <1>5 DEF ServerReadGalKey

LEMMA ReadObtainStep ==
    ASSUME TypeInv, ServiceInv, ServerReadObtain
    PROVE  ServiceInv'
<1> USE DEF FixedKinds
<1>1. PICK c \in Clients : c = conn
  BY AtRead DEF ServerReadObtain
<1>2. /\ spc = "obtain" /\ UNCHANGED <<clientVars, keyed, key0>> /\ got' = <<>>
      /\ StreamTypes /\ keyed \subseteq Clients
      /\ c \in keyed /\ key0 = c
  BY <1>1, AtRead DEF ServerReadObtain, ServiceInv, KeyInv
<1>3. CASE ServerAtEnd /\ Dies /\ UNCHANGED toServer
  BY <1>2, <1>3, ServiceDiesStep
<1>4. ASSUME NEW n \in ReadLengths(toServer[c], Size["OBTAIN"]), ServerTakes(n),
             ServerSends(Msg("ads"), "query") \/ Dies
      PROVE  ServiceInv'
  <2>1. /\ TookFrom(c) /\ n \in 1 .. Len(toServer[c])
        /\ \A d \in Clients \ {c} : toServer'[d] = toServer[d]
    BY <1>1, <1>4, ServerReads
  <2>2. CASE Dies
    BY <1>1, <1>2, <1>4, <2>1, <2>2, ServiceDiesStep
  <2>3. CASE ~ Dies
    <3>1. Msg("ads") \in Seq(Unit)
      BY MsgFacts
    <3>2. /\ spc' = "query" /\ UNCHANGED <<conn, backlog, open>>
          /\ toClient'[c] = toClient[c] \o Msg("ads")
          /\ \A d \in Clients \ {c} : toClient'[d] = toClient[d]
      BY <1>1, <1>2, <1>4, <2>3, <3>1, ServerSendsFacts
    <3>3. Talk(c)'
      BY <1>1, <1>2, <2>1, <3>2, TalkKept
    <3> QED
      BY <1>1, <1>2, <2>1, <3>2, <3>3, ServesOn
  <2> QED
    BY <2>2, <2>3
<1> QED
  BY <1>1, <1>3, <1>4 DEF ServerReadObtain

\* Bytes that load hold the end of a query, and start with it.
LEMMA LoadsFacts ==
    ASSUME NEW c \in Clients, NEW bytes \in Seq(Unit), Loads(bytes)
    PROVE  /\ Carries(bytes, "query") /\ Complete(bytes)
           /\ QueryOf(c, bytes) => bytes[1].item = asked[c]
<1>1. PICK k \in 1 .. Len(bytes) : /\ bytes[k].left = 0
                                   /\ \A i \in 1 .. k : bytes[i].kind = "query"
  BY DEF Loads
<1>2. k \in Nat /\ k \in 1 .. k /\ 1 \in 1 .. k /\ 1 \in 1 .. Len(bytes)
  BY LenProperties
<1>3. bytes[k].kind = "query" /\ bytes[1].kind = "query"
  BY <1>1, <1>2
<1> QED
  BY <1>1, <1>2, <1>3 DEF Carries, Complete, QueryOf

\* Gathering more of the only query, the server has the end of it only when it
\* has taken all that was sent.
LEMMA QueryGathered ==
    ASSUME NEW c \in Clients, NEW s \in Seq(Unit), NEW t \in Seq(Unit),
           NEW n \in 1 .. Len(t),
           QueryOf(c, s), ~ Complete(s), QueryOf(c, t)
    PROVE  /\ QueryOf(c, s \o Taken(t, n))
           /\ Complete(s \o Taken(t, n)) => Rest(t, n) = <<>>
<1> DEFINE u == s \o Taken(t, n)
<1>1. /\ Taken(t, n) \in Seq(Unit) /\ Len(Taken(t, n)) = n
      /\ \A i \in 1 .. n : i \in 1 .. Len(t) /\ Taken(t, n)[i] = t[i]
      /\ Len(t) \in Nat
  BY TakenFacts, TakenUnits, LenProperties
<1>2. /\ Len(u) = Len(s) + n /\ Len(s) \in Nat
      /\ \A i \in 1 .. Len(u) : \/ i \in 1 .. Len(s) /\ u[i] = s[i]
                                \/ i - Len(s) \in 1 .. n /\ u[i] = t[i - Len(s)]
  BY <1>1, JoinedUnits
<1> HIDE DEF u
<1>3. ASSUME NEW i \in 1 .. Len(u), u[i].kind = "query"
      PROVE  /\ u[i].item = asked[c]
             /\ u[i].left = 0 => i = Len(u) /\ n = Len(t)
  <2>1. CASE i \in 1 .. Len(s) /\ u[i] = s[i]
    BY <1>3, <2>1 DEF QueryOf, Complete
  <2>2. CASE i - Len(s) \in 1 .. n /\ u[i] = t[i - Len(s)]
    <3>1. i - Len(s) \in 1 .. Len(t)
      BY <1>1, <2>2
    <3>2. /\ t[i - Len(s)].item = asked[c]
          /\ t[i - Len(s)].left = 0 => i - Len(s) = Len(t)
      BY <1>3, <2>2, <3>1 DEF QueryOf
    <3>3. i - Len(s) = Len(t) => i = Len(u) /\ n = Len(t)
      <4>1. Len(t) \in Nat /\ Len(s) \in Nat /\ n \in 1 .. Len(t) /\ i \in Int
        BY <1>1, <1>2
      <4>2. i - Len(s) <= n
        BY <1>1, <2>2
      <4> QED
        BY <1>2, <4>1, <4>2
    <3> QED
      BY <2>2, <3>2, <3>3
  <2> QED
    BY <1>2, <2>1, <2>2
<1>4. QueryOf(c, u)
  BY <1>3 DEF QueryOf
<1>5. Complete(u) => n = Len(t)
  BY <1>3 DEF Complete
<1> QED
  BY <1>4, <1>5, RestFacts DEF u

\* What a read of the query loop does to what is known of the client served.
LEMMA QueryReadFacts ==
    ASSUME TypeInv, ServiceInv, NEW c \in Clients, conn = c, spc = "query",
           NEW n \in ReadLengths(toServer[c], Buf), ServerTakes(n),
           got' = got \o Taken(toServer[c], n),
           cpc[c] # "gone"
    PROVE  \/ /\ \/ cpc[c] \notin {"size", "reply"} /\ Idle(c)
                 \/ cpc[c] = "reply" /\ Replied(c)
              /\ ~ Carries(toServer'[c], "query") /\ ~ Carries(got', "query")
           \/ /\ cpc[c] = "size" /\ Asking(c)
              /\ QueryOf(c, toServer'[c]) /\ QueryOf(c, got')
              /\ Complete(got') => toServer'[c] = <<>>
           \/ cpc[c] = "reply" /\ Misled(c)
<1>1. /\ toServer[c] \in Seq(Unit) /\ toServer[c] # <<>> /\ n \in 1 .. Len(toServer[c])
      /\ toServer'[c] = Rest(toServer[c], n)
      /\ got \in Seq(Unit) /\ Taken(toServer[c], n) \in Seq(Unit)
  BY ServerReads, TakenFacts DEF TypeInv, MemoryTypes
<1>2. ~ Sized(c) /\ ~ Acked(c)
  BY <1>1 DEF Sized, Acked
<1>3. ASSUME ~ Carries(toServer[c], "query"), ~ Carries(got, "query")
      PROVE  ~ Carries(toServer'[c], "query") /\ ~ Carries(got', "query")
  <2>1. /\ ~ Carries(Rest(toServer[c], n), "query")
        /\ ~ Carries(Taken(toServer[c], n), "query")
    BY <1>1, <1>3, CarriesRest
  <2>2. ~ Carries(got \o Taken(toServer[c], n), "query")
    BY <1>1, <1>3, <2>1, CarriesJoined
  <2> QED
    BY <1>1, <2>1, <2>2
<1>4. CASE cpc[c] = "size" /\ Asking(c)
  <2>1. QueryOf(c, toServer[c]) /\ QueryOf(c, got) /\ ~ Complete(got)
    BY <1>1, <1>4 DEF Asking
  <2>2. /\ QueryOf(c, got \o Taken(toServer[c], n))
        /\ Complete(got \o Taken(toServer[c], n)) => Rest(toServer[c], n) = <<>>
    BY <1>1, <2>1, QueryGathered
  <2>3. QueryOf(c, Rest(toServer[c], n))
    BY <1>1, <2>1, QueryOfRest
  <2> QED
    BY <1>1, <1>4, <2>2, <2>3
<1>5. CASE cpc[c] \notin {"size", "reply"} /\ Idle(c)
  BY <1>3, <1>5 DEF Idle
<1>6. CASE cpc[c] = "reply" /\ Replied(c)
  BY <1>3, <1>6 DEF Replied
<1> QED
  BY <1>2, <1>4, <1>5, <1>6 DEF ServiceInv, TalkInv, Talk

LEMMA ReadQueryStep ==
    ASSUME TypeInv, ServiceInv, ServerReadQuery
    PROVE  ServiceInv'
<1> USE DEF FixedKinds
<1>1. PICK c \in Clients : c = conn
  BY AtRead DEF ServerReadQuery
<1>2. /\ spc = "query" /\ UNCHANGED <<clientVars, cpc, asked, keyed, key0>>
      /\ StreamTypes /\ keyed \subseteq Clients
      /\ c \in keyed /\ key0 = c
      /\ toClient[c] \in Seq(Unit)
  BY <1>1, AtRead DEF ServerReadQuery, clientVars, ServiceInv, KeyInv, TypeInv, ControlTypes
<1>3. Msg("size") \in Seq(Unit) /\ Msg("size") # <<>> /\ Msg("size")[1].kind = "size"
  <2>1. /\ Msg("size") \in Seq(Unit) /\ Len(Msg("size")) # 0
        /\ Msg("size")[1].kind = "size"
    BY MsgFacts
  <2> QED
    BY <2>1, EmptySeq
<1>4. ASSUME NEW bytes, Answers(bytes), ~ Dies
      PROVE  /\ Loads(bytes) /\ answer' = bytes[1].item
             /\ spc' = "ack" /\ UNCHANGED <<conn, backlog, open>>
             /\ toClient'[c] = toClient[c] \o Msg("size")
             /\ \A d \in Clients \ {c} : toClient'[d] = toClient[d]
  BY <1>1, <1>2, <1>3, <1>4, ServerSendsFacts DEF Answers
<1>5. CASE QueryAtEnd
  <2>1. cpc[c] = "gone" /\ UNCHANGED toServer
    BY <1>1, <1>5 DEF QueryAtEnd, ServerAtEnd, ServerReset
  <2>2. CASE Dies
    BY <1>2, <2>1, <2>2, ServiceDiesStep
  <2>3. CASE ~ Dies
    <3>1. Answers(got)
      BY <1>5, <2>3 DEF QueryAtEnd
    <3>2. Talk(c)'
      BY <1>2, <2>1 DEF Talk
    <3> QED
      BY <1>1, <1>2, <1>4, <2>1, <2>3, <3>1, <3>2, ServesOn
  <2> QED
    BY <2>2, <2>3
<1>6. ASSUME NEW n \in ReadLengths(toServer[c], Buf), ServerTakes(n),
             got' = got \o Taken(toServer[c], n),
             GoesTo("query") \/ Answers(got')
      PROVE  ServiceInv'
  <2>1. /\ TookFrom(c) /\ n \in 1 .. Len(toServer[c]) /\ toServer[c] \in Seq(Unit)
        /\ \A d \in Clients \ {c} : toServer'[d] = toServer[d]
    BY <1>1, <1>6, ServerReads
  <2>2. CASE Dies
    BY <1>1, <1>2, <1>6, <2>1, <2>2, ServiceDiesStep
  <2>3. CASE GoesTo("query")
    <3>1. spc' = "query" /\ UNCHANGED <<conn, backlog, open, toClient>>
      BY <2>3 DEF GoesTo
    <3>2. cpc[c] \notin {"size", "reply", "gone"} => Idle(c)'
      BY <1>1, <1>2, <1>6, <3>1, QueryReadFacts DEF Idle, NoAnswer, Carries
    <3>3. cpc[c] = "size" => Asking(c)'
      BY <1>1, <1>2, <1>6, <3>1, QueryReadFacts
      DEF Asking, NoAnswer, Carries, QueryOf, Complete
    <3>4. cpc[c] = "reply" => Replied(c)' \/ Misled(c)'
      BY <1>1, <1>2, <1>6, <3>1, QueryReadFacts DEF Replied, Misled, Carries
    <3>5. Talk(c)'
      BY <1>2, <3>2, <3>3, <3>4 DEF Talk
    <3> QED
      BY <1>1, <1>2, <2>1, <3>1, <3>5, ServesOn
  <2>4. CASE Answers(got') /\ ~ Dies
    <3>1. /\ Loads(got') /\ answer' = got'[1].item
          /\ spc' = "ack" /\ UNCHANGED <<conn, backlog, open>>
          /\ toClient'[c] = toClient[c] \o Msg("size")
          /\ \A d \in Clients \ {c} : toClient'[d] = toClient[d]
      BY <1>4, <2>4
    <3>2. got' \in Seq(Unit)
      BY <1>6, <2>1, TakenFacts, ConcatProperties DEF TypeInv, MemoryTypes
    <3>3. /\ Carries(got', "query") /\ Complete(got')
          /\ QueryOf(c, got') => answer' = asked[c]
      BY <3>1, <3>2, LoadsFacts
    <3>4. \/ cpc[c] = "gone"
          \/ cpc[c] = "size" /\ Asking(c) /\ answer' = asked[c] /\ toServer'[c] = <<>>
          \/ cpc[c] = "reply" /\ Misled(c)
      BY <1>1, <1>2, <1>6, <3>3, QueryReadFacts
    <3>5. ASSUME cpc[c] = "size" PROVE Sized(c)'
      <4>1. ~ Carries(toClient[c], "reply")
        BY <3>4, <3>5 DEF Asking, NoAnswer
      <4>2. ~ Carries(toClient[c] \o Msg("size"), "reply")
        <5>1. ~ Carries(Msg("size"), "reply")
          BY CarriesMsg DEF Kinds
        <5> QED
          BY <1>2, <1>3, <4>1, <5>1, CarriesJoined
      <4> QED
        BY <1>2, <3>1, <3>4, <3>5, <4>2 DEF Sized, Carries
    <3>6. cpc[c] = "reply" => Misled(c)'
      BY <1>1, <1>2, <1>3, <3>1, <3>4, MisledKept
    <3>7. Talk(c)'
      BY <1>2, <3>4, <3>5, <3>6 DEF Talk
    <3> QED
      BY <1>1, <1>2, <2>1, <3>1, <3>7, ServesOn
  <2> QED
    BY <1>6, <2>2, <2>3, <2>4
<1> QED
  BY <1>1, <1>5, <1>6 DEF ServerReadQuery

\* What is read as the ACK is of the ACK, and the reply is to the ad asked for.
LEMMA ReadAckStep ==
    ASSUME TypeInv, ServiceInv, ServerReadAck
    PROVE  ServiceInv'
<1>1. PICK c \in Clients : c = conn
  BY AtRead DEF ServerReadAck
<1>2. /\ spc = "ack" /\ UNCHANGED <<clientVars, cpc, asked, keyed, key0>> /\ got' = <<>>
      /\ StreamTypes /\ keyed \subseteq Clients
      /\ c \in keyed /\ key0 = c /\ Talk(c)
  BY <1>1, AtRead DEF ServerReadAck, clientVars, ServiceInv, KeyInv
<1> DEFINE reply == Units("reply", answer, Size["reply"])
<1>3. reply \in Seq(Unit)
  BY UnitsFacts, SessionAssumption DEF Kinds, FixedKinds, TypeInv, MemoryTypes
<1>4. ServerSends(reply, "query")
  BY DEF ServerReadAck
<1>5. \/ /\ ServerAtEnd /\ UNCHANGED toServer
      \/ \E n \in ReadLengths(toServer[c], Size["ACK"]) : ServerTakes(n)
  BY <1>1 DEF ServerReadAck
<1> HIDE DEF reply
<1>6. /\ TookFrom(c)
      /\ UNCHANGED toServer \/ \E n \in 1 .. Len(toServer[c]) : ServerTakes(n)
      /\ \A d \in Clients \ {c} : toServer'[d] = toServer[d]
      /\ cpc[c] = "gone" \/ \E n \in 1 .. Len(toServer[c]) : toServer'[c] = Rest(toServer[c], n)
  BY <1>1, <1>5, ServerReads DEF ServerAtEnd, TookFrom
<1>7. CASE Dies
  BY <1>1, <1>2, <1>6, <1>7, ServiceDiesStep
<1>8. CASE ~ Dies
  <2>1. /\ spc' = "query" /\ UNCHANGED <<conn, backlog, open>>
        /\ toClient'[c] = toClient[c] \o reply
        /\ \A d \in Clients \ {c} : toClient'[d] = toClient[d]
    BY <1>1, <1>2, <1>3, <1>4, <1>8, ServerSendsFacts
  <2>2. ASSUME cpc[c] # "gone"
        PROVE  cpc[c] = "reply" /\ (Replied(c)' \/ Misled(c)')
    <3>1. PICK n \in 1 .. Len(toServer[c]) : toServer'[c] = Rest(toServer[c], n)
      BY <1>6, <2>2
    <3>2. toServer[c] \in Seq(Unit) /\ toServer[c] # <<>>
      BY <3>1, EmptySeq, LenProperties DEF TypeInv
    <3>3. cpc[c] = "reply" /\ (Acked(c) \/ Misled(c))
      BY <1>1, <1>2, <2>2, <3>2 DEF Talk, Idle, Asking, Sized, Replied
    <3>4. CASE Acked(c)
      <4>1. ~ Carries(Rest(toServer[c], n), "query") /\ ~ Carries(<<>>, "query")
        BY <3>2, <3>4, CarriesRest, CarriesNone DEF Acked
      <4>2. toClient'[c] = reply
        BY <1>3, <2>1, <3>4, ConcatEmptySeq DEF Acked
      <4>3. Replied(c)'
        BY <1>1, <1>2, <2>1, <3>1, <3>4, <4>1, <4>2 DEF Acked, Replied, Carries, reply
      <4> QED
        BY <3>3, <4>3
    <3>5. CASE Misled(c)
      <4>1. toClient[c] # <<>> /\ toClient[c] \in Seq(Unit)
        BY <1>1, <1>2, <3>5 DEF Misled, TypeInv, ControlTypes
      <4>2. toClient'[c] # <<>> /\ toClient'[c][1] = toClient[c][1]
        BY <1>3, <2>1, <4>1, JoinedHead
      <4> QED
        BY <3>3, <3>5, <4>1, <4>2 DEF Misled
    <3> QED
      BY <3>3, <3>4, <3>5
  <2>3. Talk(c)'
    BY <1>2, <2>2 DEF Talk
  <2> QED
    BY <1>1, <1>2, <1>6, <2>1, <2>3, ServesOn
<1> QED
  BY <1>7, <1>8

LEMMA CrashStep ==
    ASSUME TypeInv, ServiceInv, ServerCrash
    PROVE  ServiceInv'
  BY ServiceDiesStep DEF ServerCrash, TypeInv, MemoryTypes

LEMMA RestartStep ==
    ASSUME TypeInv, ServiceInv, ServerRestart
    PROVE  ServiceInv'
<1>1. /\ spc = "down" /\ spc' = "accept"
      /\ UNCHANGED <<conn, backlog, open, cpc, asked, toServer, toClient, keyed>>
      /\ conn = NoClient /\ NoClient \notin Clients
  BY SessionAssumption DEF ServerRestart, clientVars, ServiceInv, HoldInv, TypeInv, ControlTypes
<1>2. HoldInv'
  BY <1>1 DEF ServiceInv, HoldInv, Held
<1>3. \A d \in Clients : Talk(d)' /\ (d \notin keyed => BeforeKey(d)')
  BY <1>1, OtherTalk, OtherBeforeKey DEF ServiceInv, TalkInv, KeyInv
<1> QED
  BY <1>1, <1>2, <1>3 DEF ServiceInv, KeyInv, TalkInv

-----------------------------------------------------------------------------
(* The invariant holds for ever.                                           *)

LEMMA ServiceInit == Init => ServiceInv
<1> SUFFICES ASSUME Init PROVE ServiceInv
  OBVIOUS
<1>1. Len(<<>>) = 0 /\ NoClient \notin Clients
  BY EmptySeq, SessionAssumption
<1>2. HoldInv
  BY <1>1 DEF Init, HoldInv
<1>3. KeyInv
  BY <1>1 DEF Init, KeyInv, BeforeKey, OneAckLast
<1>4. TalkInv
  BY <1>1 DEF Init, TalkInv, Talk, Idle, NoAnswer, Carries
<1> QED
  BY <1>2, <1>3, <1>4 DEF ServiceInv

LEMMA ServiceStep == TypeInv /\ ServiceInv /\ [Next]_vars => ServiceInv'
<1> SUFFICES ASSUME TypeInv, ServiceInv, [Next]_vars PROVE ServiceInv'
  OBVIOUS
<1>1. CASE ServerStep
  BY <1>1, AcceptStep, ReadConnectStep, ReadGalLenStep, ReadGalKeyStep, ReadObtainStep,
     ReadQueryStep, ReadAckStep DEF ServerStep
<1>2. ASSUME NEW c \in Clients, ClientStep(c) PROVE ServiceInv'
  BY <1>2, ReadParamsStep, ReadAck1Step, ReadAck2Step, ReadAdsStep, ReadSizeStep, ReadReplyStep
  DEF ClientStep
<1>3. ASSUME NEW c \in Clients, ClientConnect(c) \/ Click(c) \/ Leave(c) PROVE ServiceInv'
  BY <1>3, ConnectStep, ServiceClickStep, ServiceLeaveStep
<1>4. CASE UNCHANGED vars
  <2>1. UNCHANGED <<spc, conn, backlog, open, got, key0, answer, keyed, cpc, asked, toServer, toClient>>
    BY <1>4 DEF vars, control, memory, clientVars
  <2>2. HoldInv'
    BY <2>1 DEF ServiceInv, HoldInv, Held
  <2>3. \A d \in Clients : Talk(d)' /\ (d \notin keyed => BeforeKey(d)')
    BY <2>1, OtherTalk, OtherBeforeKey DEF ServiceInv, TalkInv, KeyInv
  <2> QED
    BY <2>1, <2>2, <2>3 DEF ServiceInv, KeyInv, TalkInv
<1> QED
  BY <1>1, <1>2, <1>3, <1>4, CrashStep, RestartStep DEF Next

LEMMA SessionServiceInv == Spec => []ServiceInv
  BY ServiceInit, ServiceStep, SessionTypeInv, PTL DEF Spec

\* main_server.cpp keeps the key of a client under id 0: two clients are never
\* past the set-up on one process of it, whatever was cut, and however often the
\* process before it crashed.
THEOREM OneClientServedAlways == Spec => []OneClientServed
<1>1. ServiceInv => OneClientServed
  BY DEF ServiceInv, HoldInv, Held, OneClientServed, PastSetup
<1> QED
  BY <1>1, SessionServiceInv, PTL

\* user.cpp:297-310 inserts the ad under adRequested: the ad in the reply that
\* loads is that ad, whatever was cut, left over or crashed before.
THEOREM ReplyCorrectAlways == Spec => []ReplyCorrect
<1>1. Init => ReplyCorrect
  BY DEF Init, ReplyCorrect
<1>2. TypeInv /\ ServiceInv /\ ReplyCorrect /\ [Next]_vars => ReplyCorrect'
  <2> SUFFICES ASSUME TypeInv, ServiceInv, ReplyCorrect, [Next]_vars PROVE ReplyCorrect'
    OBVIOUS
  <2>1. CASE UNCHANGED stored
    BY <2>1 DEF ReplyCorrect
  <2>2. ASSUME NEW c \in Clients, ClientReadReply(c) PROVE ReplyCorrect'
    <3>1. \/ UNCHANGED stored
          \/ stored' = [stored EXCEPT ![c] = [number |-> asked[c], ad |-> asked[c]]]
      BY <2>2, ReadReplyStep
    <3>2. ASSUME NEW d \in Clients PROVE stored'[d].number = stored'[d].ad
      <4>1. stored'[d] = stored[d] \/ stored'[d] = [number |-> asked[c], ad |-> asked[c]]
        BY <3>1 DEF TypeInv, ClientTypes
      <4> QED
        BY <4>1 DEF ReplyCorrect
    <3> QED
      BY <3>2 DEF ReplyCorrect
  <2>3. ASSUME NEW c \in Clients,
               \/ ClientReadParams(c) \/ ClientReadAck1(c) \/ ClientReadAck2(c)
               \/ ClientReadAds(c) \/ ClientReadSize(c)
               \/ ClientConnect(c) \/ Click(c) \/ Leave(c)
        PROVE  UNCHANGED stored
    BY <2>3 DEF ClientReadParams, ClientReadAck1, ClientReadAck2, ClientReadAds,
                ClientReadSize, ClientConnect, Click, Leave
  <2>4. CASE ServerStep \/ ServerCrash \/ ServerRestart \/ UNCHANGED vars
    BY <2>1, <2>4 DEF ServerStep, ServerAccept, ServerReadConnect, ServerReadGalLen,
       ServerReadGalKey, ServerReadObtain, ServerReadQuery, ServerReadAck,
       ServerCrash, ServerRestart, vars, clientVars
  <2> QED
    BY <2>1, <2>2, <2>3, <2>4 DEF Next, ClientStep
<1> QED
  BY <1>1, <1>2, SessionTypeInv, SessionServiceInv, PTL DEF Spec

\* What a client takes for its ads before its key is stored is too little to
\* pass (user.cpp:478), and nothing but the rest of an ACK: "Setup done" said too
\* early, over a cut ACK or cut parameters, is never followed by ads.
THEOREM NoAdsBeforeKeyAlways == Spec => []NoAdsBeforeKey
<1>1. TypeInv /\ ServiceInv => NoAdsBeforeKey
  <2> SUFFICES ASSUME TypeInv, ServiceInv, NEW c \in Clients \ keyed, PastSetup(c)
               PROVE  /\ cpc[c] = "ads"
                      /\ \A i \in 1 .. Len(toClient[c]) : toClient[c][i].kind = "ACK"
                      /\ Len(toClient[c]) < Size["ads"]
    BY DEF NoAdsBeforeKey
  <2>1. cpc[c] = "ads" /\ AckLeft(toClient[c])
    BY DEF ServiceInv, KeyInv, BeforeKey, PastSetup
  <2>2. Len(toClient[c]) \in Nat
    BY LenProperties DEF TypeInv, ControlTypes
  <2>3. /\ Size["ACK"] \in Nat /\ Size["ads"] \in Nat /\ Size["ACK"] <= Size["ads"]
    BY SessionAssumption DEF FixedKinds
  <2> QED
    BY <2>1, <2>2, <2>3 DEF AckLeft
<1> QED
  BY <1>1, SessionServiceInv, SessionTypeInv, PTL

-----------------------------------------------------------------------------
(* No running client is left on a connection the server has forgotten,     *)
(* but for one whose connect came in pieces.                               *)

\* A client that waits in the backlog has written its connect, and waits there
\* once.
NotForgottenInv ==
    /\ NoClientForgotten
    /\ \A i \in 1 .. Len(backlog) :
           /\ toServer[backlog[i]] = Msg("connect")
           /\ backlog[i] # conn
           /\ \A j \in 1 .. Len(backlog) : backlog[j] = backlog[i] => j = i
    /\ spc = "connect" => toServer[conn] = Msg("connect")

\* A step of a client leaves the server where it is, and revives nobody.
LEMMA ClientStays ==
    ASSUME StreamTypes, NEW c \in Clients, ClientStep(c) \/ Click(c) \/ Leave(c)
    PROVE  /\ UNCHANGED <<control, keyed>>
           /\ \A d \in Clients \ {c} : cpc'[d] = cpc[d] /\ toServer'[d] = toServer[d]
           /\ cpc[c] \notin {"off", "gone"}
<1>1. UNCHANGED <<control, keyed>> /\ cpc[c] \notin {"off", "gone"}
  BY DEF ClientStep, Click, Leave, ClientReadParams, ClientReadAck1, ClientReadAck2,
         ClientReadAds, ClientReadSize, ClientReadReply
<1>2. ASSUME NEW message, NEW next, ClientWrites(c, message, next)
      PROVE  \A d \in Clients \ {c} : cpc'[d] = cpc[d] /\ toServer'[d] = toServer[d]
  BY <1>2 DEF ClientWrites, ClientGoesTo, StreamTypes
<1>3. ASSUME NEW next, ClientGoesTo(c, next)
      PROVE  \A d \in Clients \ {c} : cpc'[d] = cpc[d] /\ toServer'[d] = toServer[d]
  BY <1>3 DEF ClientGoesTo, StreamTypes
<1>4. \/ \E message, next : ClientWrites(c, message, next)
      \/ \E next : ClientGoesTo(c, next)
  BY DEF ClientStep, Click, WritesQuery, QueryFails, Leave, ClientReadParams,
         ClientReadAck1, ClientReadAck2, ClientReadAds, ClientReadSize, ClientReadReply
<1> QED
  BY <1>1, <1>2, <1>3, <1>4

\* A client that the server has not answered can do nothing but leave.
LEMMA UnheldLeaves ==
    ASSUME TypeInv, HoldInv, NEW c \in open, ~ Held(c),
           ClientStep(c) \/ Click(c) \/ Leave(c)
    PROVE  UNCHANGED toServer /\ cpc'[c] = "gone"
<1>1. /\ c \in Clients /\ cpc \in [Clients -> ClientPcs]
      /\ cpc[c] \in {"params", "gone"} /\ toClient[c] = <<>>
  BY DEF HoldInv, TypeInv, ControlTypes, ClientTypes
<1>2. Len(toClient[c]) = 0
  BY <1>1, EmptySeq
<1>3. Leave(c)
  BY <1>1, <1>2
  DEF ClientStep, Click, ClientReadParams, ClientReadAck1, ClientReadAck2,
      ClientReadAds, ClientReadSize, ClientReadReply, ClientAtEnd, ReadLengths
<1> QED
  BY <1>1, <1>3 DEF Leave, ClientGoesTo

\* A read of the server ends its process, or sends it back to accept from a
\* client whose connect it did not take, or keeps its connection.
LEMMA ServerKeeps ==
    ASSUME TypeInv, ServiceInv, ServerStep, ~ ServerAccept
    PROVE  /\ UNCHANGED cpc
           /\ conn \in open /\ open \subseteq Clients
           /\ \A d \in Clients \ {conn} : toServer'[d] = toServer[d]
           /\ \/ Dies
              \/ ServerReadConnect /\ WrongRequest
              \/ UNCHANGED <<conn, backlog, open>> /\ spc' \notin {"accept", "connect", "down"}
<1>1. spc \notin {"accept", "spin", "down"}
  BY DEF ServerStep, ServerReadConnect, ServerReadGalLen, ServerReadGalKey,
         ServerReadObtain, ServerReadQuery, ServerReadAck
<1>2. conn \in open /\ conn \in Clients /\ StreamTypes /\ open \subseteq Clients
  BY <1>1, AtRead DEF TypeInv, ControlTypes
<1>3. UNCHANGED toServer \/ \E n : ServerTakes(n)
  BY DEF ServerStep, ServerReadConnect, ServerReadGalLen, ServerReadGalKey,
         ServerReadObtain, ServerReadQuery, ServerReadAck, KeyEmpty, KeyAtEnd, QueryAtEnd
<1>4. \A d \in Clients \ {conn} : toServer'[d] = toServer[d]
  BY <1>2, <1>3 DEF ServerTakes, StreamTypes
<1>5. ASSUME NEW message, NEW next, next \notin {"accept", "connect", "down"},
             ServerSends(message, next) \/ GoesTo(next)
      PROVE  \/ Dies
             \/ UNCHANGED <<conn, backlog, open>> /\ spc' \notin {"accept", "connect", "down"}
  BY <1>5 DEF ServerSends, GoesTo
<1>6. CASE ServerReadConnect
  BY <1>2, <1>4, <1>5, <1>6 DEF ServerReadConnect, clientVars
<1>7. CASE ServerReadGalLen
  BY <1>2, <1>4, <1>5, <1>7 DEF ServerReadGalLen, clientVars
<1>8. CASE ServerReadGalKey
  <2>1. KeyIncomplete \/ KeyComplete \/ KeyDamaged \/ KeyEmpty \/ KeyAtEnd
    BY <1>8 DEF ServerReadGalKey
  <2>2. Dies \/ GoesTo("galKey") \/ GoesTo("spin") \/ ServerSends(Msg("ACK"), "obtain")
    BY <2>1 DEF KeyIncomplete, KeyComplete, KeyDamaged, KeyEmpty, KeyAtEnd
  <2>3. UNCHANGED cpc
    BY <1>8 DEF ServerReadGalKey, clientVars
  <2> QED
    BY <1>2, <1>4, <1>5, <2>2, <2>3
<1>9. CASE ServerReadObtain
  BY <1>2, <1>4, <1>5, <1>9 DEF ServerReadObtain, clientVars
<1>10. CASE ServerReadQuery
  <2>1. GoesTo("query") \/ Answers(got') \/ QueryAtEnd
    BY <1>10 DEF ServerReadQuery
  <2>2. Dies \/ GoesTo("query") \/ ServerSends(Msg("size"), "ack")
    BY <2>1, AnswersFacts DEF QueryAtEnd
  <2>3. UNCHANGED cpc
    BY <1>10 DEF ServerReadQuery, clientVars
  <2> QED
    BY <1>2, <1>4, <1>5, <2>2, <2>3
<1>11. CASE ServerReadAck
  BY <1>2, <1>4, <1>5, <1>11 DEF ServerReadAck, clientVars
<1> QED
  BY <1>6, <1>7, <1>8, <1>9, <1>10, <1>11 DEF ServerStep

\* Of a connect that it did not take, the server leaves a part.
LEMMA WrongRequestLeaves ==
    ASSUME TypeInv, ServiceInv, NotForgottenInv, ServerReadConnect, WrongRequest
    PROVE  \/ cpc[conn] = "gone"
           \/ /\ cpc[conn] = "params"
              /\ toServer'[conn] # <<>> /\ Len(toServer'[conn]) < Size["connect"]
<1>1. /\ spc = "connect" /\ conn \in Clients /\ StreamTypes
      /\ toServer[conn] = Msg("connect")
      /\ cpc[conn] \in {"params", "gone"}
  BY AtRead DEF ServerReadConnect, NotForgottenInv, ServiceInv, HoldInv, Held
<1>2. /\ Msg("connect") \in Seq(Unit) /\ Len(Msg("connect")) = Size["connect"]
      /\ Size["connect"] \in Nat
  BY MsgFacts DEF FixedKinds
<1>3. CASE ServerAtEnd
  BY <1>3 DEF ServerAtEnd
<1>4. ASSUME NEW n \in ReadLengths(toServer[conn], Ample(toServer[conn])), ServerTakes(n),
             Taken(toServer[conn], n) # Msg("connect")
      PROVE  toServer'[conn] # <<>> /\ Len(toServer'[conn]) < Size["connect"]
  <2>1. n \in 1 .. Size["connect"]
    BY <1>1, <1>2, ReadLengthsFacts
  <2>2. n # Size["connect"]
    BY <1>1, <1>2, <1>4, WholeTaken
  <2>3. toServer'[conn] = Rest(Msg("connect"), n)
    BY <1>1, <1>4 DEF ServerTakes, StreamTypes
  <2>4. Len(Rest(Msg("connect"), n)) = Size["connect"] - n
    BY <1>2, <2>1, RestFacts
  <2> QED
    BY <1>2, <2>1, <2>2, <2>3, <2>4, EmptySeq
<1>5. \/ ServerAtEnd
      \/ \E n \in ReadLengths(toServer[conn], Ample(toServer[conn])) :
             ServerTakes(n) /\ Taken(toServer[conn], n) # Msg("connect")
  BY DEF ServerReadConnect, WrongRequest, ServerSends, Dies
<1> QED
  BY <1>1, <1>3, <1>4, <1>5

LEMMA NotForgottenStep ==
    ASSUME TypeInv, ServiceInv, NotForgottenInv, [Next]_vars
    PROVE  NotForgottenInv'
<1> USE DEF NotForgottenInv, NoClientForgotten
<1>1. /\ StreamTypes /\ open \subseteq Clients /\ NoClient \notin Clients
      /\ HoldInv
      /\ \A i \in 1 .. Len(backlog) : backlog[i] \in open
      /\ conn \in Clients => conn \in open
  BY SessionAssumption, TypeInvTypes DEF TypeInv, ControlTypes, ServiceInv, HoldInv
<1>2. ASSUME NEW c \in Clients, ClientStep(c) \/ Click(c) \/ Leave(c)
      PROVE  NotForgottenInv'
  <2>1. /\ UNCHANGED <<spc, conn, backlog, open>>
        /\ \A d \in Clients \ {c} : cpc'[d] = cpc[d] /\ toServer'[d] = toServer[d]
        /\ cpc[c] # "gone"
    BY <1>1, <1>2, ClientStays DEF control
  <2>2. c \in open /\ ~ Held(c) => toServer'[c] = toServer[c] /\ cpc'[c] = "gone"
    BY <1>1, <1>2, UnheldLeaves
  <2>3. Held(c) => conn = c /\ spc # "connect"
    BY DEF Held
  <2>4. NoClientForgotten'
    BY <2>1, <2>2, <2>3, <1>1
  <2>5. \A i \in 1 .. Len(backlog) : toServer'[backlog[i]] = toServer[backlog[i]]
    BY <1>1, <2>1, <2>2, <2>3
  <2>6. spc = "connect" => toServer'[conn] = Msg("connect")
    <3>1. spc = "connect" => conn \in Clients
      BY AtRead
    <3> QED
      BY <1>1, <2>1, <2>2, <2>3, <3>1
  <2> QED
    BY <2>1, <2>4, <2>5, <2>6
<1>3. ASSUME NEW c \in Clients, ClientConnect(c)
      PROVE  NotForgottenInv'
  <2>1. CASE spc = "down"
    BY <1>1, <1>3, <2>1 DEF ClientConnect, ClientGoesTo, StreamTypes
  <2>2. CASE spc # "down"
    <3>1. /\ backlog' = Append(backlog, c) /\ open' = open \cup {c}
          /\ cpc'[c] = "params" /\ toServer'[c] = Msg("connect")
          /\ \A d \in Clients \ {c} : cpc'[d] = cpc[d] /\ toServer'[d] = toServer[d]
          /\ UNCHANGED <<spc, conn>>
          /\ c \notin open
      BY <1>1, <1>3, <2>2 DEF ClientConnect, StreamTypes, HoldInv
    <3>2. /\ Len(backlog') = Len(backlog) + 1 /\ Len(backlog) \in Nat
          /\ \A i \in 1 .. Len(backlog) : backlog'[i] = backlog[i]
          /\ backlog'[Len(backlog) + 1] = c
      BY <1>1, <3>1, AppendProperties, LenProperties DEF StreamTypes
    <3>3. \A i \in 1 .. Len(backlog') : i \in 1 .. Len(backlog) \/ i = Len(backlog) + 1
      BY <3>2
    <3>4. NoClientForgotten'
      <4>1. \E i \in 1 .. Len(backlog') : backlog'[i] = c
        BY <3>2
      <4>2. \A d \in open : (\E i \in 1 .. Len(backlog) : backlog[i] = d)
                                => \E i \in 1 .. Len(backlog') : backlog'[i] = d
        BY <3>2
      <4> QED
        BY <1>1, <3>1, <4>1, <4>2
    <3>5. \A i \in 1 .. Len(backlog') :
              toServer'[backlog'[i]] = Msg("connect") /\ backlog'[i] # conn'
      BY <1>1, <3>1, <3>2, <3>3
    <3>6. \A i, j \in 1 .. Len(backlog') : backlog'[j] = backlog'[i] => j = i
      BY <1>1, <3>1, <3>2, <3>3
    <3>7. spc' = "connect" => toServer'[conn'] = Msg("connect")
      <4>1. spc = "connect" => conn \in Clients
        BY AtRead
      <4> QED
        BY <1>1, <3>1, <4>1
    <3> QED
      BY <3>4, <3>5, <3>6, <3>7
  <2> QED
    BY <2>1, <2>2
<1>4. CASE ServerAccept
  <2>1. /\ spc = "accept" /\ conn = NoClient /\ spc' = "connect"
        /\ backlog # <<>> /\ conn' = Head(backlog) /\ backlog' = Tail(backlog)
        /\ UNCHANGED <<open, cpc, toServer>>
    BY <1>1, <1>4 DEF ServerAccept, clientVars, HoldInv
  <2>2. /\ Len(backlog) \in Nat \ {0} /\ Len(backlog') = Len(backlog) - 1
        /\ conn' = backlog[1]
        /\ \A i \in 1 .. Len(backlog') : backlog'[i] = backlog[i + 1]
    BY <1>1, <2>1, HeadTailProperties, EmptySeq, LenProperties DEF StreamTypes
  <2>3. \A i \in 1 .. Len(backlog) :
            backlog[i] = conn' \/ \E j \in 1 .. Len(backlog') : backlog'[j] = backlog[i]
    <3> SUFFICES ASSUME NEW i \in 1 .. Len(backlog), i # 1
                 PROVE  \E j \in 1 .. Len(backlog') : backlog'[j] = backlog[i]
      BY <2>2
    <3>1. i - 1 \in 1 .. Len(backlog') /\ (i - 1) + 1 = i
      BY <2>2
    <3> QED
      BY <2>2, <3>1
  <2>4. NoClientForgotten'
    BY <1>1, <2>1, <2>3
  <2>5. ASSUME NEW i \in 1 .. Len(backlog')
        PROVE  /\ toServer[backlog'[i]] = Msg("connect") /\ backlog'[i] # conn'
               /\ \A j \in 1 .. Len(backlog') : backlog'[j] = backlog'[i] => j = i
    <3>1. i + 1 \in 1 .. Len(backlog) /\ i + 1 # 1 /\ 1 \in 1 .. Len(backlog)
      BY <2>2
    <3>2. ASSUME NEW j \in 1 .. Len(backlog'), backlog'[j] = backlog'[i] PROVE j = i
      <4>1. j + 1 \in 1 .. Len(backlog)
        BY <2>2
      <4>2. j + 1 = i + 1
        BY <2>2, <3>1, <3>2, <4>1
      <4> QED
        BY <4>2
    <3> QED
      BY <2>2, <3>1, <3>2
  <2>6. toServer[conn'] = Msg("connect")
    BY <2>2
  <2> QED
    BY <2>1, <2>4, <2>5, <2>6
<1>5. CASE ServerStep /\ ~ ServerAccept
  <2>1. /\ UNCHANGED cpc /\ conn \in open
        /\ \A d \in Clients \ {conn} : toServer'[d] = toServer[d]
    BY <1>5, ServerKeeps
  <2>2. \A i \in 1 .. Len(backlog) : toServer'[backlog[i]] = Msg("connect")
    BY <1>1, <2>1
  <2>3. CASE Dies
    BY <2>3, EmptySeq DEF Dies
  <2>4. CASE ServerReadConnect /\ WrongRequest
    <3>1. spc' = "accept" /\ conn' = NoClient /\ UNCHANGED <<backlog, open>>
      BY <2>4 DEF WrongRequest
    <3>2. NoClientForgotten'
      BY <1>1, <2>1, <2>4, <3>1, WrongRequestLeaves
    <3>3. \A i \in 1 .. Len(backlog) : backlog[i] # NoClient
      BY <1>1
    <3> QED
      BY <2>2, <3>1, <3>2, <3>3
  <2>5. CASE UNCHANGED <<conn, backlog, open>> /\ spc' \notin {"accept", "connect", "down"}
    <3>1. NoClientForgotten'
      BY <1>1, <2>1, <2>5
    <3> QED
      BY <2>2, <2>5, <3>1
  <2> QED
    BY <1>5, <2>3, <2>4, <2>5, ServerKeeps
<1>6. CASE ServerCrash
  BY <1>6, EmptySeq DEF ServerCrash, Dies
<1>7. CASE ServerRestart
  <2>1. open = {} /\ spc' = "accept" /\ UNCHANGED <<conn, backlog, open, toServer>>
    BY <1>1, <1>7 DEF ServerRestart, HoldInv
  <2> QED
    BY <1>1, <2>1
<1>8. CASE UNCHANGED vars
  BY <1>8 DEF vars, control, clientVars
<1> QED
  BY <1>2, <1>3, <1>4, <1>5, <1>6, <1>7, <1>8 DEF Next

\* A client that runs is the one served or waits in the backlog, or has lost its
\* connection, or is one that the server went back to accept from without
\* closing newsockfd (main_server.cpp:277-280): then its connect came in pieces,
\* the rest of it was never read, and the client waits for its parameters,
\* whatever else is cut, and whoever crashes or leaves.
THEOREM NoClientForgottenAlways == Spec => []NoClientForgotten
<1>1. Init => NotForgottenInv
  BY EmptySeq DEF Init, NotForgottenInv, NoClientForgotten
<1>2. TypeInv /\ ServiceInv /\ NotForgottenInv /\ [Next]_vars => NotForgottenInv'
  BY NotForgottenStep
<1>3. NotForgottenInv => NoClientForgotten
  BY DEF NotForgottenInv
<1> QED
  BY <1>1, <1>2, <1>3, SessionServiceInv, SessionTypeInv, PTL DEF Spec

-----------------------------------------------------------------------------
(* The refinement: each step of the conversation is a step of the service, *)
(* or none of it.                                                          *)

ServerOf  == IF spc = "down" THEN "down" ELSE "up"
HolderOf  == IF spc \in {"accept", "connect"} THEN NoClient ELSE conn
StatusOf  == [c \in Clients |-> Status[cpc[c]]]
RequestOf == [c \in Clients |-> IF Status[cpc[c]] = "waiting" THEN asked[c] ELSE NoAd]

LEMMA StatusFacts ==
    /\ Status["off"] = "away"
    /\ \A pc \in {"params", "ack1", "ack2", "ads"} : Status[pc] = "starting"
    /\ Status["prompt"] = "ready"
    /\ Status["size"] = "waiting" /\ Status["reply"] = "waiting"
    /\ Status["gone"] = "over"
  BY DEF Status

ServerStays == UNCHANGED <<ServerOf, HolderOf, keyed>>
ClientsStay == UNCHANGED <<StatusOf, RequestOf, stored>>

\* What a step of one client is for the service.
LEMMA ClientSeen ==
    ASSUME NEW c \in Clients,
           \A d \in Clients \ {c} : cpc'[d] = cpc[d] /\ asked'[d] = asked[d]
    PROVE  /\ StatusOf' = [StatusOf EXCEPT ![c] = Status[cpc'[c]]]
           /\ RequestOf' = [RequestOf EXCEPT ![c] =
                                IF Status[cpc'[c]] = "waiting" THEN asked'[c] ELSE NoAd]
<1>1. Status' = Status
  BY DEF Status
<1>2. StatusOf' = [StatusOf EXCEPT ![c] = Status[cpc'[c]]]
  BY <1>1 DEF StatusOf
<1>3. RequestOf' = [RequestOf EXCEPT ![c] =
                        IF Status[cpc'[c]] = "waiting" THEN asked'[c] ELSE NoAd]
  BY <1>1 DEF RequestOf
<1> QED
  BY <1>2, <1>3

\* The mapping of AdSession, read action by action.
LEMMA StutterSeen ==
    ASSUME ServerStays, ClientsStay
    PROVE  UNCHANGED Service!vars
  BY DEF ServerStays, ClientsStay, ServerOf, HolderOf, StatusOf, RequestOf,
         Service!vars, Service!serverVars, Service!clientVars

LEMMA TakeSeen ==
    ASSUME NEW c \in Clients, ClientsStay, UNCHANGED keyed,
           ServerOf = "up", ServerOf' = "up", HolderOf = NoClient, HolderOf' = c,
           cpc[c] \in ClientPcs \ {"off"}
    PROVE  Service!Next
<1>1. StatusOf[c] # "away"
  BY StatusFacts DEF StatusOf, ClientPcs
<1>2. Service!Take(c)
  BY <1>1 DEF ClientsStay, ServerOf, HolderOf, StatusOf, RequestOf,
              Service!Take, Service!clientVars
<1> QED
  BY <1>2 DEF Service!Next

LEMMA FailSeen ==
    ASSUME ClientsStay, ServerOf = "up", ServerOf' = "down", HolderOf' = NoClient,
           keyed' \in {keyed, keyed \cup ({HolderOf} \cap Clients)}
    PROVE  Service!Next
<1>1. Service!Fail
  BY DEF ClientsStay, ServerOf, HolderOf, StatusOf, RequestOf, Service!Fail, Service!clientVars
<1> QED
  BY <1>1 DEF Service!Next

\* A step that ends a client is its end for the service.
LEMMA EndSeen ==
    ASSUME NEW c \in Clients, ServerStays, UNCHANGED stored,
           \A d \in Clients \ {c} : cpc'[d] = cpc[d] /\ asked'[d] = asked[d],
           cpc[c] \in ClientPcs \ {"off"}, cpc'[c] = "gone"
    PROVE  Service!Next
<1>1. StatusOf[c] # "away" /\ Status[cpc'[c]] = "over"
  BY StatusFacts DEF StatusOf, ClientPcs
<1>2. /\ StatusOf' = [StatusOf EXCEPT ![c] = "over"]
      /\ RequestOf' = [RequestOf EXCEPT ![c] = NoAd]
  BY <1>1, ClientSeen
<1>3. Service!End(c)
  BY <1>1, <1>2 DEF ServerStays, ServerOf, HolderOf, StatusOf, RequestOf,
                    Service!End, Service!Become, Service!serverVars
<1> QED
  BY <1>3 DEF Service!Next

SeenNext == Service!Next \/ UNCHANGED Service!vars

LEMMA ClientsStayFacts == UNCHANGED clientVars => ClientsStay
  BY DEF clientVars, ClientsStay, StatusOf, RequestOf, Status

LEMMA DiesSeen ==
    ASSUME Dies, spc # "down", UNCHANGED clientVars,
           keyed' \in {keyed, keyed \cup ({HolderOf} \cap Clients)}
    PROVE  SeenNext
<1>1. ServerOf = "up" /\ ServerOf' = "down" /\ HolderOf' = NoClient
  BY DEF Dies, ServerOf, HolderOf
<1> QED
  BY <1>1, ClientsStayFacts, FailSeen DEF SeenNext

\* The server goes on with the client that has the service.
LEMMA HoldsOn ==
    ASSUME UNCHANGED <<conn, keyed, clientVars>>,
           spc \in {"galLen", "galKey", "obtain", "query", "ack", "spin"},
           spc' \in {"galLen", "galKey", "obtain", "query", "ack", "spin"}
    PROVE  SeenNext
<1>1. ServerStays
  BY DEF ServerStays, ServerOf, HolderOf
<1> QED
  BY <1>1, ClientsStayFacts, StutterSeen DEF SeenNext

\* A send is seen only when it ends the process.
LEMMA SendsSeen ==
    ASSUME NEW message, NEW next \in {"galKey", "obtain", "query", "ack"},
           ServerSends(message, next) \/ Dies,
           UNCHANGED <<keyed, clientVars>>,
           spc \in {"galLen", "galKey", "obtain", "query", "ack"}
    PROVE  SeenNext
<1>1. CASE Dies
  BY <1>1, DiesSeen
<1>2. CASE ~ Dies
  BY <1>2, HoldsOn DEF ServerSends
<1> QED
  BY <1>1, <1>2

\* Accepting is not serving yet: the service is taken with the parameters.
LEMMA ServerOpensSeen ==
    ASSUME TypeInv, ServiceInv, ServerAccept \/ ServerReadConnect
    PROVE  SeenNext
<1>1. UNCHANGED <<keyed, clientVars>>
  BY DEF ServerAccept, ServerReadConnect
<1>2. ASSUME spc \in {"accept", "connect"}, spc' \in {"accept", "connect"}
      PROVE  SeenNext
  <2>1. ServerStays
    BY <1>1, <1>2 DEF ServerStays, ServerOf, HolderOf
  <2> QED
    BY <1>1, <2>1, ClientsStayFacts, StutterSeen DEF SeenNext
<1>3. CASE ServerAccept
  BY <1>2, <1>3 DEF ServerAccept
<1>4. CASE ServerReadConnect
  <2>1. /\ spc = "connect"
        /\ ServerSends(Msg("params"), "galLen") \/ WrongRequest
    BY <1>4 DEF ServerReadConnect
  <2>2. CASE WrongRequest
    BY <1>2, <2>1, <2>2 DEF WrongRequest
  <2>3. CASE Dies
    BY <1>1, <2>1, <2>3, DiesSeen
  <2>4. CASE spc' = "galLen" /\ conn' = conn
    <3>1. conn \in Clients /\ cpc[conn] \in ClientPcs \ {"off"}
      BY <2>1, AtRead DEF TypeInv, ClientTypes
    <3>2. /\ ServerOf = "up" /\ ServerOf' = "up"
          /\ HolderOf = NoClient /\ HolderOf' = conn
      BY <2>1, <2>4 DEF ServerOf, HolderOf
    <3> QED
      BY <1>1, <3>1, <3>2, ClientsStayFacts, TakeSeen DEF SeenNext
  <2> QED
    BY <2>1, <2>2, <2>3, <2>4 DEF ServerSends
<1> QED
  BY <1>3, <1>4

\* The key is stored by the client that has the service, once it is complete;
\* the process may end as it says so.
LEMMA ServerKeySeen ==
    ASSUME TypeInv, ServiceInv, ServerReadGalKey
    PROVE  SeenNext
<1>1. /\ spc = "galKey" /\ UNCHANGED clientVars
      /\ conn \in Clients /\ HolderOf = conn /\ NoClient \notin Clients
      /\ KeyIncomplete \/ KeyComplete \/ KeyDamaged \/ KeyEmpty \/ KeyAtEnd
  BY AtRead, SessionAssumption DEF ServerReadGalKey, HolderOf
<1>2. CASE KeyComplete
  <2>1. keyed' = keyed \cup {conn} /\ ServerSends(Msg("ACK"), "obtain")
    BY <1>2 DEF KeyComplete
  <2>2. CASE Dies
    BY <1>1, <2>1, <2>2, DiesSeen
  <2>3. CASE spc' = "obtain" /\ conn' = conn
    <3>1. HolderOf' = HolderOf /\ ServerOf' = ServerOf
      BY <1>1, <2>3 DEF HolderOf, ServerOf
    <3>2. Service!StoreKey
      BY <1>1, <2>1, <3>1, ClientsStayFacts
      DEF ClientsStay, ServerOf, HolderOf, StatusOf, RequestOf,
          Service!StoreKey, Service!clientVars
    <3> QED
      BY <3>2 DEF SeenNext, Service!Next
  <2> QED
    BY <2>1, <2>2, <2>3 DEF ServerSends
<1>3. CASE KeyIncomplete
  BY <1>1, <1>3, HoldsOn DEF KeyIncomplete, GoesTo
<1>4. CASE KeyDamaged \/ KeyEmpty
  BY <1>1, <1>4, DiesSeen DEF KeyDamaged, KeyEmpty
<1>5. CASE KeyAtEnd
  BY <1>1, <1>5, HoldsOn, DiesSeen DEF KeyAtEnd, GoesTo
<1> QED
  BY <1>1, <1>2, <1>3, <1>4, <1>5

LEMMA ServerServesSeen ==
    ASSUME TypeInv, ServiceInv,
           ServerReadGalLen \/ ServerReadObtain \/ ServerReadQuery \/ ServerReadAck
    PROVE  SeenNext
<1>1. CASE ServerReadGalLen
  BY <1>1, SendsSeen DEF ServerReadGalLen
<1>2. CASE ServerReadObtain
  BY <1>2, SendsSeen DEF ServerReadObtain
<1>3. CASE ServerReadQuery
  <2>1. /\ spc = "query" /\ UNCHANGED <<keyed, clientVars>>
        /\ \/ GoesTo("query")
           \/ ServerSends(Msg("size"), "ack") \/ Dies
    BY <1>3 DEF ServerReadQuery, QueryAtEnd, Answers
  <2> QED
    BY <2>1, HoldsOn, SendsSeen DEF GoesTo
<1>4. CASE ServerReadAck
  BY <1>4, SendsSeen DEF ServerReadAck
<1> QED
  BY <1>1, <1>2, <1>3, <1>4

LEMMA ServerFailsSeen ==
    ASSUME TypeInv, ServiceInv, ServerCrash \/ ServerRestart
    PROVE  SeenNext
<1>1. CASE ServerCrash
  BY <1>1, DiesSeen DEF ServerCrash
<1>2. CASE ServerRestart
  <2>1. /\ spc = "down" /\ spc' = "accept" /\ conn = NoClient /\ conn' = conn
        /\ UNCHANGED <<keyed, clientVars>>
    BY <1>2 DEF ServerRestart, ServiceInv, HoldInv, TypeInv, ControlTypes
  <2>2. Service!Recover
    BY <2>1, ClientsStayFacts
    DEF ClientsStay, StatusOf, RequestOf, Service!Recover, Service!clientVars
  <2> QED
    BY <2>2 DEF SeenNext, Service!Next
<1> QED
  BY <1>1, <1>2

-----------------------------------------------------------------------------
\* What every step of a client keeps.
LEMMA ClientKeeps ==
    ASSUME TypeInv, NEW c \in Clients,
           ClientStep(c) \/ ClientConnect(c) \/ Click(c) \/ Leave(c)
    PROVE  /\ UNCHANGED <<spc, conn, keyed>>
           /\ \A d \in Clients \ {c} : cpc'[d] = cpc[d] /\ asked'[d] = asked[d]
           /\ cpc[c] \in ClientPcs
<1>1. cpc \in [Clients -> ClientPcs] /\ asked \in [Clients -> Ads \cup {NoAd}]
  BY DEF TypeInv, ClientTypes
<1>2. CASE ClientStep(c)
  BY <1>1, <1>2 DEF ClientStep, ClientReadParams, ClientReadAck1, ClientReadAck2, ClientReadAds,
     ClientReadSize, ClientReadReply, ClientWrites, ClientGoesTo, control
<1>3. CASE ClientConnect(c) \/ Leave(c)
  BY <1>1, <1>3 DEF ClientConnect, Leave, ClientGoesTo, control
<1>4. CASE Click(c)
  BY <1>1, <1>4 DEF Click, WritesQuery, QueryFails, ClientWrites, ClientGoesTo, control
<1> QED
  BY <1>2, <1>3, <1>4

\* A step that leaves a client at the same point of its life, and what it asks.
LEMMA SameSeen ==
    ASSUME NEW c \in Clients, UNCHANGED <<spc, conn, keyed, asked, stored>>,
           \A d \in Clients \ {c} : cpc'[d] = cpc[d],
           \/ cpc[c] \in {"params", "ack1", "ack2"} /\ cpc'[c] \in {"ack1", "ack2", "ads"}
           \/ cpc[c] = "size" /\ cpc'[c] = "reply"
    PROVE  SeenNext
<1>1. Status' = Status /\ Status[cpc'[c]] = Status[cpc[c]]
  BY StatusFacts DEF Status
<1>2. StatusOf' = StatusOf /\ RequestOf' = RequestOf
  BY <1>1 DEF StatusOf, RequestOf
<1>3. ServerStays /\ ClientsStay
  BY <1>2 DEF ServerStays, ClientsStay, ServerOf, HolderOf
<1> QED
  BY <1>3, StutterSeen DEF SeenNext

LEMMA ClientSetupSeen ==
    ASSUME TypeInv, ServiceInv, NEW c \in Clients,
           ClientReadParams(c) \/ ClientReadAck1(c) \/ ClientReadAck2(c) \/ ClientReadSize(c)
    PROVE  SeenNext
<1>1. /\ UNCHANGED <<spc, conn, keyed>>
      /\ \A d \in Clients \ {c} : cpc'[d] = cpc[d] /\ asked'[d] = asked[d]
      /\ cpc[c] \in ClientPcs
  BY ClientKeeps DEF ClientStep
<1>2. ServerStays
  BY <1>1 DEF ServerStays, ServerOf, HolderOf
<1>3. cpc \in [Clients -> ClientPcs]
  BY DEF TypeInv, ClientTypes
<1>4. /\ UNCHANGED <<asked, stored>>
      /\ cpc[c] \in {"params", "ack1", "ack2", "size"}
      /\ \/ cpc'[c] = "gone"
         \/ cpc[c] \in {"params", "ack1", "ack2"} /\ cpc'[c] \in {"ack1", "ack2", "ads"}
         \/ cpc[c] = "size" /\ cpc'[c] = "reply"
  BY <1>3 DEF ClientReadParams, ClientReadAck1, ClientReadAck2, ClientReadSize,
              ClientWrites, ClientGoesTo
<1>5. CASE cpc'[c] = "gone"
  BY <1>1, <1>2, <1>4, <1>5, EndSeen DEF SeenNext
<1> QED
  BY <1>1, <1>4, <1>5, SameSeen

\* The first ads are read only when the key is stored.
LEMMA ClientAdsSeen ==
    ASSUME TypeInv, ServiceInv, NEW c \in Clients, ClientReadAds(c)
    PROVE  SeenNext
<1>1. /\ UNCHANGED <<spc, conn, keyed>>
      /\ \A d \in Clients \ {c} : cpc'[d] = cpc[d] /\ asked'[d] = asked[d]
      /\ cpc[c] \in ClientPcs
  BY ClientKeeps DEF ClientStep
<1>2. ServerStays
  BY <1>1 DEF ServerStays, ServerOf, HolderOf
<1>3. /\ UNCHANGED <<asked, stored>> /\ cpc[c] = "ads" /\ cpc'[c] \in {"prompt", "gone"}
  BY DEF ClientReadAds, ClientGoesTo, TypeInv, ClientTypes
<1>4. CASE cpc'[c] = "gone"
  BY <1>1, <1>2, <1>3, <1>4, EndSeen DEF SeenNext
<1>5. CASE cpc'[c] = "prompt"
  <2>1. c \in keyed
    BY <1>5, ReadAdsStep
  <2>2. /\ Status[cpc[c]] = "starting" /\ Status[cpc'[c]] = "ready" /\ Status' = Status
    BY <1>3, <1>5, StatusFacts DEF Status
  <2>3. StatusOf[c] = "starting" /\ RequestOf[c] = NoAd
    BY <2>2 DEF StatusOf, RequestOf
  <2>4. StatusOf' = [StatusOf EXCEPT ![c] = "ready"]
    BY <1>1, <2>2, ClientSeen
  <2>5. RequestOf' = RequestOf
    BY <1>1, <2>2 DEF RequestOf
  <2>6. Service!Welcome(c)
    BY <1>2, <1>3, <2>1, <2>3, <2>4, <2>5
    DEF ServerStays, ServerOf, HolderOf, StatusOf, RequestOf,
        Service!Welcome, Service!Become, Service!serverVars
  <2> QED
    BY <2>6 DEF SeenNext, Service!Next
<1> QED
  BY <1>3, <1>4, <1>5

LEMMA ClickSeen ==
    ASSUME TypeInv, ServiceInv, NEW c \in Clients, Click(c)
    PROVE  SeenNext
<1>1. /\ UNCHANGED <<spc, conn, keyed>>
      /\ \A d \in Clients \ {c} : cpc'[d] = cpc[d] /\ asked'[d] = asked[d]
      /\ cpc[c] \in ClientPcs
  BY ClientKeeps
<1>2. ServerStays
  BY <1>1 DEF ServerStays, ServerOf, HolderOf
<1>3. /\ UNCHANGED stored /\ cpc[c] = "prompt" /\ cpc'[c] \in {"size", "gone"}
      /\ \E ad \in Ads : asked'[c] = ad
  BY DEF Click, WritesQuery, QueryFails, ClientWrites, ClientGoesTo, TypeInv, ClientTypes
<1>4. CASE cpc'[c] = "gone"
  BY <1>1, <1>2, <1>3, <1>4, EndSeen DEF SeenNext
<1>5. CASE cpc'[c] = "size"
  <2>1. PICK ad \in Ads : asked'[c] = ad
    BY <1>3
  <2>2. Status[cpc[c]] = "ready" /\ Status[cpc'[c]] = "waiting"
    BY <1>3, <1>5, StatusFacts
  <2>3. /\ StatusOf[c] = "ready"
        /\ StatusOf' = [StatusOf EXCEPT ![c] = "waiting"]
        /\ RequestOf' = [RequestOf EXCEPT ![c] = ad]
    <3>1. StatusOf[c] = "ready"
      BY <2>2 DEF StatusOf
    <3> QED
      BY <1>1, <2>1, <2>2, <3>1, ClientSeen
  <2>4. Service!Ask(c, ad)
    BY <1>2, <1>3, <2>3
    DEF ServerStays, ServerOf, HolderOf, StatusOf, RequestOf,
        Service!Ask, Service!Become, Service!serverVars
  <2> QED
    BY <2>4 DEF SeenNext, Service!Next
<1> QED
  BY <1>3, <1>4, <1>5

LEMMA ClientReplySeen ==
    ASSUME TypeInv, ServiceInv, NEW c \in Clients, ClientReadReply(c)
    PROVE  SeenNext
<1>1. /\ UNCHANGED <<spc, conn, keyed>>
      /\ \A d \in Clients \ {c} : cpc'[d] = cpc[d] /\ asked'[d] = asked[d]
      /\ cpc[c] \in ClientPcs
  BY ClientKeeps DEF ClientStep
<1>2. ServerStays
  BY <1>1 DEF ServerStays, ServerOf, HolderOf
<1>3. /\ cpc[c] = "reply" /\ UNCHANGED asked
      /\ \/ cpc'[c] = "gone" /\ UNCHANGED stored
         \/ /\ cpc'[c] = "prompt"
            /\ stored' = [stored EXCEPT ![c] = [number |-> asked[c], ad |-> asked[c]]]
  BY ReadReplyStep DEF ClientReadReply
<1>4. CASE cpc'[c] = "gone" /\ UNCHANGED stored
  BY <1>1, <1>2, <1>3, <1>4, EndSeen DEF SeenNext
<1>5. CASE /\ cpc'[c] = "prompt"
           /\ stored' = [stored EXCEPT ![c] = [number |-> asked[c], ad |-> asked[c]]]
  <2>1. Status[cpc[c]] = "waiting" /\ Status[cpc'[c]] = "ready"
    BY <1>3, <1>5, StatusFacts
  <2>2. StatusOf[c] = "waiting" /\ RequestOf[c] = asked[c]
    BY <2>1 DEF StatusOf, RequestOf
  <2>3. /\ StatusOf' = [StatusOf EXCEPT ![c] = "ready"]
        /\ RequestOf' = [RequestOf EXCEPT ![c] = NoAd]
    BY <1>1, <2>1, ClientSeen
  <2>4. stored' = [stored EXCEPT ![c] = [number |-> RequestOf[c], ad |-> RequestOf[c]]]
    BY <1>5, <2>2
  <2>5. Service!Reply(c)
    BY <1>2, <2>2, <2>3, <2>4
    DEF ServerStays, ServerOf, HolderOf, StatusOf, RequestOf,
        Service!Reply, Service!Become, Service!serverVars
  <2> QED
    BY <2>5 DEF SeenNext, Service!Next
<1> QED
  BY <1>3, <1>4, <1>5

LEMMA ConnectSeen ==
    ASSUME TypeInv, ServiceInv, NEW c \in Clients, ClientConnect(c)
    PROVE  SeenNext
<1>1. /\ UNCHANGED <<spc, conn, keyed>>
      /\ \A d \in Clients \ {c} : cpc'[d] = cpc[d] /\ asked'[d] = asked[d]
  BY ClientKeeps
<1>2. ServerStays
  BY <1>1 DEF ServerStays, ServerOf, HolderOf
<1>3. /\ UNCHANGED <<asked, stored>> /\ cpc[c] = "off"
      /\ cpc'[c] = IF spc = "down" THEN "gone" ELSE "params"
  BY DEF ClientConnect, ClientGoesTo, TypeInv, ClientTypes
<1> DEFINE next == IF spc = "down" THEN "over" ELSE "starting"
<1>4. /\ Status[cpc[c]] = "away" /\ Status[cpc'[c]] = next /\ Status' = Status
      /\ next # "waiting"
  BY <1>3, StatusFacts DEF Status
<1>5. StatusOf[c] = "away" /\ StatusOf' = [StatusOf EXCEPT ![c] = next]
  <2>1. StatusOf[c] = "away"
    BY <1>4 DEF StatusOf
  <2> QED
    BY <1>1, <1>4, <2>1, ClientSeen
<1>6. RequestOf' = RequestOf
  BY <1>1, <1>4 DEF RequestOf
<1>7. Service!Arrive(c)
  BY <1>2, <1>3, <1>5, <1>6
  DEF ServerStays, ServerOf, HolderOf, StatusOf, RequestOf,
      Service!Arrive, Service!Become, Service!serverVars
<1> QED
  BY <1>7 DEF SeenNext, Service!Next

LEMMA LeaveSeen ==
    ASSUME TypeInv, ServiceInv, NEW c \in Clients, Leave(c)
    PROVE  SeenNext
<1>1. /\ UNCHANGED <<spc, conn, keyed>>
      /\ \A d \in Clients \ {c} : cpc'[d] = cpc[d] /\ asked'[d] = asked[d]
      /\ cpc[c] \in ClientPcs
  BY ClientKeeps
<1>2. ServerStays
  BY <1>1 DEF ServerStays, ServerOf, HolderOf
<1>3. UNCHANGED stored /\ cpc[c] # "off" /\ cpc'[c] = "gone"
  BY DEF Leave, ClientGoesTo, TypeInv, ClientTypes
<1> QED
  BY <1>1, <1>2, <1>3, EndSeen DEF SeenNext

\* The conversation implements the service, whatever the network cuts and
\* whenever the server crashes: every step of user.cpp or main_server.cpp is
\* one of AdService or changes nothing that the service speaks of.
THEOREM SessionImplementsService == Spec => ImplementsService
<1>1. Init => Service!Init
  BY StatusFacts DEF Init, Service!Init, Service!Nothing
<1>2. TypeInv /\ ServiceInv /\ [Next]_vars => [Service!Next]_Service!vars
  <2> SUFFICES ASSUME TypeInv, ServiceInv, [Next]_vars PROVE SeenNext
    BY DEF SeenNext
  <2>1. CASE ServerStep
    BY <2>1, ServerOpensSeen, ServerKeySeen, ServerServesSeen DEF ServerStep
  <2>2. ASSUME NEW c \in Clients, ClientStep(c) PROVE SeenNext
    BY <2>2, ClientSetupSeen, ClientAdsSeen, ClientReplySeen DEF ClientStep
  <2>3. ASSUME NEW c \in Clients, ClientConnect(c) \/ Click(c) \/ Leave(c) PROVE SeenNext
    BY <2>3, ConnectSeen, ClickSeen, LeaveSeen
  <2>4. CASE UNCHANGED vars
    <3>1. ServerStays
      BY <2>4 DEF vars, control, ServerStays, ServerOf, HolderOf
    <3>2. ClientsStay
      BY <2>4, ClientsStayFacts DEF vars
    <3> QED
      BY <3>1, <3>2, StutterSeen DEF SeenNext
  <2> QED
    BY <2>1, <2>2, <2>3, <2>4, ServerFailsSeen DEF Next
<1> QED
  BY <1>1, <1>2, SessionTypeInv, SessionServiceInv, PTL DEF Spec, ImplementsService, Service!Spec

=============================================================================
