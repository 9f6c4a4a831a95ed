------------------------------ MODULE AdSession ------------------------------
(***************************************************************************)
(* The conversation of the clients (doEncryptionSetup and what it calls in *)
(* src/src/user.cpp) with the one server process (main of                  *)
(* src/src/main_server.cpp) over TCP.                                      *)
(*                                                                         *)
(* A stream is a sequence of units.  A write appends a message: a run of   *)
(* units of one kind, each with the number of those that follow it.  A     *)
(* read takes a prefix.  A message is of as many units as the instance     *)
(* needs to cut it.  One action is one read, with the work and the writes  *)
(* that follow it up to the next read.                                     *)
(***************************************************************************)
EXTENDS Integers, Sequences, FiniteSets

CONSTANTS
    Clients,       \* runs of main_user; a client that ends does not return
    NoClient,
    Ads,           \* ad numbers a client may ask for
    NoAd,
    ThrowingAds,   \* those of them for which generate_query throws
    Size,          \* units of each message of fixed length
    QuerySizes,    \* units a serialized query may have
    Buf,           \* units that fill the server's 2048-byte query buffer
    Whole,         \* kinds the network does not cut short of a read's limit
    ParamsUsed,    \* units of the parameters the client cannot do without
    MayLeave,      \* clients whose user may end the program
    MaxQueries,    \* bound on the clicks of one client
    MaxRestarts    \* bound on the server's restarts

FixedKinds == {"connect", "params", "galLen", "galKey", "ACK", "OBTAIN",
               "ads", "size", "reply"}
Kinds == FixedKinds \cup {"query"}

ASSUME SessionAssumption ==
    /\ NoClient \notin Clients
    /\ NoAd \notin Ads
    /\ ThrowingAds \subseteq Ads
    /\ Size \in [FixedKinds -> Nat \ {0}]
    /\ Size["ACK"] <= Size["ads"]
    /\ ParamsUsed \in 1 .. Size["params"]
    /\ QuerySizes \subseteq Nat \ {0}
    /\ Buf \in Nat \ {0}
    /\ Whole \subseteq Kinds
    /\ MayLeave \subseteq Clients
    /\ MaxQueries \in Nat
    /\ MaxRestarts \in Nat

VARIABLES
    spc,         \* the read the server is at
    conn,        \* newsockfd: the client of the accepted connection
    backlog,     \* connections the kernel holds until accept
    galLen,      \* gal_len
    totalRead,   \* total_read
    got,         \* the bytes of galois_keys_buffer, then of longString
    key0,        \* galoisKeys_[0]: the client whose key it is
    answer,      \* the ad in the reply that waits for the client's ACK
    cpc,         \* the read each client is at
    cbuf,        \* whether the client's buffer starts with "ACK"
    asked,       \* adRequested
    stored,      \* the last entry of currAds_: a number and the ad under it
    sent,        \* queries each client has sent
    toServer,    \* bytes written by each client and not yet read
    toClient,    \* bytes written to each client and not yet read
    open,        \* clients whose connection still has a server end
    keyed,       \* history: clients whose key the server has stored
    restarts     \* restarts of the server so far

control    == <<spc, conn, backlog, open>>
memory     == <<galLen, totalRead, got, key0, answer>>
clientVars == <<cpc, cbuf, asked, stored, sent>>
vars       == <<control, memory, clientVars, toServer, toClient, keyed, restarts>>

-----------------------------------------------------------------------------
Unit == [kind : Kinds, item : Ads \cup {NoAd}, left : Nat]

Units(kind, item, n) ==
    [i \in 1 .. n |-> [kind |-> kind, item |-> item, left |-> n - i]]

\* A message of fixed length.
Msg(kind) == Units(kind, NoAd, Size[kind])

\* The lengths a read of at most "limit" units may return.
ReadLengths(s, limit) ==
    {n \in 1 .. Len(s) : /\ n <= limit
                         /\ \/ n = limit \/ n = Len(s)
                            \/ s[n].left = 0 \/ s[n].kind \notin Whole}

\* A buffer larger than all that can be waiting.
Ample(s) == Len(s)

Taken(s, n) == SubSeq(s, 1, n)
Rest(s, n)  == SubSeq(s, n + 1, Len(s))

\* A read at the end of a stream whose writer is gone returns 0.  It may return
\* -1 when bytes were left unread at that writer, which resets the connection.
ServerAtEnd == toServer[conn] = <<>> /\ cpc[conn] = "gone"
ServerReset == ServerAtEnd /\ toClient[conn] # <<>>
ClientAtEnd(c) == toClient[c] = <<>> /\ c \notin open

TypeOK ==
    /\ spc \in {"accept", "connect", "galLen", "galKey", "obtain", "query",
                "ack", "spin", "down"}
    /\ conn \in Clients \cup {NoClient}
    /\ backlog \in Seq(Clients)
    /\ open \subseteq Clients
    /\ galLen \in Nat
    /\ totalRead \in Nat
    /\ got \in Seq(Unit)
    /\ key0 \in Clients \cup {NoClient}
    /\ answer \in Ads \cup {NoAd}
    /\ cpc \in [Clients -> {"off", "params", "ack1", "ack2", "ads", "prompt",
                            "size", "reply", "gone"}]
    /\ cbuf \in [Clients -> BOOLEAN]
    /\ asked \in [Clients -> Ads \cup {NoAd}]
    /\ stored \in [Clients -> [number : Ads \cup {NoAd}, ad : Ads \cup {NoAd}]]
    /\ sent \in [Clients -> 0 .. MaxQueries]
    /\ toServer \in [Clients -> Seq(Unit)]
    /\ toClient \in [Clients -> Seq(Unit)]
    /\ keyed \subseteq Clients
    /\ restarts \in 0 .. MaxRestarts

Init ==
    /\ spc = "accept"
    /\ conn = NoClient
    /\ backlog = <<>>
    /\ open = {}
    /\ galLen = 0
    /\ totalRead = 0
    /\ got = <<>>
    /\ key0 = NoClient
    /\ answer = NoAd
    /\ cpc = [c \in Clients |-> "off"]
    /\ cbuf = [c \in Clients |-> FALSE]
    /\ asked = [c \in Clients |-> NoAd]
    /\ stored = [c \in Clients |-> [number |-> NoAd, ad |-> NoAd]]
    /\ sent = [c \in Clients |-> 0]
    /\ toServer = [c \in Clients |-> <<>>]
    /\ toClient = [c \in Clients |-> <<>>]
    /\ keyed = {}
    /\ restarts = 0

-----------------------------------------------------------------------------
(* The server.                                                             *)

\* The end of the process, by exit, by an exception or by SIGPIPE: the kernel
\* closes every connection, those in the backlog included.
Dies ==
    /\ spc' = "down"
    /\ conn' = NoClient
    /\ backlog' = <<>>
    /\ open' = {}
    /\ UNCHANGED toClient

ServerTakes(n) ==
    toServer' = [toServer EXCEPT ![conn] = Rest(@, n)]

GoesTo(next) ==
    /\ spc' = next
    /\ UNCHANGED <<conn, backlog, open, toClient>>

\* A send to a client that has gone may raise SIGPIPE, which is not handled.
ServerSends(message, next) ==
    \/ /\ toClient' = [toClient EXCEPT ![conn] = @ \o message]
       /\ spc' = next
       /\ UNCHANGED <<conn, backlog, open>>
    \/ cpc[conn] = "gone" /\ Dies

ServerAccept ==
    /\ spc = "accept"
    /\ backlog # <<>>
    /\ spc' = "connect"
    /\ conn' = Head(backlog)
    /\ backlog' = Tail(backlog)
    /\ UNCHANGED <<open, memory, clientVars, toServer, toClient, keyed, restarts>>

\* "Wrong request": back to accept, without closing newsockfd.
WrongRequest ==
    /\ spc' = "accept"
    /\ conn' = NoClient
    /\ UNCHANGED <<backlog, open, toClient>>

ServerReadConnect ==
    /\ spc = "connect"
    /\ LET stream == toServer[conn] IN
           \/ \E n \in ReadLengths(stream, Ample(stream)) :
                  /\ ServerTakes(n)
                  /\ IF Taken(stream, n) = Msg("connect")
                     THEN ServerSends(Msg("params"), "galLen")
                     ELSE WrongRequest
           \/ ServerAtEnd /\ WrongRequest /\ UNCHANGED toServer
    /\ UNCHANGED <<memory, clientVars, keyed, restarts>>

\* Faulty variant: the length of the key is not acknowledged.
ServerReadGalLenSilent ==
    /\ spc = "galLen"
    /\ \E n \in ReadLengths(toServer[conn], Ample(toServer[conn])) : ServerTakes(n)
    /\ galLen' = Size["galKey"]
    /\ GoesTo("galKey")
    /\ totalRead' = 0
    /\ got' = <<>>
    /\ UNCHANGED <<key0, answer, clientVars, keyed, restarts>>

\* Of a length that came cut the buffer has the low-order bytes, over zeros.  At
\* the end of the stream -1 exits; 0 leaves a length of 0, and the empty key does
\* not load.
ServerReadGalLen ==
    /\ spc = "galLen"
    /\ LET stream == toServer[conn] IN
           \/ \E n \in ReadLengths(stream, Ample(stream)) :
                  /\ ServerTakes(n)
                  /\ galLen' \in IF Taken(stream, n) = Msg("galLen")
                                 THEN {Size["galKey"]} ELSE 0 .. Size["galKey"]
                  /\ ServerSends(Msg("ACK"), "galKey")
           \/ ServerAtEnd /\ Dies /\ galLen' = 0 /\ UNCHANGED toServer
    /\ totalRead' = 0
    /\ got' = <<>>
    /\ UNCHANGED <<key0, answer, clientVars, keyed, restarts>>

\* Faulty variant: every piece is acknowledged.
KeyPieceAcked ==
    /\ totalRead' < galLen
    /\ ServerSends(Msg("ACK"), "galKey")
    /\ UNCHANGED <<key0, keyed>>

\* The key is not complete: the loop reads again.
KeyIncomplete ==
    /\ totalRead' < galLen
    /\ GoesTo("galKey")
    /\ UNCHANGED <<key0, keyed>>

\* The first gal_len bytes are the key: it is stored under id 0.
KeyComplete ==
    /\ totalRead' >= galLen
    /\ Taken(got', galLen) = Msg("galKey")
    /\ ServerSends(Msg("ACK"), "obtain")
    /\ key0' = conn
    /\ keyed' = keyed \cup {conn}

\* They are no key, which throws; or there were more of them than the buffer
\* holds, which may bring the process down at once.
KeyDamaged ==
    /\ totalRead' >= galLen
    /\ totalRead' > galLen \/ Taken(got', galLen) # Msg("galKey")
    /\ Dies
    /\ UNCHANGED <<key0, keyed>>

\* A length of 0 asks for no read, and the empty key does not load.
KeyEmpty ==
    /\ galLen = 0
    /\ Dies
    /\ UNCHANGED <<toServer, totalRead, got, key0, keyed>>

\* Faulty variant: total_read compared as the signed number it is.
KeyAtEndSigned ==
    /\ galLen > 0
    /\ \/ ServerAtEnd /\ GoesTo("spin") /\ UNCHANGED totalRead
       \/ ServerReset /\ GoesTo("galKey") /\ totalRead' = totalRead - 1
    /\ UNCHANGED <<toServer, got, key0, keyed>>

\* The end of the stream adds 0 for ever.  A first read of -1 makes total_read
\* larger than any length, and the buffer, never written, does not load.
KeyAtEnd ==
    /\ galLen > 0
    /\ \/ ServerAtEnd /\ GoesTo("spin")
       \/ ServerReset /\ totalRead = 0 /\ Dies
    /\ UNCHANGED <<toServer, totalRead, got, key0, keyed>>

\* One read of the loop, of up to gal_len bytes wherever total_read stands.
ServerReadGalKey ==
    /\ spc = "galKey"
    /\ LET stream == toServer[conn] IN
           \/ \E n \in ReadLengths(stream, galLen) :
                  /\ ServerTakes(n)
                  /\ totalRead' = totalRead + n
                  /\ got' = got \o Taken(stream, n)
                  /\ KeyIncomplete \/ KeyComplete \/ KeyDamaged
           \/ KeyEmpty
           \/ KeyAtEnd
    /\ UNCHANGED <<galLen, answer, clientVars, restarts>>

ServerReadObtain ==
    /\ spc = "obtain"
    /\ LET stream == toServer[conn] IN
           \/ \E n \in ReadLengths(stream, Size["OBTAIN"]) :
                  /\ ServerTakes(n)
                  /\ IF Taken(stream, n) = Msg("OBTAIN")
                     THEN ServerSends(Msg("ads"), "query")
                     ELSE Dies
           \/ ServerAtEnd /\ Dies /\ UNCHANGED toServer
    /\ got' = <<>>
    /\ UNCHANGED <<galLen, totalRead, key0, answer, clientVars, keyed, restarts>>

\* Whether the bytes start with a complete query, which is all that is loaded.
Loads(bytes) ==
    \E k \in 1 .. Len(bytes) : /\ bytes[k].left = 0
                               /\ \A i \in 1 .. k : bytes[i].kind = "query"

\* The reply to the bytes gathered, of which the size is sent first; bytes that
\* do not load end the process.
Answers(bytes) ==
    IF Loads(bytes)
    THEN /\ answer' = IF key0 = conn THEN bytes[1].item ELSE NoAd
         /\ ServerSends(Msg("size"), "ack")
    ELSE Dies /\ UNCHANGED answer

\* Faulty variant: the end of the stream ends the service of this client.
QueryAtEndListens ==
    /\ ServerAtEnd
    /\ WrongRequest
    /\ UNCHANGED <<toServer, got, answer>>

\* At the end of the stream 0 ends the query and -1 throws.
QueryAtEnd ==
    /\ \/ ServerAtEnd /\ Answers(got)
       \/ ServerReset /\ Dies /\ UNCHANGED answer
    /\ UNCHANGED <<toServer, got>>

\* One read of the query loop: a full buffer asks for more, a short one is the
\* last.
ServerReadQuery ==
    /\ spc = "query"
    /\ LET stream == toServer[conn] IN
           \/ \E n \in ReadLengths(stream, Buf) :
                  /\ ServerTakes(n)
                  /\ got' = got \o Taken(stream, n)
                  /\ IF n = Buf
                     THEN GoesTo("query") /\ UNCHANGED answer
                     ELSE Answers(got')
           \/ QueryAtEnd
    /\ UNCHANGED <<galLen, totalRead, key0, clientVars, keyed, restarts>>

\* Faulty variant: longString is not emptied between two queries.
ServerReadAckKeeping ==
    /\ spc = "ack"
    /\ \E n \in ReadLengths(toServer[conn], Size["ACK"]) : ServerTakes(n)
    /\ ServerSends(Units("reply", answer, Size["reply"]), "query")
    /\ UNCHANGED <<memory, clientVars, keyed, restarts>>

\* Faulty variant: one query for each accepted connection.
ServerReadAckOnce ==
    /\ spc = "ack"
    /\ \E n \in ReadLengths(toServer[conn], Size["ACK"]) : ServerTakes(n)
    /\ toClient' = [toClient EXCEPT ![conn] = @ \o Units("reply", answer, Size["reply"])]
    /\ spc' = "accept"
    /\ conn' = NoClient
    /\ UNCHANGED <<backlog, open, memory, clientVars, keyed, restarts>>

\* What is read as the ACK, and whether anything is, does not matter.
ServerReadAck ==
    /\ spc = "ack"
    /\ LET stream == toServer[conn] IN
           \/ \E n \in ReadLengths(stream, Size["ACK"]) : ServerTakes(n)
           \/ ServerAtEnd /\ UNCHANGED toServer
    /\ ServerSends(Units("reply", answer, Size["reply"]), "query")
    /\ got' = <<>>
    /\ UNCHANGED <<galLen, totalRead, key0, answer, clientVars, keyed, restarts>>

ServerCrash ==
    /\ spc # "down"
    /\ Dies
    /\ UNCHANGED <<memory, clientVars, toServer, keyed, restarts>>

ServerRestart ==
    /\ spc = "down"
    /\ restarts < MaxRestarts
    /\ spc' = "accept"
    /\ galLen' = 0
    /\ totalRead' = 0
    /\ got' = <<>>
    /\ key0' = NoClient
    /\ answer' = NoAd
    /\ restarts' = restarts + 1
    /\ UNCHANGED <<conn, backlog, open, clientVars, toServer, toClient, keyed>>

-----------------------------------------------------------------------------
(* The clients.                                                            *)

ClientTakes(c, n) ==
    toClient' = [toClient EXCEPT ![c] = Rest(@, n)]

ClientGoesTo(c, next) ==
    /\ cpc' = [cpc EXCEPT ![c] = next]
    /\ UNCHANGED toServer

\* A write to a connection whose server is gone is lost, or raises SIGPIPE.
ClientWrites(c, message, next) ==
    \/ /\ c \in open
       /\ toServer' = [toServer EXCEPT ![c] = @ \o message]
       /\ cpc' = [cpc EXCEPT ![c] = next]
    \/ /\ c \notin open
       /\ \E reached \in {next, "gone"} : ClientGoesTo(c, reached)

\* doSocketConnection and the first write; a refused connection exits.
ClientConnect(c) ==
    /\ cpc[c] = "off"
    /\ IF spc = "down"
       THEN ClientGoesTo(c, "gone") /\ UNCHANGED <<backlog, open>>
       ELSE /\ backlog' = Append(backlog, c)
            /\ open' = open \cup {c}
            /\ toServer' = [toServer EXCEPT ![c] = Msg("connect")]
            /\ cpc' = [cpc EXCEPT ![c] = "params"]
    /\ UNCHANGED <<spc, conn, memory, cbuf, asked, stored, sent, toClient, keyed, restarts>>

\* One read; parameters cut before their end are used as they are, or end the
\* program, depending on the field that is cut (module SetupMessages).
ClientReadParams(c) ==
    /\ cpc[c] = "params"
    /\ \/ \E n \in ReadLengths(toClient[c], Ample(toClient[c])) :
              /\ ClientTakes(c, n)
              /\ \/ n >= ParamsUsed /\ ClientWrites(c, Msg("galLen"), "ack1")
                 \/ n < Size["params"] /\ ClientGoesTo(c, "gone")
       \/ ClientAtEnd(c) /\ ClientGoesTo(c, "gone") /\ UNCHANGED toClient
    /\ cbuf' = [cbuf EXCEPT ![c] = FALSE]
    /\ UNCHANGED <<control, memory, asked, stored, sent, keyed, restarts>>

\* A read into the client's buffer, of which only the first bytes matter.  Of an
\* ACK that comes cut the first three bytes are enough, and after fewer of them
\* comes what the previous read left; a read of 0 or -1 bytes leaves all of that.
ReadsAck(c) ==
    \/ \E n \in ReadLengths(toClient[c], Ample(toClient[c])) :
           /\ ClientTakes(c, n)
           /\ \E seen \in IF Head(toClient[c]) # Msg("ACK")[1] THEN {FALSE}
                          ELSE IF n < Size["ACK"] THEN {TRUE, cbuf[c]} ELSE {TRUE} :
                  cbuf' = [cbuf EXCEPT ![c] = seen]
    \/ ClientAtEnd(c) /\ UNCHANGED <<toClient, cbuf>>

\* Faulty variant: the request for ads follows the key at once.
ClientReadAck1Eager(c) ==
    /\ cpc[c] = "ack1"
    /\ ReadsAck(c)
    /\ ClientWrites(c, Msg("galKey") \o Msg("OBTAIN"), "ack2")
    /\ UNCHANGED <<control, memory, asked, stored, sent, keyed, restarts>>

\* The first ACK is looked at, and the key sent whatever it was.
ClientReadAck1(c) ==
    /\ cpc[c] = "ack1"
    /\ ReadsAck(c)
    /\ ClientWrites(c, Msg("galKey"), "ack2")
    /\ UNCHANGED <<control, memory, asked, stored, sent, keyed, restarts>>

\* "Setup done" and the request for the initial ads, or "Setup failed".
ClientReadAck2(c) ==
    /\ cpc[c] = "ack2"
    /\ ReadsAck(c)
    /\ IF cbuf'[c]
       THEN ClientWrites(c, Msg("OBTAIN"), "ads")
       ELSE ClientGoesTo(c, "gone")
    /\ UNCHANGED <<control, memory, asked, stored, sent, keyed, restarts>>

\* Faulty variant: the number of bytes read is not looked at.
ClientReadAdsUnchecked(c) ==
    /\ cpc[c] = "ads"
    /\ \/ \E n \in ReadLengths(toClient[c], Ample(toClient[c])) : ClientTakes(c, n)
       \/ ClientAtEnd(c) /\ UNCHANGED toClient
    /\ ClientGoesTo(c, "prompt")
    /\ UNCHANGED <<control, memory, cbuf, asked, stored, sent, keyed, restarts>>

ClientReadAds(c) ==
    /\ cpc[c] = "ads"
    /\ \/ \E n \in ReadLengths(toClient[c], Ample(toClient[c])) :
              /\ ClientTakes(c, n)
              /\ ClientGoesTo(c, IF n >= Size["ads"] THEN "prompt" ELSE "gone")
       \/ ClientAtEnd(c) /\ ClientGoesTo(c, "gone") /\ UNCHANGED toClient
    /\ UNCHANGED <<control, memory, cbuf, asked, stored, sent, keyed, restarts>>

\* The query for an ad, serialized to any of the possible lengths.
WritesQuery(c, ad) ==
    /\ ad \notin ThrowingAds
    /\ \E n \in QuerySizes : ClientWrites(c, Units("query", ad, n), "size")

\* The query ends the program before anything is written: generate_query throws
\* for this ad, or the parameters it needs came cut.
QueryFails(c, ad) ==
    /\ ad \in ThrowingAds \/ "params" \notin Whole
    /\ ClientGoesTo(c, "gone")

\* A click, and the query for the ad that is drawn for it.
Click(c) ==
    /\ cpc[c] = "prompt"
    /\ sent[c] < MaxQueries
    /\ sent' = [sent EXCEPT ![c] = @ + 1]
    /\ \E ad \in Ads :
           /\ asked' = [asked EXCEPT ![c] = ad]
           /\ WritesQuery(c, ad) \/ QueryFails(c, ad)
    /\ UNCHANGED <<control, memory, cbuf, stored, toClient, keyed, restarts>>

\* Faulty variant: the size is not acknowledged.
ClientReadSizeSilent(c) ==
    /\ cpc[c] = "size"
    /\ \E n \in ReadLengths(toClient[c], Size["size"]) : ClientTakes(c, n)
    /\ ClientGoesTo(c, "reply")
    /\ UNCHANGED <<control, memory, cbuf, asked, stored, sent, keyed, restarts>>

\* A size that was not received is 0, and a reply of no ciphertext ends the
\* program; so may one of which a part was received, or the bytes that are then
\* read for a reply of that size do not load.
ClientReadSize(c) ==
    /\ cpc[c] = "size"
    /\ \/ \E n \in ReadLengths(toClient[c], Size["size"]) :
              /\ ClientTakes(c, n)
              /\ IF Taken(toClient[c], n) = Msg("size")
                 THEN ClientWrites(c, Msg("ACK"), "reply")
                 ELSE \E next \in {"reply", "gone"} : ClientWrites(c, Msg("ACK"), next)
       \/ ClientAtEnd(c) /\ ClientGoesTo(c, "gone") /\ UNCHANGED toClient
    /\ UNCHANGED <<control, memory, cbuf, asked, stored, sent, keyed, restarts>>

\* One read for the whole reply; one that comes short does not load.
ClientReadReply(c) ==
    /\ cpc[c] = "reply"
    /\ \/ \E n \in ReadLengths(toClient[c], Size["reply"]) :
              LET ad == toClient[c][1].item IN
              /\ ClientTakes(c, n)
              /\ IF Taken(toClient[c], n) = Units("reply", ad, Size["reply"])
                 THEN /\ stored' = [stored EXCEPT ![c] = [number |-> asked[c], ad |-> ad]]
                      /\ ClientGoesTo(c, "prompt")
                 ELSE ClientGoesTo(c, "gone") /\ UNCHANGED stored
       \/ /\ ClientAtEnd(c)
          /\ ClientGoesTo(c, "gone")
          /\ UNCHANGED <<toClient, stored>>
    /\ UNCHANGED <<control, memory, cbuf, asked, sent, keyed, restarts>>

\* The user ends the program.
Leave(c) ==
    /\ c \in MayLeave
    /\ cpc[c] \notin {"off", "gone"}
    /\ ClientGoesTo(c, "gone")
    /\ UNCHANGED <<control, memory, cbuf, asked, stored, sent, toClient, keyed, restarts>>

-----------------------------------------------------------------------------
ServerStep ==
    \/ ServerAccept
    \/ ServerReadConnect
    \/ ServerReadGalLen
    \/ ServerReadGalKey
    \/ ServerReadObtain
    \/ ServerReadQuery
    \/ ServerReadAck

ClientStep(c) ==
    \/ ClientReadParams(c)
    \/ ClientReadAck1(c)
    \/ ClientReadAck2(c)
    \/ ClientReadAds(c)
    \/ ClientReadSize(c)
    \/ ClientReadReply(c)

Next ==
    \/ ServerStep
    \/ ServerCrash
    \/ ServerRestart
    \/ \E c \in Clients : ClientStep(c)
    \/ \E c \in Clients : ClientConnect(c)
    \/ \E c \in Clients : Click(c)
    \/ \E c \in Clients : Leave(c)

Spec == Init /\ [][Next]_vars

\* A read whose bytes have come returns, and the program goes on.  Nothing
\* obliges the user to click, a client to leave or the server to crash.
Fairness == WF_vars(ServerStep) /\ \A c \in Clients : WF_vars(ClientStep(c))

FairSpec == Spec /\ Fairness

-----------------------------------------------------------------------------
\* How far a client is, in the words of AdService.
Status ==
    [off |-> "away", params |-> "starting", ack1 |-> "starting",
     ack2 |-> "starting", ads |-> "starting", prompt |-> "ready",
     size |-> "waiting", reply |-> "waiting", gone |-> "over"]

Service == INSTANCE AdService WITH
    server  <- IF spc = "down" THEN "down" ELSE "up",
    holder  <- IF spc \in {"accept", "connect"} THEN NoClient ELSE conn,
    status  <- [c \in Clients |-> Status[cpc[c]]],
    request <- [c \in Clients |->
                   IF Status[cpc[c]] = "waiting" THEN asked[c] ELSE NoAd],
    filed   <- stored

\* The conversation implements the service that AdService promises: ads come
\* only after the key is stored, an ad is filed under its own number, and a
\* client that is served keeps the service until the server fails, however the
\* streams are cut and whoever leaves or crashes (main_server.cpp:253-430).
ImplementsService == Service!Spec

\* The read loop never writes past the malloc'd key: it asks for gal_len bytes
\* each time, and is saved only by the client that stays silent until the ACK.
NoGaloisOverrun == totalRead <= galLen

PastSetup(c) == cpc[c] \in {"ads", "prompt", "size", "reply"}

\* "Setup done" (user.cpp:405): the server acknowledges "that it is done
\* initializing" (main_server.cpp:368), so a client that has reported it has its
\* Galois key on the server.
SetupDoneMeansKeySet ==
    \A c \in Clients : PastSetup(c) => c \in keyed

\* A client that has reported "Setup done" too early, over an ACK that was
\* already in its buffer or after parameters that came cut, does not take
\* anything for its ads before the key is stored: there is nothing on its way but
\* the rest of an ACK, too short for the check at user.cpp:478.
NoAdsBeforeKey ==
    \A c \in Clients \ keyed :
        PastSetup(c) => /\ cpc[c] = "ads"
                        /\ \A i \in 1 .. Len(toClient[c]) : toClient[c][i].kind = "ACK"
                        /\ Len(toClient[c]) < Size["ads"]

\* The ad the client files under the number it asked for is the ad of that
\* number.
ReplyCorrect ==
    \A c \in Clients : stored[c].number = stored[c].ad

\* A running client is left on a connection the server has forgotten only by
\* main_server.cpp:277-280, when its connect came in pieces: it still waits for
\* its parameters, and the rest of its connect was never read.
NoClientForgotten ==
    \A c \in open : \/ cpc[c] = "gone"
                    \/ c = conn
                    \/ \E i \in 1 .. Len(backlog) : backlog[i] = c
                    \/ /\ cpc[c] = "params"
                       /\ toServer[c] # <<>> /\ Len(toServer[c]) < Size["connect"]

\* Two clients are never past the set-up on the same server process: the key
\* kept under id 0 would not be that of both.
OneClientServed ==
    \A c, d \in Clients : /\ PastSetup(c) /\ c \in open
                          /\ PastSetup(d) /\ d \in open
                          => c = d

\* The client waits for the server and the server for that client, for ever.
MutualWait(c) ==
    /\ conn = c
    /\ spc \in {"connect", "galLen", "galKey", "obtain", "query", "ack"}
    /\ cpc[c] \notin {"off", "prompt", "gone"}
    /\ toServer[c] = <<>>
    /\ toClient[c] = <<>>

\* It is over a query that fills the server's buffer exactly: complete, and yet
\* not ended by a short read (main_server.cpp:402).
StalledAtFullBuffer(c) ==
    /\ MutualWait(c)
    /\ spc = "query"
    /\ Loads(got)
    /\ Len(got) % Buf = 0

\* Both sides wait for each other only over a query that fills the server's
\* buffer, and not at any other of the reads of the two programs.
StallOnlyAtFullBuffer ==
    \A c \in Clients : MutualWait(c) => StalledAtFullBuffer(c)

\* The server that c was connected to has crashed, and c has ended over it.
EndedByCrash(c) == cpc[c] = "gone" /\ c \notin open

\* Every query of a client that stays is answered, or fills the server's buffer,
\* or the server crashes and the client ends: otherwise it is never left waiting,
\* nor with its connection up.
Answered ==
    \A c \in Clients \ MayLeave :
        cpc[c] = "size" ~> \/ cpc[c] = "prompt"
                           \/ EndedByCrash(c)
                           \/ StalledAtFullBuffer(c)

\* Likewise the first ads of a client that the server accepts, and that stays.
SetupCompletes ==
    \A c \in Clients \ MayLeave :
        conn = c /\ spc = "connect" ~> cpc[c] = "prompt" \/ EndedByCrash(c)

\* Nothing releases a client that leaves once its connect was accepted: the
\* server goes down or reads for ever, and does not come back to accept.
DepartureEndsService ==
    \A c \in Clients :
        conn = c /\ cpc[c] = "gone" /\ spc \notin {"accept", "connect"}
            ~> spc \in {"down", "spin"}

=============================================================================
