------------------------------ MODULE AdSystem ------------------------------
(***************************************************************************)
(* The whole system as one of its users sees it: the conversation of all   *)
(* the clients with the server (module AdSession), in which the client Me  *)
(* is run by the user's program (module UserProgram, with the server), and *)
(* the ads that the replies bring, each under its number on the display.   *)
(* The other clients ask for any ads.  A step that is both of the session  *)
(* and of the program, a click or an arrival, is a step of both modules.   *)
(***************************************************************************)
EXTENDS Integers, Sequences, FiniteSets

CONSTANTS
    Me, Clients, NoClient, NoAd, Size, QuerySizes, Buf, Whole, ParamsUsed,
    MayLeave, MaxQueries, MaxRestarts,             \* as in AdSession
    NumGroups, AdsPerGroup, IntMax, LocalLimit, LocalStep, Rank, Degree,
    MaxClicks                                      \* as in UserProgram

VARIABLES
    spc, conn, backlog, galLen, totalRead, got, key0, answer, cpc, cbuf, asked,
    stored, sent, toServer, toClient, open, keyed, restarts,
    mode, cnts, currAds, phase, selection, cin, requested, clicks, typed,
    contents     \* currAds_: the ad that is shown under each number

U == INSTANCE UserProgram

S == INSTANCE AdSession
         WITH Ads <- U!AdNumbers, ThrowingAds <- U!AdNumbers \cap {Degree}

\* The first ads are the message of that name and nothing else: only parameters
\* or an ACK that came cut could bring an ACK, or the rest of one, in its place.
ASSUME SystemAssumption ==
    /\ Me \in Clients
    /\ {"connect", "params", "ACK"} \subseteq Whole

\* The parameters are such as the two parts ask for.
ASSUME PartsAssumption ==
    /\ S!SessionAssumption
    /\ U!SizesAssumption
    /\ U!RankAssumption

sessionVars == <<spc, conn, backlog, galLen, totalRead, got, key0, answer, cpc, cbuf,
                 asked, stored, sent, toServer, toClient, open, keyed, restarts>>
programVars == <<mode, cnts, currAds, phase, selection, cin, requested, clicks, typed>>
vars        == <<sessionVars, programVars, contents>>

Init ==
    /\ S!Init
    /\ U!Init
    /\ mode = "server"
    /\ contents = << >>

-----------------------------------------------------------------------------
ProgramWaits == UNCHANGED <<programVars, contents>>

\* The initial set, each ad under its own number (module SetupMessages).
FirstAds ==
    /\ S!ClientReadAds(Me)
    /\ cpc'[Me] = "prompt"
    /\ U!ObtainInitialAdSetServer
    /\ contents' = [number \in currAds' |-> number]

\* Faulty variant: the ad is drawn once for the query and once for the display.
ClicksDrawingTwice ==
    /\ U!Input
    /\ phase' = "request"
    /\ S!Click(Me)
    /\ UNCHANGED contents

\* An ad on display was entered, and the ad drawn for it is asked for.
Clicks ==
    /\ U!Input
    /\ phase' = "request"
    /\ S!Click(Me)
    /\ asked'[Me] = requested'
    /\ UNCHANGED contents

\* No ad on display was entered: the program asks the user again.
AsksAgain ==
    /\ U!Input
    /\ phase' = "prompt"
    /\ UNCHANGED <<sessionVars, contents>>

\* Faulty variant: the text of the ad that is evicted stays behind.
ReceivesKeepingAll ==
    /\ S!ClientReadReply(Me)
    /\ cpc'[Me] = "prompt"
    /\ U!ReceiveAd
    /\ contents' = [number \in currAds \cup {requested} |->
                       IF number \in currAds THEN contents[number] ELSE stored'[Me].ad]

\* The ad is inserted, which leaves one that is there alone, and one is evicted.
Receives ==
    /\ S!ClientReadReply(Me)
    /\ cpc'[Me] = "prompt"
    /\ U!ReceiveAd
    /\ contents' = [number \in currAds' |->
                       IF number \in currAds THEN contents[number] ELSE stored'[Me].ad]

\* The exception that ended the query of this ad has ended the program.
Throws ==
    /\ U!QueryThrows
    /\ cpc[Me] = "gone"
    /\ UNCHANGED <<sessionVars, contents>>

\* The set-up, the size of a reply, and the end of the client at any read.
MyOtherSteps ==
    /\ S!ClientConnect(Me) \/ S!ClientStep(Me) \/ S!Leave(Me)
    /\ cpc'[Me] # "prompt"
    /\ ProgramWaits

Elsewhere ==
    /\ \/ S!ServerStep
       \/ S!ServerCrash
       \/ S!ServerRestart
       \/ \E c \in Clients \ {Me} : \/ S!ClientStep(c)
                                    \/ S!ClientConnect(c)
                                    \/ S!Click(c)
                                    \/ S!Leave(c)
    /\ ProgramWaits

MyStep == FirstAds \/ Receives \/ MyOtherSteps

Next ==
    \/ FirstAds
    \/ Clicks
    \/ AsksAgain
    \/ Receives
    \/ Throws
    \/ MyOtherSteps
    \/ Elsewhere

Spec == Init /\ [][Next]_vars

\* As in AdSession: a read whose bytes have come returns.  The user need not
\* enter anything.
Fairness ==
    /\ WF_vars(S!ServerStep /\ ProgramWaits)
    /\ WF_vars(S!ClientStep(Me) /\ MyStep)

FairSpec == Spec /\ Fairness

-----------------------------------------------------------------------------
\* Every ad on display has a text, and no other.
TypeOK ==
    /\ DOMAIN contents = currAds
    /\ \A number \in currAds : contents[number] \in U!AdNumbers \cup {NoAd}

\* The program is never ahead of its connection nor behind it: where it is in
\* its loop is where the conversation is, and a reply is only ever awaited for
\* the ad that was drawn.
InStep ==
    /\ cpc[Me] \in {"off", "params", "ack1", "ack2", "ads"} => phase = "setup"
    /\ cpc[Me] = "prompt" => phase = "prompt"
    /\ cpc[Me] \in {"size", "reply"} => phase = "request" /\ asked[Me] = requested

\* Whatever other clients do, however the reads fall and whenever the server
\* crashes and comes back, each number on display has its own ad under it.
OwnAdUnderEachNumber ==
    \A number \in currAds : contents[number] = number

\* A click is always followed by another prompt, or by the end of the program.
ClickAnswered ==
    Me \notin MayLeave =>
        (phase = "request" ~> phase \in {"prompt", "stopped"} \/ cpc[Me] = "gone")

=============================================================================
