--------------------------- MODULE AdSystemProofs ---------------------------
(***************************************************************************)
(* The composition is one of behaviours of its parts: every behaviour of   *)
(* AdSystem is one of UserProgram and one of AdSession, so that what is    *)
(* proved of either holds of the whole.  Its two parts stay in step, and   *)
(* with the reply that AdSession proves correct this gives what the user   *)
(* sees: each ad under its own number.                                     *)
(***************************************************************************)
EXTENDS AdSystem, TLAPS

LEMMA ProgramVars == U!vars = programVars
  BY DEF U!vars, programVars

LEMMA SessionVars == UNCHANGED sessionVars => UNCHANGED S!vars
  BY DEF S!vars, sessionVars, S!control, S!memory, S!clientVars

-----------------------------------------------------------------------------
\* A user of the system runs the program of module UserProgram, whatever the
\* server and the other clients do (user.cpp:411-460).
THEOREM SystemRunsProgram == Spec => U!Spec
<1>1. Init => U!Init
  BY DEF Init
<1>2. [Next]_vars => [U!Next]_U!vars
  <2> SUFFICES ASSUME [Next]_vars PROVE U!Next \/ UNCHANGED U!vars
    OBVIOUS
  <2>1. CASE UNCHANGED vars
    BY <2>1 DEF vars, programVars, U!vars
  <2>2. CASE FirstAds
    BY <2>2 DEF FirstAds, U!Next
  <2>3. CASE Clicks
    BY <2>3 DEF Clicks, U!Next
  <2>4. CASE AsksAgain
    BY <2>4 DEF AsksAgain, U!Next
  <2>5. CASE Receives
    BY <2>5 DEF Receives, U!Next
  <2>6. CASE Throws
    BY <2>6 DEF Throws, U!Next
  <2>7. CASE MyOtherSteps \/ Elsewhere
    BY <2>7 DEF MyOtherSteps, Elsewhere, ProgramWaits, programVars, U!vars
  <2> QED
    BY <2>1, <2>2, <2>3, <2>4, <2>5, <2>6, <2>7 DEF Next
<1> QED
  BY <1>1, <1>2, PTL DEF Spec, U!Spec

\* And its client takes part in a conversation of module AdSession, as one of
\* the clients (user.cpp:253-460, main_server.cpp:253-430).
THEOREM SystemRunsSession == Spec => S!Spec
<1>1. Init => S!Init
  BY DEF Init
<1>2. [Next]_vars => [S!Next]_S!vars
  <2> SUFFICES ASSUME [Next]_vars PROVE S!Next \/ UNCHANGED S!vars
    OBVIOUS
  <2>0. Me \in Clients
    BY SystemAssumption
  <2>1. CASE UNCHANGED vars
    BY <2>1, SessionVars DEF vars, sessionVars
  <2>2. CASE FirstAds
    BY <2>0, <2>2 DEF FirstAds, S!ClientStep, S!Next
  <2>3. CASE Clicks
    BY <2>0, <2>3 DEF Clicks, S!Next
  <2>4. CASE AsksAgain \/ Throws
    BY <2>4, SessionVars DEF AsksAgain, Throws, sessionVars
  <2>5. CASE Receives
    BY <2>0, <2>5 DEF Receives, S!ClientStep, S!Next
  <2>6. CASE MyOtherSteps
    BY <2>0, <2>6 DEF MyOtherSteps, S!Next
  <2>7. CASE Elsewhere
    BY <2>7 DEF Elsewhere, S!Next
  <2> QED
    BY <2>1, <2>2, <2>3, <2>4, <2>5, <2>6, <2>7 DEF Next
<1> QED
  BY <1>1, <1>2, PTL DEF Spec, S!Spec

-----------------------------------------------------------------------------
(* The program and its connection stay in step.                            *)

SettingUp == {"off", "params", "ack1", "ack2", "ads"}

Served == {"prompt", "size", "reply"}

Places == SettingUp \cup Served \cup {"gone"}

PlaceTypes ==
    /\ cpc \in [Clients -> Places]
    /\ asked \in [Clients -> U!AdNumbers \cup {NoAd}]

StepInv == PlaceTypes /\ InStep

\* A client that goes on, with a write or without one, is at the read it goes
\* to, or has ended over the write; no other client has moved.
LEMMA Moves ==
    ASSUME PlaceTypes, NEW c \in Clients, NEW next \in Places,
           S!ClientGoesTo(c, next) \/ \E message : S!ClientWrites(c, message, next)
    PROVE  /\ cpc' \in [Clients -> Places]
           /\ cpc'[c] \in {next, "gone"}
           /\ \A d \in Clients \ {c} : cpc'[d] = cpc[d]
<1>1. PICK reached \in {next, "gone"} : cpc' = [cpc EXCEPT ![c] = reached]
  BY DEF S!ClientGoesTo, S!ClientWrites
<1>2. reached \in Places
  BY <1>1 DEF Places
<1> QED
  BY <1>1, <1>2 DEF PlaceTypes

\* One read of a client that is not to be asked for a click next.
LEMMA ReadMoves ==
    ASSUME PlaceTypes, NEW c \in Clients, S!ClientStep(c)
    PROVE  /\ PlaceTypes'
           /\ asked' = asked
           /\ \A d \in Clients \ {c} : cpc'[d] = cpc[d]
           /\ \/ cpc[c] \in SettingUp /\ cpc'[c] \in SettingUp \cup {"prompt", "gone"}
              \/ cpc[c] \in {"size", "reply"} /\ cpc'[c] \in {"reply", "prompt", "gone"}
<1> USE DEF SettingUp, Served, Places
<1>1. CASE S!ClientReadParams(c)
  <2>1. \/ S!ClientWrites(c, S!Msg("galLen"), "ack1")
        \/ S!ClientGoesTo(c, "gone")
    BY <1>1 DEF S!ClientReadParams
  <2>2. cpc[c] = "params" /\ asked' = asked
    BY <1>1 DEF S!ClientReadParams
  <2> QED
    BY <2>1, <2>2, Moves DEF PlaceTypes
<1>2. CASE S!ClientReadAck1(c)
  <2>1. S!ClientWrites(c, S!Msg("galKey"), "ack2")
    BY <1>2 DEF S!ClientReadAck1
  <2>2. cpc[c] = "ack1" /\ asked' = asked
    BY <1>2 DEF S!ClientReadAck1
  <2> QED
    BY <2>1, <2>2, Moves DEF PlaceTypes
<1>3. CASE S!ClientReadAck2(c)
  <2>1. \/ S!ClientWrites(c, S!Msg("OBTAIN"), "ads")
        \/ S!ClientGoesTo(c, "gone")
    BY <1>3 DEF S!ClientReadAck2
  <2>2. cpc[c] = "ack2" /\ asked' = asked
    BY <1>3 DEF S!ClientReadAck2
  <2> QED
    BY <2>1, <2>2, Moves DEF PlaceTypes
<1>4. CASE S!ClientReadAds(c)
  <2>1. S!ClientGoesTo(c, "prompt") \/ S!ClientGoesTo(c, "gone")
    BY <1>4 DEF S!ClientReadAds
  <2>2. cpc[c] = "ads" /\ asked' = asked
    BY <1>4 DEF S!ClientReadAds
  <2> QED
    BY <2>1, <2>2, Moves DEF PlaceTypes
<1>5. CASE S!ClientReadSize(c)
  <2>1. \/ S!ClientWrites(c, S!Msg("ACK"), "reply")
        \/ S!ClientWrites(c, S!Msg("ACK"), "gone")
        \/ S!ClientGoesTo(c, "gone")
    BY <1>5 DEF S!ClientReadSize
  <2>2. cpc[c] = "size" /\ asked' = asked
    BY <1>5 DEF S!ClientReadSize
  <2> QED
    BY <2>1, <2>2, Moves DEF PlaceTypes
<1>6. CASE S!ClientReadReply(c)
  <2>1. S!ClientGoesTo(c, "prompt") \/ S!ClientGoesTo(c, "gone")
    BY <1>6 DEF S!ClientReadReply
  <2>2. cpc[c] = "reply" /\ asked' = asked
    BY <1>6 DEF S!ClientReadReply
  <2> QED
    BY <2>1, <2>2, Moves DEF PlaceTypes
<1> QED
  BY <1>1, <1>2, <1>3, <1>4, <1>5, <1>6 DEF S!ClientStep

\* A click moves a client from its prompt to the size of the reply.
LEMMA ClickMoves ==
    ASSUME PlaceTypes, NEW c \in Clients, S!Click(c)
    PROVE  /\ PlaceTypes'
           /\ cpc[c] = "prompt" /\ cpc'[c] \in {"size", "gone"}
           /\ \A d \in Clients \ {c} : cpc'[d] = cpc[d] /\ asked'[d] = asked[d]
<1> USE DEF SettingUp, Served, Places
<1>1. PICK ad \in U!AdNumbers : /\ asked' = [asked EXCEPT ![c] = ad]
                                /\ S!WritesQuery(c, ad) \/ S!QueryFails(c, ad)
  BY DEF S!Click
<1>2. \/ \E message : S!ClientWrites(c, message, "size")
      \/ S!ClientGoesTo(c, "gone")
  BY <1>1 DEF S!WritesQuery, S!QueryFails
<1>3. cpc[c] = "prompt"
  BY DEF S!Click
<1>4. /\ asked' \in [Clients -> U!AdNumbers \cup {NoAd}]
      /\ \A d \in Clients \ {c} : asked'[d] = asked[d]
  BY <1>1 DEF PlaceTypes
<1> QED
  BY <1>2, <1>3, <1>4, Moves DEF PlaceTypes

\* A client that connects, or that its user ends.
LEMMA EndMoves ==
    ASSUME PlaceTypes, NEW c \in Clients, S!ClientConnect(c) \/ S!Leave(c)
    PROVE  /\ PlaceTypes'
           /\ asked' = asked
           /\ \A d \in Clients \ {c} : cpc'[d] = cpc[d]
           /\ \/ cpc[c] = "off" /\ cpc'[c] = "params"
              \/ cpc'[c] = "gone"
<1> USE DEF SettingUp, Served, Places
<1>1. CASE S!Leave(c)
  <2>1. S!ClientGoesTo(c, "gone") /\ asked' = asked
    BY <1>1 DEF S!Leave
  <2> QED
    BY <2>1, Moves DEF PlaceTypes
<1>2. CASE S!ClientConnect(c)
  <2>1. /\ cpc[c] = "off" /\ asked' = asked
        /\ \E next \in {"params", "gone"} : cpc' = [cpc EXCEPT ![c] = next]
    BY <1>2 DEF S!ClientConnect, S!ClientGoesTo
  <2> QED
    BY <2>1 DEF PlaceTypes
<1> QED
  BY <1>1, <1>2

\* No step of the server moves a client.
LEMMA ServerMovesNone ==
    ASSUME S!ServerStep \/ S!ServerCrash \/ S!ServerRestart
    PROVE  cpc' = cpc /\ asked' = asked
BY DEF S!ServerStep, S!ServerCrash, S!ServerRestart, S!ServerAccept,
       S!ServerReadConnect, S!ServerReadGalLen, S!ServerReadGalKey,
       S!ServerReadObtain, S!ServerReadQuery, S!ServerReadAck, S!clientVars

LEMMA StepInit == Init => StepInv
BY SystemAssumption
   DEF Init, S!Init, U!Init, StepInv, PlaceTypes, InStep, SettingUp, Served, Places

\* What other clients and the server do leaves the user's client where it is.
LEMMA ElsewhereKeeps == StepInv /\ Elsewhere => StepInv'
<1> SUFFICES ASSUME StepInv, Elsewhere PROVE StepInv'
  OBVIOUS
<1>1. PlaceTypes /\ InStep /\ Me \in Clients /\ UNCHANGED programVars
  BY SystemAssumption DEF StepInv, Elsewhere, ProgramWaits
<1>2. PlaceTypes' /\ cpc'[Me] = cpc[Me] /\ asked'[Me] = asked[Me]
  <2>1. CASE S!ServerStep \/ S!ServerCrash \/ S!ServerRestart
    BY <1>1, <2>1, ServerMovesNone DEF PlaceTypes
  <2>2. ASSUME NEW c \in Clients \ {Me},
               S!ClientStep(c) \/ S!ClientConnect(c) \/ S!Click(c) \/ S!Leave(c)
        PROVE  PlaceTypes' /\ cpc'[Me] = cpc[Me] /\ asked'[Me] = asked[Me]
    <3>1. c \in Clients /\ Me \in Clients \ {c}
      BY <1>1
    <3> QED
      BY <1>1, <2>2, <3>1, ReadMoves, EndMoves, ClickMoves
  <2> QED
    BY <2>1, <2>2 DEF Elsewhere
<1> QED
  BY <1>1, <1>2 DEF StepInv, InStep, programVars

\* The set-up and the reads of the user's client that do not end in a prompt.
LEMMA MyOtherStepsKeep == StepInv /\ MyOtherSteps => StepInv'
<1> SUFFICES ASSUME StepInv, MyOtherSteps PROVE StepInv'
  OBVIOUS
<1>1. /\ PlaceTypes /\ InStep /\ Me \in Clients
      /\ cpc'[Me] # "prompt"
      /\ UNCHANGED programVars
  BY SystemAssumption DEF StepInv, MyOtherSteps, ProgramWaits
<1>2. PlaceTypes' /\ asked' = asked
  BY <1>1, ReadMoves, EndMoves DEF MyOtherSteps
<1>3. \/ cpc[Me] \in SettingUp /\ cpc'[Me] \in SettingUp
      \/ cpc[Me] \in {"size", "reply"} /\ cpc'[Me] = "reply"
      \/ cpc'[Me] = "gone"
  BY <1>1, ReadMoves, EndMoves DEF MyOtherSteps, SettingUp
<1> QED
  BY <1>1, <1>2, <1>3 DEF StepInv, InStep, programVars, SettingUp

LEMMA StepStep == StepInv /\ [Next]_vars => StepInv'
<1> SUFFICES ASSUME StepInv, [Next]_vars PROVE StepInv'
  OBVIOUS
<1>0. PlaceTypes /\ InStep /\ Me \in Clients
  BY SystemAssumption DEF StepInv
<1>1. CASE UNCHANGED vars
  BY <1>1 DEF StepInv, PlaceTypes, InStep, vars, sessionVars, programVars
<1>2. CASE FirstAds
  <2>1. cpc'[Me] = "prompt" /\ phase' = "prompt"
    BY <1>2 DEF FirstAds, U!ObtainInitialAdSetServer
  <2>2. PlaceTypes'
    BY <1>0, <1>2, ReadMoves DEF FirstAds, S!ClientStep
  <2> QED
    BY <2>1, <2>2 DEF StepInv, InStep
<1>3. CASE Clicks
  <2>1. phase' = "request" /\ asked'[Me] = requested'
    BY <1>3 DEF Clicks
  <2>2. PlaceTypes' /\ cpc'[Me] \in {"size", "gone"}
    BY <1>0, <1>3, ClickMoves DEF Clicks
  <2> QED
    BY <2>1, <2>2 DEF StepInv, InStep
<1>4. CASE AsksAgain
  <2>1. phase = "prompt" /\ phase' = "prompt" /\ cpc' = cpc /\ asked' = asked
    BY <1>4 DEF AsksAgain, sessionVars, U!Input, U!EnterNumber, U!FailInput, U!RepeatInput
  <2> QED
    BY <1>0, <2>1 DEF StepInv, PlaceTypes, InStep
<1>5. CASE Receives
  <2>1. cpc'[Me] = "prompt" /\ phase' = "prompt"
    BY <1>5 DEF Receives, U!ReceiveAd
  <2>2. PlaceTypes'
    BY <1>0, <1>5, ReadMoves DEF Receives, S!ClientStep
  <2> QED
    BY <2>1, <2>2 DEF StepInv, InStep
<1>6. CASE Throws
  <2>1. cpc[Me] = "gone" /\ cpc' = cpc /\ asked' = asked
    BY <1>6 DEF Throws, sessionVars
  <2> QED
    BY <1>0, <2>1 DEF StepInv, PlaceTypes, InStep
<1> QED
  BY <1>1, <1>2, <1>3, <1>4, <1>5, <1>6, ElsewhereKeeps, MyOtherStepsKeep DEF Next

\* The program waits for the user exactly when its connection is at the prompt,
\* and for a reply only to the ad that was drawn, for any number of clients,
\* ads, crashes and restarts (user.cpp:419-459).
THEOREM AlwaysInStep == Spec => []InStep
<1>1. StepInv => InStep
  BY DEF StepInv
<1> QED
  BY <1>1, StepInit, StepStep, PTL DEF Spec

-----------------------------------------------------------------------------
(* What is proved of the conversation and of the program, in their own     *)
(* modules, holds of the whole.                                            *)

SP == INSTANCE AdSessionProofs
          WITH Ads <- U!AdNumbers, ThrowingAds <- U!AdNumbers \cap {Degree}

UP == INSTANCE UserProgramProofs

\* The conversation that the proofs are about is the one of the model: both
\* instances of the module are expanded to the same formula.
LEMMA SameInit == S!Init => SP!Init
  BY DEF S!Init, SP!Init

LEMMA SameNext == [S!Next]_S!vars => [SP!Next]_SP!vars
<1>1. S!ServerAccept => SP!ServerAccept
  BY DEF S!ServerAccept, SP!ServerAccept, S!memory, SP!memory, S!clientVars,
         SP!clientVars
<1>2. S!ServerReadConnect => SP!ServerReadConnect
  BY DEF S!ServerReadConnect, SP!ServerReadConnect, S!memory, SP!memory,
         S!clientVars, SP!clientVars, S!ReadLengths, SP!ReadLengths, S!Taken,
         SP!Taken, S!Rest, SP!Rest, S!ServerTakes, SP!ServerTakes, S!Ample,
         SP!Ample, S!Msg, SP!Msg, S!Units, SP!Units, S!ServerSends,
         SP!ServerSends, S!Dies, SP!Dies, S!WrongRequest, SP!WrongRequest,
         S!ServerAtEnd, SP!ServerAtEnd
<1>3. S!ServerReadGalLen => SP!ServerReadGalLen
  BY DEF S!ServerReadGalLen, SP!ServerReadGalLen, S!clientVars, SP!clientVars,
         S!ReadLengths, SP!ReadLengths, S!Taken, SP!Taken, S!Rest, SP!Rest, S!ServerTakes,
         SP!ServerTakes, S!Ample, SP!Ample, S!Msg, SP!Msg, S!Units, SP!Units,
         S!ServerSends, SP!ServerSends, S!Dies, SP!Dies, S!ServerAtEnd,
         SP!ServerAtEnd
<1>4. S!ServerReadGalKey => SP!ServerReadGalKey
  BY DEF S!ServerReadGalKey, SP!ServerReadGalKey, S!clientVars, SP!clientVars,
         S!ReadLengths, SP!ReadLengths, S!Taken, SP!Taken, S!Rest, SP!Rest,
         S!ServerTakes, SP!ServerTakes, S!KeyIncomplete, SP!KeyIncomplete,
         S!KeyComplete, SP!KeyComplete, S!KeyDamaged, SP!KeyDamaged,
         S!KeyEmpty, SP!KeyEmpty, S!KeyAtEnd, SP!KeyAtEnd, S!Msg, SP!Msg, S!Units, SP!Units, S!GoesTo,
         SP!GoesTo, S!ServerSends, SP!ServerSends, S!Dies, SP!Dies,
         S!ServerAtEnd, SP!ServerAtEnd, S!ServerReset, SP!ServerReset
<1>5. S!ServerReadObtain => SP!ServerReadObtain
  BY DEF S!ServerReadObtain, SP!ServerReadObtain, S!clientVars, SP!clientVars,
         S!ReadLengths, SP!ReadLengths, S!Taken, SP!Taken, S!Rest, SP!Rest,
         S!ServerTakes, SP!ServerTakes, S!Msg, SP!Msg, S!Units, SP!Units,
         S!ServerSends, SP!ServerSends, S!Dies, SP!Dies, S!ServerAtEnd,
         SP!ServerAtEnd
<1>6. S!ServerReadQuery => SP!ServerReadQuery
  BY DEF S!ServerReadQuery, SP!ServerReadQuery, S!clientVars, SP!clientVars,
         S!ReadLengths, SP!ReadLengths, S!Taken, SP!Taken, S!Rest, SP!Rest,
         S!ServerTakes, SP!ServerTakes, S!Loads, SP!Loads, S!Answers,
         SP!Answers, S!QueryAtEnd, SP!QueryAtEnd, S!Msg, SP!Msg, S!Units,
         SP!Units, S!GoesTo, SP!GoesTo, S!ServerSends, SP!ServerSends, S!Dies,
         SP!Dies, S!ServerAtEnd, SP!ServerAtEnd, S!ServerReset, SP!ServerReset
<1>7. S!ServerReadAck => SP!ServerReadAck
  BY DEF S!ServerReadAck, SP!ServerReadAck, S!clientVars, SP!clientVars,
         S!ReadLengths, SP!ReadLengths, S!Rest, SP!Rest, S!ServerTakes,
         SP!ServerTakes, S!Units, SP!Units, S!ServerSends, SP!ServerSends,
         S!Dies, SP!Dies, S!ServerAtEnd, SP!ServerAtEnd
<1>8. S!ServerCrash => SP!ServerCrash
  BY DEF S!ServerCrash, SP!ServerCrash, S!memory, SP!memory, S!clientVars,
         SP!clientVars, S!Dies, SP!Dies
<1>9. S!ServerRestart => SP!ServerRestart
  BY DEF S!ServerRestart, SP!ServerRestart, S!clientVars, SP!clientVars
<1>10. ASSUME NEW c
      PROVE  /\ S!ClientStep(c) => SP!ClientStep(c)
             /\ S!ClientConnect(c) => SP!ClientConnect(c)
             /\ S!Click(c) => SP!Click(c)
             /\ S!Leave(c) => SP!Leave(c)
  <2>1. S!ClientReadParams(c) => SP!ClientReadParams(c)
    BY DEF S!ClientReadParams, SP!ClientReadParams, S!ReadLengths,
           SP!ReadLengths, S!Rest, SP!Rest, S!Ample, SP!Ample, S!ClientTakes,
           SP!ClientTakes, S!ClientAtEnd, SP!ClientAtEnd, S!ClientGoesTo,
           SP!ClientGoesTo, S!ClientWrites, SP!ClientWrites, S!Msg, SP!Msg,
           S!Units, SP!Units, S!control, SP!control, S!memory, SP!memory
  <2>2. S!ClientReadAck1(c) => SP!ClientReadAck1(c)
    BY DEF S!ClientReadAck1, SP!ClientReadAck1, S!ReadLengths, SP!ReadLengths,
           S!Rest, SP!Rest, S!Ample, SP!Ample, S!ClientTakes, SP!ClientTakes,
           S!ClientAtEnd, SP!ClientAtEnd, S!ReadsAck, SP!ReadsAck,
           S!ClientGoesTo, SP!ClientGoesTo, S!ClientWrites, SP!ClientWrites,
           S!Msg, SP!Msg, S!Units, SP!Units, S!control, SP!control, S!memory,
           SP!memory
  <2>3. S!ClientReadAck2(c) => SP!ClientReadAck2(c)
    BY DEF S!ClientReadAck2, SP!ClientReadAck2, S!ReadLengths, SP!ReadLengths,
           S!Rest, SP!Rest, S!Ample, SP!Ample, S!ClientTakes, SP!ClientTakes,
           S!ClientAtEnd, SP!ClientAtEnd, S!ReadsAck, SP!ReadsAck,
           S!ClientGoesTo, SP!ClientGoesTo, S!ClientWrites, SP!ClientWrites,
           S!Msg, SP!Msg, S!Units, SP!Units, S!control, SP!control, S!memory,
           SP!memory
  <2>4. S!ClientReadAds(c) => SP!ClientReadAds(c)
    BY DEF S!ClientReadAds, SP!ClientReadAds, S!ReadLengths, SP!ReadLengths,
           S!Rest, SP!Rest, S!Ample, SP!Ample, S!ClientTakes, SP!ClientTakes,
           S!ClientAtEnd, SP!ClientAtEnd, S!ClientGoesTo, SP!ClientGoesTo,
           S!control, SP!control, S!memory, SP!memory
  <2>5. S!ClientReadSize(c) => SP!ClientReadSize(c)
    BY DEF S!ClientReadSize, SP!ClientReadSize, S!ReadLengths, SP!ReadLengths,
           S!Taken, SP!Taken, S!Rest, SP!Rest, S!ClientTakes, SP!ClientTakes,
           S!ClientAtEnd, SP!ClientAtEnd, S!ClientGoesTo, SP!ClientGoesTo,
           S!ClientWrites, SP!ClientWrites, S!Msg, SP!Msg, S!Units, SP!Units,
           S!control, SP!control, S!memory, SP!memory
  <2>6. S!ClientReadReply(c) => SP!ClientReadReply(c)
    BY DEF S!ClientReadReply, SP!ClientReadReply, S!ReadLengths,
           SP!ReadLengths, S!Taken, SP!Taken, S!Rest, SP!Rest, S!ClientTakes,
           SP!ClientTakes, S!ClientAtEnd, SP!ClientAtEnd, S!ClientGoesTo,
           SP!ClientGoesTo, S!Units, SP!Units, S!control, SP!control, S!memory,
           SP!memory
  <2>7. S!ClientConnect(c) => SP!ClientConnect(c)
    BY DEF S!ClientConnect, SP!ClientConnect, S!ClientGoesTo, SP!ClientGoesTo,
           S!Msg, SP!Msg, S!Units, SP!Units, S!memory, SP!memory
  <2>8. S!Click(c) => SP!Click(c)
    BY DEF S!Click, SP!Click, S!WritesQuery, SP!WritesQuery, S!QueryFails,
           SP!QueryFails, S!ClientGoesTo, SP!ClientGoesTo, S!ClientWrites,
           SP!ClientWrites, S!Units, SP!Units, S!control, SP!control, S!memory,
           SP!memory
  <2>9. S!Leave(c) => SP!Leave(c)
    BY DEF S!Leave, SP!Leave, S!ClientGoesTo, SP!ClientGoesTo, S!control,
           SP!control, S!memory, SP!memory
  <2> QED
    BY <2>1, <2>2, <2>3, <2>4, <2>5, <2>6, <2>7, <2>8, <2>9
       DEF S!ClientStep, SP!ClientStep
<1>11. S!vars = SP!vars /\ S!vars' = SP!vars'
  BY DEF S!vars, SP!vars, S!control, SP!control, S!memory, SP!memory,
         S!clientVars, SP!clientVars
<1> QED
  BY <1>1, <1>2, <1>3, <1>4, <1>5, <1>6, <1>7, <1>8, <1>9, <1>10,
     <1>11
     DEF S!Next, SP!Next, S!ServerStep, SP!ServerStep

LEMMA SessionParameters == SP!SessionAssumption
  BY PartsAssumption
     DEF S!SessionAssumption, SP!SessionAssumption, S!FixedKinds, SP!FixedKinds,
         S!Kinds, SP!Kinds

\* The ad that a client files is the ad of the number, in the whole as well.
LEMMA SystemReplies == Spec => []S!ReplyCorrect
<1>1. SP!Spec => []SP!ReplyCorrect
  BY SessionParameters, SP!ReplyCorrectAlways DEF SP!ReplyCorrectAlways
<1>2. SP!ReplyCorrect => S!ReplyCorrect
  BY DEF S!ReplyCorrect, SP!ReplyCorrect
<1> QED
  BY <1>1, <1>2, SystemRunsSession, SameInit, SameNext, PTL DEF S!Spec, SP!Spec

\* And every client files some number with some ad.
Filed == stored \in [Clients -> [number : U!AdNumbers \cup {NoAd},
                                ad : U!AdNumbers \cup {NoAd}]]

LEMMA SystemFiles == Spec => []Filed
<1>1. SP!Spec => []SP!TypeOK
  BY SessionParameters, SP!SessionTypeCorrect DEF SP!SessionTypeCorrect
<1>2. SP!TypeOK => Filed
  BY DEF SP!TypeOK, Filed
<1> QED
  BY <1>1, <1>2, SystemRunsSession, SameInit, SameNext, PTL DEF S!Spec, SP!Spec

LEMMA ProgramParameters == UP!SizesAssumption /\ UP!RankAssumption
  BY PartsAssumption
     DEF U!SizesAssumption, UP!SizesAssumption, U!RankAssumption, UP!RankAssumption,
         U!NumAds, UP!NumAds, U!Groups, UP!Groups

LEMMA SameProgramInit == U!Init => UP!Init
  BY DEF U!Init, UP!Init, U!AdNumbers, UP!AdNumbers, U!NumAds, UP!NumAds,
         U!Unknown, UP!Unknown, U!Groups, UP!Groups

LEMMA SameProgramNext == [U!Next]_U!vars => [UP!Next]_UP!vars
<1>1. U!ObtainInitialAdSetServer => UP!ObtainInitialAdSetServer
  BY DEF U!ObtainInitialAdSetServer, UP!ObtainInitialAdSetServer,
         U!Groups, UP!Groups
<1>2. U!ObtainInitialAdSetLocal => UP!ObtainInitialAdSetLocal
  BY DEF U!ObtainInitialAdSetLocal, UP!ObtainInitialAdSetLocal
<1>3. ASSUME NEW v
      PROVE  /\ U!MayClick(v) => UP!MayClick(v)
             /\ U!Selected(v) => UP!Selected(v)
  BY DEF U!MayClick, UP!MayClick, U!Selected, UP!Selected, U!GroupOf, UP!GroupOf,
         U!Groups, UP!Groups, U!Width, UP!Width, U!AdsOf, UP!AdsOf,
         U!IsMostPopular, UP!IsMostPopular
<1>4. U!Input => UP!Input
  BY <1>3
     DEF U!Input, UP!Input, U!EnterNumber, UP!EnterNumber, U!FailInput, UP!FailInput,
         U!RepeatInput, UP!RepeatInput, U!GroupOf, UP!GroupOf,
         U!AdNumbers, UP!AdNumbers, U!NumAds, UP!NumAds, U!Unknown, UP!Unknown
<1>5. U!ReceiveAd => UP!ReceiveAd
  BY DEF U!ReceiveAd, UP!ReceiveAd, U!RemoveLeastPopularAd, UP!RemoveLeastPopularAd,
         U!IsLeastPopular, UP!IsLeastPopular, U!Groups, UP!Groups, U!AdsOf, UP!AdsOf
<1>6. U!QueryThrows => UP!QueryThrows
  BY DEF U!QueryThrows, UP!QueryThrows
<1>7. U!vars = UP!vars /\ U!vars' = UP!vars'
  BY DEF U!vars, UP!vars
<1> QED
  BY <1>1, <1>2, <1>4, <1>5, <1>6, <1>7 DEF U!Next, UP!Next

LEMMA SystemProgramTypes == Spec => []U!TypeOK
<1>1. UP!Spec => []UP!TypeOK
  BY ProgramParameters, UP!TypeCorrect DEF UP!TypeCorrect
<1>2. UP!TypeOK => U!TypeOK
  BY DEF U!TypeOK, UP!TypeOK, U!AdNumbers, UP!AdNumbers, U!NumAds, UP!NumAds,
         U!Unknown, UP!Unknown, U!Groups, UP!Groups, U!Width, UP!Width
<1> QED
  BY <1>1, <1>2, SystemRunsProgram, SameProgramInit, SameProgramNext, PTL
     DEF U!Spec, UP!Spec

-----------------------------------------------------------------------------
(* The ads on display.                                                     *)

DisplayInv == DOMAIN contents = currAds /\ OwnAdUnderEachNumber

\* Only the first ads and the arrival of one change what is displayed.
LEMMA DisplayWaits ==
    ASSUME Next PROVE FirstAds \/ Receives \/ UNCHANGED <<currAds, contents>>
BY DEF Next, Clicks, AsksAgain, Throws, MyOtherSteps, Elsewhere, ProgramWaits,
       programVars, U!Input, U!EnterNumber, U!FailInput, U!RepeatInput,
       U!Selected, U!QueryThrows

\* The reply that arrives brings the ad that the program waits for.
LEMMA ReplyIsRequested ==
    ASSUME StepInv, Filed, S!ReplyCorrect', Receives
    PROVE  stored'[Me].ad = requested
<1>1. PICK n, ad :
          /\ cpc[Me] = "reply"
          /\ \/ /\ stored' = [stored EXCEPT ![Me] = [number |-> asked[Me], ad |-> ad]]
                /\ S!ClientGoesTo(Me, "prompt")
             \/ S!ClientGoesTo(Me, "gone")
  BY DEF Receives, S!ClientReadReply
<1> QED
  <2>1. cpc'[Me] = "prompt" /\ Me \in Clients /\ Me \in DOMAIN cpc
    BY SystemAssumption DEF Receives, StepInv, PlaceTypes
  <2>2. ~ S!ClientGoesTo(Me, "gone")
    BY <2>1 DEF S!ClientGoesTo
  <2>3. stored'[Me] = [number |-> asked[Me], ad |-> ad]
    BY <1>1, <2>1, <2>2 DEF Filed
  <2>4. stored'[Me].number = stored'[Me].ad
    BY <2>1 DEF S!ReplyCorrect
  <2> QED
    BY <1>1, <2>3, <2>4 DEF StepInv, InStep

LEMMA DisplayStep ==
    ASSUME DisplayInv, StepInv, Filed, S!ReplyCorrect', [Next]_vars
    PROVE  DisplayInv'
<1>1. CASE UNCHANGED vars \/ UNCHANGED <<currAds, contents>>
  BY <1>1 DEF DisplayInv, OwnAdUnderEachNumber, vars, programVars
<1>2. CASE FirstAds
  BY <1>2 DEF FirstAds, DisplayInv, OwnAdUnderEachNumber
<1>3. CASE Receives
  <2>1. currAds' \subseteq currAds \cup {requested}
    BY <1>3 DEF Receives, U!ReceiveAd, U!RemoveLeastPopularAd
  <2>2. stored'[Me].ad = requested
    BY <1>3, ReplyIsRequested
  <2> QED
    BY <1>3, <2>1, <2>2 DEF Receives, DisplayInv, OwnAdUnderEachNumber
<1> QED
  BY <1>1, <1>2, <1>3, DisplayWaits

LEMMA DisplayAlways == Spec => []DisplayInv
<1>1. Init => DisplayInv
  BY DEF Init, U!Init, DisplayInv, OwnAdUnderEachNumber
<1>2. DisplayInv /\ StepInv /\ Filed /\ S!ReplyCorrect' /\ [Next]_vars => DisplayInv'
  BY DisplayStep
<1> QED
  BY <1>1, <1>2, StepInit, StepStep, SystemReplies, SystemFiles, PTL DEF Spec

\* Each number on display has its own ad under it, for any number of clients
\* and ads, however reads fall and whenever the server crashes and comes back
\* (user.cpp:371-408, 419-459).
THEOREM OwnAdAlwaysUnderEachNumber == Spec => []OwnAdUnderEachNumber
<1>1. DisplayInv => OwnAdUnderEachNumber
  BY DEF DisplayInv
<1> QED
  BY <1>1, DisplayAlways, PTL

\* And the display has an ad for each of its numbers and for no other.
THEOREM DisplayTypeCorrect == Spec => []TypeOK
<1>1. DisplayInv /\ U!TypeOK => TypeOK
  BY DEF DisplayInv, OwnAdUnderEachNumber, TypeOK, U!TypeOK
<1> QED
  BY <1>1, DisplayAlways, SystemProgramTypes, PTL

=============================================================================
