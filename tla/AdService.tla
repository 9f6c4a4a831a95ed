------------------------------ MODULE AdService ------------------------------
(***************************************************************************)
(* What the ad server promises its clients, whatever the network does: a   *)
(* client sees ads only after the server has stored its key, an ad is      *)
(* filed under the number it was asked by, and the server, once it serves  *)
(* a client, serves no other before it has failed and come back.  Module   *)
(* AdSession implements it.                                                *)
(***************************************************************************)
EXTENDS Integers

CONSTANTS
    Clients, NoClient,
    Ads, NoAd

VARIABLES
    server,    \* "up" or "down"
    holder,    \* the client that has the service
    keyed,     \* clients whose key has been stored
    status,    \* how far each client is
    request,   \* the ad each client waits for
    filed      \* the last ad each client filed, and the number it is under

serverVars == <<server, holder, keyed>>
clientVars == <<status, request, filed>>
vars       == <<serverVars, clientVars>>

Nothing == [number |-> NoAd, ad |-> NoAd]

Init ==
    /\ server = "up"
    /\ holder = NoClient
    /\ keyed = {}
    /\ status = [c \in Clients |-> "away"]
    /\ request = [c \in Clients |-> NoAd]
    /\ filed = [c \in Clients |-> Nothing]

-----------------------------------------------------------------------------
\* The holder keeps the service until the server fails, gone or not.
Take(c) ==
    /\ server = "up"
    /\ holder = NoClient
    /\ status[c] # "away"
    /\ holder' = c
    /\ UNCHANGED <<server, keyed, clientVars>>

StoreKey ==
    /\ holder # NoClient
    /\ keyed' = keyed \cup {holder}
    /\ UNCHANGED <<server, holder, clientVars>>

\* The server may fail as it acknowledges a key.
Fail ==
    /\ server = "up"
    /\ server' = "down"
    /\ holder' = NoClient
    /\ keyed' \in {keyed, keyed \cup ({holder} \cap Clients)}
    /\ UNCHANGED clientVars

Recover ==
    /\ server = "down"
    /\ server' = "up"
    /\ UNCHANGED <<holder, keyed, clientVars>>

Become(c, next) == status' = [status EXCEPT ![c] = next]

\* A client is refused only by a server that is down.
Arrive(c) ==
    /\ status[c] = "away"
    /\ \/ server = "up" /\ Become(c, "starting")
       \/ server = "down" /\ Become(c, "over")
    /\ UNCHANGED <<serverVars, request, filed>>

Welcome(c) ==
    /\ status[c] = "starting"
    /\ c \in keyed
    /\ Become(c, "ready")
    /\ UNCHANGED <<serverVars, request, filed>>

Ask(c, ad) ==
    /\ status[c] = "ready"
    /\ Become(c, "waiting")
    /\ request' = [request EXCEPT ![c] = ad]
    /\ UNCHANGED <<serverVars, filed>>

Reply(c) ==
    /\ status[c] = "waiting"
    /\ Become(c, "ready")
    /\ filed' = [filed EXCEPT ![c] = [number |-> request[c], ad |-> request[c]]]
    /\ request' = [request EXCEPT ![c] = NoAd]
    /\ UNCHANGED serverVars

End(c) ==
    /\ status[c] # "away"
    /\ Become(c, "over")
    /\ request' = [request EXCEPT ![c] = NoAd]
    /\ UNCHANGED <<serverVars, filed>>

Next ==
    \/ StoreKey
    \/ Fail
    \/ Recover
    \/ \E c \in Clients : \/ Take(c)
                          \/ Arrive(c)
                          \/ Welcome(c)
                          \/ \E ad \in Ads : Ask(c, ad)
                          \/ Reply(c)
                          \/ End(c)

Spec == Init /\ [][Next]_vars

=============================================================================
