----------------------------- MODULE MCAdSystem -----------------------------
(***************************************************************************)
(* An instance of AdSystem for TLC: the user's client and another one.     *)
(***************************************************************************)
EXTENDS AdSystem

CONSTANTS c1, c2

MessageKinds == {"connect", "params", "galLen", "galKey", "ACK", "OBTAIN",
                 "ads", "size", "reply"}

SmallSize ==
    [k \in MessageKinds |-> IF k \in {"ads", "reply"} THEN 2 ELSE 1]

OpeningAndAck == {"connect", "params", "ACK"}

ReverseRank == [g \in 0 .. NumGroups - 1 |-> NumGroups - 1 - g]
=============================================================================
