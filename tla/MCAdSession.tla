----------------------------- MODULE MCAdSession -----------------------------
(***************************************************************************)
(* Instances of AdSession for TLC.                                         *)
(***************************************************************************)
EXTENDS AdSession, TLC

CONSTANTS c1, c2, c3, a1, a2, a3

\* Bulk messages of a few units, the others of one.
BulkSize ==
    [k \in FixedKinds |->
        CASE k = "galKey" -> 3
          [] k \in {"params", "ads", "reply"} -> 2
          [] OTHER -> 1]

\* Every message can be cut.
CutSize ==
    [k \in FixedKinds |->
        CASE k \in {"galKey", "params"} -> 3
          [] OTHER -> 2]

\* What the key loop is written for: only the key comes in pieces.
AllButKey == Kinds \ {"galKey"}
NoneWhole == {}

\* A client whose user may leave is like another such client only.
ClientsAlike == Permutations(MayLeave)
AdsAlike     == Permutations(Ads \ ThrowingAds)
Alike        == ClientsAlike \cup AdsAlike
=============================================================================
