---------------------------- MODULE MCUserProgram ----------------------------
(***************************************************************************)
(* Instances of UserProgram for TLC.  ReverseRank is the iteration order   *)
(* libstdc++ gives the ten keys inserted in increasing order: last first.  *)
(***************************************************************************)
EXTENDS UserProgram

ReverseRank == [g \in 0 .. NumGroups - 1 |-> NumGroups - 1 - g]
=============================================================================
