---------------------------- MODULE MCPirRetrieval ----------------------------
(***************************************************************************)
(* Instances of PirRetrieval for TLC: the client asks for every number.     *)
(***************************************************************************)
EXTENDS PirRetrieval

AllNumbers == 0 .. TtlAds - 1
=============================================================================
