----------------------------- MODULE MCPirExpand -----------------------------
(***************************************************************************)
(* Instances of PirExpand for TLC: every size a ciphertext can have.       *)
(***************************************************************************)
EXTENDS PirExpand

AllSizes == 2 .. Degree
=============================================================================
