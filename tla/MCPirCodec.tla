------------------------------ MODULE MCPirCodec ------------------------------
(***************************************************************************)
(* Instances of PirCodec for TLC: ads of two bytes whose bits all matter,  *)
(* and coefficients of fewer, as many and more bits than a byte.           *)
(***************************************************************************)
EXTENDS PirCodec

TwoBytes == {<<0, 255>>, <<165, 1>>, <<255, 90>>}
=============================================================================
