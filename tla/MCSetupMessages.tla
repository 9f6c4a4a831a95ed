-------------------------- MODULE MCSetupMessages --------------------------
(***************************************************************************)
(* An instance of SetupMessages for TLC: two groups of six ads, so that    *)
(* some numbers have one digit and some have two.                          *)
(***************************************************************************)
EXTENDS SetupMessages

ServerParams == [ele_size |-> 2, elements_per_plaintext |-> 3, d |-> 1]

WholeAds   == [i \in 1 .. 12 |-> 2]
OneShort   == [WholeAds EXCEPT ![8] = 1]
OneLong    == [WholeAds EXCEPT ![2] = 3]
TooFew     == [i \in 1 .. 9 |-> 2]
SomeFiles  == {WholeAds, OneShort, OneLong, TooFew}

\* One dimension, as the server sets it, of one byte and of two.
SomeVectors == {<<5>>, <<40>>}
=============================================================================
