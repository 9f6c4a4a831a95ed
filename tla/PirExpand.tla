------------------------------ MODULE PirExpand ------------------------------
(***************************************************************************)
(* expand_query of src/src/pir_server.cpp: one encrypted monomial becomes  *)
(* one ciphertext for each plaintext of the database, of which only the    *)
(* one asked for is not zero.                                              *)
(*                                                                         *)
(* A ciphertext is the polynomial it encrypts, with coefficients modulo T, *)
(* in the ring where X^Degree = -1: the SEAL operations act on what is     *)
(* encrypted as they do on ciphertexts.  Noise is not modelled.            *)
(***************************************************************************)
EXTENDS Integers, Sequences

CONSTANTS
    Degree,    \* poly_modulus_degree, a power of 2
    T,         \* plain_modulus, an odd prime
    Sizes      \* numbers of plaintexts a ciphertext may be expanded to

ASSUME ExpandAssumption ==
    /\ Degree \in Nat \ {0, 1}
    /\ \E k \in 1 .. Degree : Degree = 2^k
    /\ T \in Nat \ {0, 1, 2}
    /\ T % 2 = 1
    /\ Sizes \subseteq 2 .. Degree

\* What powers of 2 are, for which the provers have no rules.
ASSUME PowersAssumption ==
    /\ 2^0 = 1
    /\ \A k \in 0 .. Degree : 2^(k + 1) = 2 * 2^k

VARIABLES
    m,        \* ciphertexts to expand to
    wanted,   \* the client's real_index
    temp,     \* the ciphertexts so far; at the end, those returned
    i,        \* rounds done
    pc

vars == <<m, wanted, temp, i, pc>>

-----------------------------------------------------------------------------
(* The ring.                                                               *)

Poly == [0 .. Degree - 1 -> 0 .. T - 1]

Monomial(c, k) == [e \in 0 .. Degree - 1 |-> IF e = k THEN c % T ELSE 0]

Add(p, q) == [e \in 0 .. Degree - 1 |-> (p[e] + q[e]) % T]

Scaled(c, p) == [e \in 0 .. Degree - 1 |-> (c * p[e]) % T]

Negated(c) == (T - c) % T

\* multiply_power_of_X, for a shift below 2 * Degree: what passes X^Degree
\* changes its sign.
MultiplyPowerOfX(p, shift) ==
    [e \in 0 .. Degree - 1 |->
        LET from == (e - shift) % (2 * Degree) IN
            IF from < Degree THEN p[from] ELSE Negated(p[from - Degree])]

\* apply_galois: X becomes X^elt.  elt is odd, so the exponents e * elt, taken
\* modulo Degree, are all different.
ApplyGalois(p, elt) ==
    [f \in 0 .. Degree - 1 |->
        LET e == CHOOSE e \in 0 .. Degree - 1 : (e * elt) % Degree = f IN
            IF (e * elt) % (2 * Degree) = f THEN p[e] ELSE Negated(p[e])]

GaloisElt(r) == (Degree + 2^r) \div 2^r

-----------------------------------------------------------------------------
\* ceil(log2(x))
Log(x) == CHOOSE k \in 0 .. x : 2^k >= x /\ (k > 0 => 2^(k - 1) < x)

\* invert_mod
InvertMod(x) == CHOOSE y \in 1 .. T - 1 : (x * y) % T = 1

Init ==
    /\ m \in Sizes
    /\ wanted \in 0 .. m - 1
    /\ temp = <<Monomial(InvertMod(2^Log(m)), wanted)>>
    /\ i = 0
    /\ pc = "rounds"

\* The rotated sum and the shifted, rotated sum of one ciphertext.
Even(p, r) == Add(p, ApplyGalois(p, GaloisElt(r)))

\* Faulty variant: the rotation taken for the shifted ciphertext's own.
OddUnshifted(p, r) ==
    LET raw == 2 * Degree - 2^r IN
        Add(MultiplyPowerOfX(p, raw),
            MultiplyPowerOfX(ApplyGalois(p, GaloisElt(r)), raw))

Odd(p, r) ==
    LET raw   == 2 * Degree - 2^r
        index == (raw * GaloisElt(r)) % (2 * Degree)
    IN  Add(MultiplyPowerOfX(p, raw),
            MultiplyPowerOfX(ApplyGalois(p, GaloisElt(r)), index))

\* Faulty variant: the last round is done in the loop as well.
RoundOneMore ==
    /\ pc = "rounds"
    /\ i < Log(m)
    /\ temp' = [a \in 1 .. 2 * Len(temp) |->
                   IF a <= Len(temp) THEN Even(temp[a], i)
                                     ELSE Odd(temp[a - Len(temp)], i)]
    /\ i' = i + 1
    /\ UNCHANGED <<m, wanted, pc>>

\* A round doubles the list: the first half keeps the exponents that are even
\* multiples of 2^i, the second half the odd ones.
Round ==
    /\ pc = "rounds"
    /\ i < Log(m) - 1
    /\ temp' = [a \in 1 .. 2 * Len(temp) |->
                   IF a <= Len(temp) THEN Even(temp[a], i)
                                     ELSE Odd(temp[a - Len(temp)], i)]
    /\ i' = i + 1
    /\ UNCHANGED <<m, wanted, pc>>

\* Faulty variant: the bound of the corner case off by one.
HasPartnerOffByOne(a) == a + 1 < m - 2^(Log(m) - 1)

\* Whether the a-th ciphertext (from 0) still stands for two plaintexts.
HasPartner(a) == a < m - 2^(Log(m) - 1)

\* The last round: a ciphertext whose partner would fall beyond m is doubled
\* instead, and of the new list only the first m are returned.
LastRound ==
    /\ pc = "rounds"
    /\ i = Log(m) - 1
    /\ temp' = [a \in 1 .. m |->
                   IF a <= Len(temp)
                   THEN IF HasPartner(a - 1) THEN Even(temp[a], i)
                                             ELSE Scaled(2, temp[a])
                   ELSE Odd(temp[a - Len(temp)], i)]
    /\ pc' = "done"
    /\ UNCHANGED <<m, wanted, i>>

Next == Round \/ LastRound

Spec == Init /\ [][Next]_vars

-----------------------------------------------------------------------------
TypeOK ==
    /\ m \in Sizes
    /\ wanted \in 0 .. m - 1
    /\ temp \in Seq(Poly)
    /\ i \in 0 .. Log(m) - 1
    /\ pc \in {"rounds", "done"}

\* What the comment at pir_server.cpp:336 says of the list between two rounds:
\* the ciphertext whose place agrees with the index asked for modulo 2^i holds
\* the monomial, moved back by that place and scaled, and the others are zero.
RoundsNarrowDown ==
    pc = "rounds" =>
        /\ Len(temp) = 2^i
        /\ \A a \in 0 .. 2^i - 1 :
               temp[a + 1] = IF wanted % 2^i = a
                             THEN Monomial(2^i * InvertMod(2^Log(m)), wanted - a)
                             ELSE Monomial(0, 0)

\* The list returned selects the plaintext asked for and no other, for every
\* number of plaintexts, power of 2 or not: the factors of 2 the rounds
\* introduce are those the client divided by.
ExpansionSelects ==
    pc = "done" =>
        /\ Len(temp) = m
        /\ \A j \in 0 .. m - 1 :
               temp[j + 1] = Monomial(IF j = wanted THEN 1 ELSE 0, 0)

=============================================================================
