------------------------------- MODULE PirCodec -------------------------------
(***************************************************************************)
(* How ads become the coefficients of a plaintext and bytes again:         *)
(* bytes_to_coeffs for each ad of a plaintext (src/src/pir.cpp, called     *)
(* from PIRServer::set_database), and coeffs_to_bytes on all the slots     *)
(* (called from PIRClient::extract_bytes).  Between the two the slots are  *)
(* encoded, selected, decrypted and decoded, which changes no value below  *)
(* the plain modulus.                                                      *)
(*                                                                         *)
(* One action is one turn of an inner loop, or what is done between two.   *)
(***************************************************************************)
EXTENDS Integers, Sequences

CONSTANTS
    WordBits,    \* bits of a coefficient's integer: 64
    Limits,      \* usable bits of a coefficient
    Slots,       \* slots of a plaintext
    EleSize,     \* bytes of an ad
    Contents     \* ads: EleSize bytes each

ASSUME CodecAssumption ==
    /\ WordBits \in Nat /\ WordBits >= 8
    /\ Slots \in Nat
    /\ EleSize \in Nat \ {0}
    /\ Contents \subseteq [1 .. EleSize -> 0 .. 255]
    /\ \A l \in Limits : /\ l \in Nat \ {0}
                          /\ 2 * l <= WordBits
                          /\ 8 * EleSize <= l * Slots

\* The powers of 2 that a word can tell apart, each from the one before.
ASSUME PowersAssumption ==
    /\ 2^0 = 1
    /\ \A k \in 0 .. WordBits - 1 : 2^(k + 1) = 2 * 2^k

VARIABLES
    limit,       \* logt
    ads,         \* the ads of one plaintext
    coeffs,      \* its slots
    output,      \* the bytes decoded
    ad,          \* the ad being packed
    i,           \* bytes of that ad, or slots, begun
    target,      \* the coefficient of the ad, or the byte, written to
    src, rest, room, bitsLeft,
    pc

vars == <<limit, ads, coeffs, output, ad, i, target, src, rest, room, bitsLeft, pc>>

-----------------------------------------------------------------------------
Smaller(x, y) == IF x <= y THEN x ELSE y

Bit(x, n) == (x \div 2^n) % 2

\* x | y: the bits below n, for each n up to the size of a word.
BitOr(x, y) ==
    LET low[n \in 0 .. WordBits] ==
            IF n = 0 THEN 0
            ELSE low[n - 1] + 2^(n - 1) * (IF 1 \in {Bit(x, n - 1), Bit(y, n - 1)}
                                           THEN 1 ELSE 0)
    IN  low[WordBits]

\* Faulty variant: the quotient rounded down.
CoefficientsRoundedDown(l) == (8 * EleSize) \div l

CoefficientsPerElement(l) == (8 * EleSize + l - 1) \div l

ElementsPerPtxt(l) == Slots \div CoefficientsPerElement(l)

SizeOut == ElementsPerPtxt(limit) * EleSize

\* Faulty variant: the room that is left is not looked at.
ShiftOfAll(free, bits) == bits

ShiftOf(free, bits) == Smaller(free, bits)

Init ==
    /\ limit \in Limits
    /\ \E count \in 1 .. ElementsPerPtxt(limit) : ads \in [1 .. count -> Contents]
    /\ coeffs = [s \in 0 .. Slots - 1 |-> 0]
    /\ output = [b \in 0 .. SizeOut - 1 |-> 0]
    /\ ad = 1
    /\ i = 0
    /\ target = 0
    /\ src = 0
    /\ rest = 0
    /\ room = limit
    /\ bitsLeft = 8 * EleSize
    /\ pc = "pack"

\* The slot of a coefficient of the ad being packed.
Slot(t) == CoefficientsPerElement(limit) * (ad - 1) + t

PackByte ==
    /\ pc = "pack"
    /\ rest = 0
    /\ i < EleSize
    /\ src' = ads[ad][i + 1]
    /\ rest' = 8
    /\ i' = i + 1
    /\ UNCHANGED <<limit, ads, coeffs, output, ad, target, room, bitsLeft, pc>>

\* A full coefficient is left for the next one, which then takes as many of the
\* byte's bits as it has room for.
PackBits ==
    /\ pc = "pack"
    /\ rest > 0
    /\ LET free  == IF room = 0 THEN limit ELSE room
           shift == ShiftOf(free, rest)
       IN  /\ target' = IF room = 0 THEN target + 1 ELSE target
           /\ coeffs' = [coeffs EXCEPT ![Slot(target')] =
                            BitOr(@ * 2^shift, src \div 2^(8 - shift))]
           /\ src' = (src * 2^shift) % 256
           /\ room' = free - shift
           /\ rest' = rest - shift
    /\ UNCHANGED <<limit, ads, output, ad, i, bitsLeft, pc>>

\* The last coefficient of an ad is filled up with zeros.
PackEnd ==
    /\ pc = "pack"
    /\ rest = 0
    /\ i = EleSize
    /\ LET filled == [coeffs EXCEPT ![Slot(target)] = @ * 2^room]
           used   == CoefficientsPerElement(limit) * ElementsPerPtxt(limit)
       IN  IF ad < Len(ads)
           THEN /\ coeffs' = filled
                /\ ad' = ad + 1
                /\ room' = limit
                /\ UNCHANGED pc
           ELSE /\ coeffs' = [s \in 0 .. Slots - 1 |-> IF s < used THEN filled[s] ELSE 1]
                /\ room' = 8
                /\ pc' = "unpack"
                /\ UNCHANGED ad
    /\ i' = 0
    /\ target' = 0
    /\ UNCHANGED <<limit, ads, output, src, rest, bitsLeft>>

\* Faulty variant: the filling of an ad's last coefficient taken for data.
BitsUsedWhole(left) == limit

BitsUsed(left) == Smaller(limit, left)

\* The last coefficient of an ad holds only the bits that are left of it.
UnpackCoeff ==
    /\ pc = "unpack"
    /\ rest = 0 \/ target >= SizeOut
    /\ i < Slots
    /\ bitsLeft' = IF bitsLeft = 0 THEN 8 * EleSize ELSE bitsLeft
    /\ src' = coeffs[i]
    /\ rest' = BitsUsed(bitsLeft')
    /\ i' = i + 1
    /\ UNCHANGED <<limit, ads, coeffs, output, ad, target, room, pc>>

\* src has 64 bits, and the bits already taken stay in it above the limit: what
\* they add to the byte is shifted out of it again.
UnpackBits ==
    /\ pc = "unpack"
    /\ rest > 0
    /\ target < SizeOut
    /\ LET shift == ShiftOf(room, rest) IN
           /\ output' = [output EXCEPT ![target] =
                            BitOr((@ * 2^shift) % 256, src \div 2^(limit - shift)) % 256]
           /\ src' = src * 2^shift
           /\ target' = IF room = shift THEN target + 1 ELSE target
           /\ room' = IF room = shift THEN 8 ELSE room - shift
           /\ rest' = rest - shift
           /\ bitsLeft' = bitsLeft - shift
    /\ UNCHANGED <<limit, ads, coeffs, ad, i, pc>>

Next == PackByte \/ PackBits \/ PackEnd \/ UnpackCoeff \/ UnpackBits

Spec == Init /\ [][Next]_vars

-----------------------------------------------------------------------------
TypeOK ==
    /\ limit \in Limits
    /\ ads \in Seq(Contents)
    /\ coeffs \in [0 .. Slots - 1 -> Nat]
    /\ output \in [0 .. SizeOut - 1 -> 0 .. 255]
    /\ ad \in 1 .. Len(ads)
    /\ i \in 0 .. (IF pc = "pack" THEN EleSize ELSE Slots)
    /\ target \in 0 .. (IF pc = "pack" THEN Slots - 1 ELSE SizeOut)
    /\ src \in Nat
    /\ rest \in 0 .. (IF pc = "pack" THEN 8 ELSE limit)
    /\ room \in 0 .. (IF pc = "pack" THEN limit ELSE 8)
    /\ bitsLeft \in 0 .. 8 * EleSize
    /\ pc \in {"pack", "unpack"}
    /\ pc = "pack" => Slot(target) \in 0 .. Slots - 1

\* pir.hpp:62 and pir.cpp:43: no coefficient reaches the plain modulus, which
\* has one bit more than the limit; and an ad is packed into its own
\* coefficients, none of which is the next ad's.
CoefficientsFit ==
    /\ \A s \in 0 .. Slots - 1 : coeffs[s] < 2^limit
    /\ pc = "pack" => target < CoefficientsPerElement(limit)

\* extract_bytes gives back every ad at its offset, whatever the number of bits
\* of a coefficient, whether bytes straddle coefficients or coefficients bytes;
\* an offset where no ad was put reads zeros.
AdsReadBack ==
    pc = "unpack" /\ i = Slots /\ (rest = 0 \/ target >= SizeOut) =>
        \A offset \in 0 .. ElementsPerPtxt(limit) - 1, b \in 0 .. EleSize - 1 :
            output[offset * EleSize + b] =
                IF offset < Len(ads) THEN ads[offset + 1][b + 1] ELSE 0

=============================================================================
