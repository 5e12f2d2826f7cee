--------------------------- MODULE Groth16Verifier ---------------------------
(***************************************************************************)
(* Checking an erasure proof on chain: the export of keys, proofs and      *)
(* inputs (chronos-snark/src/solidity.rs) and the contract that reads them *)
(* (contracts/Groth16Verifier.sol).                                        *)
(*                                                                         *)
(* Both groups are the multiples 0 .. R - 1 of a generator, zero being the *)
(* point at infinity, with the coordinates the tables give them; a pairing *)
(* of a and b is a * b.  A word has two digits instead of 32 bytes.        *)
(***************************************************************************)
EXTENDS Integers, Sequences

CONSTANTS
    Q,                      \* FIELD_MODULUS, of coordinates
    R,                      \* SCALAR_FIELD, of inputs
    Digit,                  \* the base of a word's digits
    G1,                     \* coordinates of the points of the first group
    G2,                     \* and of the second, [x, y] of [c0, c1]
    PUBLIC_INPUT_COUNT

Coordinates == [c0 : 0 .. Q - 1, c1 : 0 .. Q - 1]

\* The points of a group have coordinates of their own, none of them those that stand
\* for infinity.  The first group is on a curve, where a point's inverse has the
\* opposite y.  A word holds coordinates that are not canonical.
ASSUME CurveAssumption ==
    /\ {Q, R, Digit} \subseteq Nat \ {0} /\ PUBLIC_INPUT_COUNT \in Nat
    /\ R < Q /\ Q < Digit * Digit
    /\ G1 \in [1 .. R - 1 -> (0 .. Q - 1) \X (0 .. Q - 1)]
    /\ G2 \in [1 .. R - 1 -> [x : Coordinates, y : Coordinates]]
    /\ \A k, l \in 1 .. R - 1 : G1[k] = G1[l] \/ G2[k] = G2[l] => k = l
    /\ \A k \in 1 .. R - 1 :
          /\ G1[k] # << 0, 0 >>
          /\ G2[k] # [x |-> [c0 |-> 0, c1 |-> 0], y |-> [c0 |-> 0, c1 |-> 0]]
          /\ G1[R - k] = << G1[k][1], Q - G1[k][2] >>

---------------------------------------------------------------------------
(* solidity.rs.                                                            *)

BigEndian(f) == << f \div Digit, f % Digit >>
EvmReads(bytes) == bytes[1] * Digit + bytes[2]

\* Mutant: the bytes as arkworks serialises them.
FqToWordNative(f) == LET bytes == BigEndian(f) IN EvmReads(<< bytes[2], bytes[1] >>)

\* fq_to_word and fq_scalar_to_word, as the number that the EVM reads.
FqToWord(f) == EvmReads(BigEndian(f))

G1ToWords(p) == << FqToWord(G1[p][1]), FqToWord(G1[p][2]) >>

G2ToWords(p) ==
    << << FqToWord(G2[p].x.c1), FqToWord(G2[p].x.c0) >>,
       << FqToWord(G2[p].y.c1), FqToWord(G2[p].y.c0) >> >>

\* Infinity has no coordinates: the export of a key or a proof with one fails.
KeyExportable(vk) ==
    /\ vk.ic # << >>
    /\ 0 \notin {vk.alpha, vk.beta, vk.gamma, vk.delta} \cup {vk.ic[i] : i \in 1 .. Len(vk.ic)}
ExportVerifyingKey(vk) ==
    [alpha |-> G1ToWords(vk.alpha), beta |-> G2ToWords(vk.beta),
     gamma |-> G2ToWords(vk.gamma), delta |-> G2ToWords(vk.delta),
     ic |-> [i \in DOMAIN vk.ic |-> G1ToWords(vk.ic[i])]]

ProofExportable(proof) == 0 \notin {proof.a, proof.b, proof.c}
ExportProof(proof) ==
    [a |-> G1ToWords(proof.a), b |-> G2ToWords(proof.b), c |-> G1ToWords(proof.c)]

ErasurePublicInputs(inputs) == [i \in DOMAIN inputs |-> FqToWord(inputs[i])]

---------------------------------------------------------------------------
(* The precompiles: they decode canonical coordinates of points of the     *)
(* group, with c1 first, and fail on anything else.                        *)

NotAPoint == -1
Decode(table, coordinates) ==
    IF \E k \in DOMAIN table : coordinates = table[k]
    THEN CHOOSE k \in DOMAIN table : coordinates = table[k]
    ELSE NotAPoint
DecodeG1(p) == IF p = << 0, 0 >> THEN 0 ELSE Decode(G1, p)
DecodeG2(p) ==
    IF p = << << 0, 0 >>, << 0, 0 >> >> THEN 0
    ELSE Decode(G2, [x |-> [c1 |-> p[1][1], c0 |-> p[1][2]], y |-> [c1 |-> p[2][1], c0 |-> p[2][2]]])

Infinity == << 0, 0 >>
Failed == << NotAPoint, NotAPoint >>
EncodeG1(k) == IF k = 0 THEN Infinity ELSE G1[k]

---------------------------------------------------------------------------
(* Groth16Verifier.sol.  A precompile that fails reverts the call: Failed  *)
(* decodes to no point, so that it ends in a failing pairing.              *)

Negate(p) == IF p = Infinity THEN Infinity ELSE << p[1], Q - (p[2] % Q) >>

Addition(p1, p2) ==
    IF NotAPoint \in {DecodeG1(p1), DecodeG1(p2)} THEN Failed
    ELSE EncodeG1((DecodeG1(p1) + DecodeG1(p2)) % R)

ScalarMul(p, s) ==
    IF DecodeG1(p) = NotAPoint THEN Failed ELSE EncodeG1((DecodeG1(p) * s) % R)

\* pairingCheck4: the pairs, and whether their product is one.
PairingCheck4(pairs) ==
    LET pairing(i) == DecodeG1(pairs[i][1]) * DecodeG2(pairs[i][2])
    IN  /\ \A i \in 1 .. 4 :
               DecodeG1(pairs[i][1]) # NotAPoint /\ DecodeG2(pairs[i][2]) # NotAPoint
        /\ (pairing(1) + pairing(2) + pairing(3) + pairing(4)) % R = 0

\* The constructor's requirement.
Constructible(key) == Len(key.ic) = PUBLIC_INPUT_COUNT + 1

InScalarField(input) == \A i \in 1 .. PUBLIC_INPUT_COUNT : input[i] < R

\* vk_x = IC[0] + sum_i input[i] * IC[i + 1]
VkX(key, input) ==
    LET sum[i \in 0 .. PUBLIC_INPUT_COUNT] ==
            IF i = 0 THEN key.ic[1]
            ELSE Addition(sum[i - 1], ScalarMul(key.ic[i + 1], input[i]))
    IN  sum[PUBLIC_INPUT_COUNT]

\* e(-A, B) * e(alpha, beta) * e(vk_x, gamma) * e(C, delta)
Pairs(key, proof, input) ==
    << << Negate(proof.a), proof.b >>, << key.alpha, key.beta >>,
       << VkX(key, input), key.gamma >>, << proof.c, key.delta >> >>

\* Mutant: inputs are not held against the order of the group.
VerifyWordsAnyInput(key, proof, input) == PairingCheck4(Pairs(key, proof, input))

\* verifyProof returns true, instead of false or not at all.
VerifyWords(key, proof, input) ==
    InScalarField(input) /\ PairingCheck4(Pairs(key, proof, input))

---------------------------------------------------------------------------
(* The equation that ark-groth16 checks, in the scalar field.              *)

PreparedInputs(vk, inputs) ==
    LET sum[i \in 0 .. Len(inputs)] ==
            IF i = 0 THEN vk.ic[1] ELSE sum[i - 1] + vk.ic[i + 1] * inputs[i]
    IN  sum[Len(inputs)]

NativeVerify(vk, proof, inputs) ==
    (proof.a * proof.b) % R
        = (vk.alpha * vk.beta + PreparedInputs(vk, inputs) * vk.gamma + proof.c * vk.delta) % R
==============================================================================
