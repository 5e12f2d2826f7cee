------------------------------- MODULE OnChain -------------------------------
(***************************************************************************)
(* The registry with the verifier it is deployed over: transactions carry  *)
(* words, and what the registry takes for proved is what the verifier's    *)
(* arithmetic accepts.  It implements Registry, where the verifier is      *)
(* ideal.                                                                  *)
(***************************************************************************)
EXTENDS Registry, Groth16Verifier

CONSTANTS
    VerifyingKey,       \* keys of setups, one of which is deployed
    Proof,              \* proofs that the provers of the Provable inputs make
    Calldata            \* what is sent as a proof

\* Points are those of the groups, and what was proved has canonical words.
ASSUME OnChainAssumption ==
    /\ VerifyingKey \subseteq [alpha : 0 .. R - 1, beta : 0 .. R - 1, gamma : 0 .. R - 1,
                              delta : 0 .. R - 1, ic : Seq(0 .. R - 1)]
    /\ Proof \subseteq [a : 0 .. R - 1, b : 0 .. R - 1, c : 0 .. R - 1]
    /\ Input \subseteq [1 .. PUBLIC_INPUT_COUNT -> Nat]
    /\ Provable \subseteq [1 .. PUBLIC_INPUT_COUNT -> 0 .. R - 1]
    /\ Calldata \subseteq [a : Nat \X Nat, b : (Nat \X Nat) \X (Nat \X Nat), c : Nat \X Nat]

VARIABLE deployed       \* the key exported to the verifier: none, or << vk >>

OnChainInit == Init /\ deployed = << >>

\* The points that calldata is read as.  A is negated first, which reduces its y.
Opposite(k) == IF k = 0 THEN 0 ELSE R - k
Readable(words) == NotAPoint \notin {DecodeG1(Negate(words.a)), DecodeG2(words.b), DecodeG1(words.c)}
PointsOf(words) ==
    [a |-> Opposite(DecodeG1(Negate(words.a))), b |-> DecodeG2(words.b), c |-> DecodeG1(words.c)]

\* Groth16 is sound: nobody has points that prove other inputs to ark-groth16.
Deployable(vk) == KeyExportable(vk) /\ Constructible(ExportVerifyingKey(vk))
ASSUME SoundnessAssumption ==
    \A vk \in VerifyingKey, words \in Calldata, input \in Input :
        Deployable(vk) /\ Readable(words) /\ InScalarField(input)
        /\ NativeVerify(vk, PointsOf(words), input)
        => input \in Provable

\* export_verifying_key, then the constructors.
Deploy(vk) ==
    /\ deployed = << >>
    /\ Deployable(vk)
    /\ deployed' = << vk >>
    /\ UNCHANGED vars

Accepts(proof, input) == VerifyWords(ExportVerifyingKey(deployed[1]), proof, input)

\* Mutant: a mission may be attested again.
AttestAgain(m, sender, input, proof, now) ==
    /\ deployed # << >>
    /\ m # Zero
    /\ Accepts(proof, input)
    /\ Record(m, sender, input, now)
    /\ UNCHANGED deployed

\* attestErasure.
Attest(m, sender, input, proof, now) ==
    /\ deployed # << >>
    /\ m # Zero
    /\ attestations[m].attestedAt = 0
    /\ Accepts(proof, input)
    /\ Record(m, sender, input, now)
    /\ UNCHANGED deployed

OnChainNext ==
    \/ \E vk \in VerifyingKey : Deploy(vk)
    \/ \E m \in MissionId \cup {Zero}, sender \in Sender, input \in Input,
          proof \in Calldata, now \in Time : Attest(m, sender, input, proof, now)

OnChainSpec == OnChainInit /\ [][OnChainNext]_<< vars, deployed >>

---------------------------------------------------------------------------
(* Properties.                                                             *)

\* The deployed contracts implement the registry that has an ideal verifier: no
\* calldata puts inputs on record other than those that were proved, and two
\* words for one field element are not two inputs.
ImplementsRegistry == Spec

\* What verifies against a deployed key where it was made verifies on chain, for
\* every proof and input: keys, proofs and inputs survive the export.
HonestProofIsAccepted ==
    deployed # << >> =>
        \A inputs \in Provable, proof \in Proof :
            NativeVerify(deployed[1], proof, inputs) /\ ProofExportable(proof)
            => Accepts(ExportProof(proof), ErasurePublicInputs(inputs))
==============================================================================
