---------------------------- MODULE ErasureProof ----------------------------
(***************************************************************************)
(* The sealed key and the proof of its erasure (chronos-snark: aead.rs,    *)
(* circuit.rs and prover.rs).                                              *)
(*                                                                         *)
(* Cryptography is ideal.  A derived key and a commitment are what they    *)
(* were computed from; a ciphertext authenticates under the key it was     *)
(* made with and no other; a proof stands for the witness somebody knew    *)
(* when making it, and verifies under the key it was made with, for the    *)
(* public inputs that the witness satisfies.                               *)
(***************************************************************************)

\* ChronosAead: derive_key, encrypt, and decrypt, which authenticates first.
DeriveKey(y, salt) == << y, salt >>
Encrypt(key, plaintext) == [key |-> key, plaintext |-> plaintext]
Authenticates(key, ct) == ct.key = key
Decrypt(key, ct) == ct.plaintext

\* poseidon::hash under a domain tag.
Hash(domain, value) == << domain, value >>

\* PublicInputs::derive: the commitments a witness amounts to.
DerivePublicInputs(w) ==
    [y_commit           |-> Hash("VdfOutput", w.y),
     ct_commit          |-> Hash("Ciphertext", w.ct),
     sk_commit          |-> Hash("SecretKey", w.sk),
     mission_commit     |-> Hash("MissionId", w.mission_digest),
     containment_commit |-> Hash("ContainmentLedger", w.containment)]

\* What of a ContainmentSummary matters here: whether is_terminal holds.
Terminal == "terminal"

\* What a salt file that was never filled holds.
Empty == << >>

\* ErasureWitness::check_shape: the salt has its length, the summary is terminal,
\* and the ciphertext opens to this very key.  The other lengths and the wiped
\* buffer are constants in the caller.
CheckShape(w) ==
    /\ w.salt # Empty
    /\ w.containment = Terminal
    /\ Authenticates(DeriveKey(w.y, w.salt), w.ct)
    /\ Decrypt(DeriveKey(w.y, w.salt), w.ct) = w.sk

\* generate_constraints: 1-3 bind y, the derived key and the ciphertext, 4-5 make
\* it open to the committed key, 6-7 bind the mission and its terminal summary.
KnowsCommitted(w, inputs) ==
    /\ Hash("VdfOutput", w.y) = inputs.y_commit
    /\ Hash("Ciphertext", w.ct) = inputs.ct_commit

OpensToCommitted(w, inputs) ==
    /\ Authenticates(DeriveKey(w.y, w.salt), w.ct)
    /\ Decrypt(DeriveKey(w.y, w.salt), w.ct) = w.sk
    /\ Hash("SecretKey", w.sk) = inputs.sk_commit

RanContained(w, inputs) ==
    /\ Hash("MissionId", w.mission_digest) = inputs.mission_commit
    /\ Hash("ContainmentLedger", w.containment) = inputs.containment_commit
    /\ w.containment = Terminal

ErasureCircuit(w, inputs) ==
    KnowsCommitted(w, inputs) /\ OpensToCommitted(w, inputs) /\ RanContained(w, inputs)

\* Groth16Prover::prove_erasure, once check_shape has passed: the circuit's public
\* inputs are the ones the witness derives.
ProveErasure(key, w) == [key |-> key, witness |-> w]

\* Groth16Prover::verify_erasure, against inputs that come from somewhere else.
VerifyErasure(key, proof, inputs) ==
    proof.key = key /\ ErasureCircuit(proof.witness, inputs)
===========================================================================
