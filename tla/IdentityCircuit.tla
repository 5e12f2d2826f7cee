--------------------------- MODULE IdentityCircuit ---------------------------
(***************************************************************************)
(* The identity root and the proof of knowing what is behind it            *)
(* (chronos-snark/src/identity_circuit.rs).  Bytes are packed into limbs   *)
(* as chronos-snark/src/poseidon.rs packs them; the hash over the limbs is *)
(* ideal.                                                                  *)
(***************************************************************************)
EXTENDS Integers, Sequences

CONSTANTS
    BYTES_PER_LIMB,
    Y_BYTES             \* the width of a VDF output in the circuit

ASSUME CircuitAssumption == BYTES_PER_LIMB \in Nat \ {0} /\ Y_BYTES \in Nat

\* pack_bytes: the last limb is filled up with zeros.
PackBytes(bytes) ==
    [limb \in 1 .. (Len(bytes) + BYTES_PER_LIMB - 1) \div BYTES_PER_LIMB |->
        [i \in 1 .. BYTES_PER_LIMB |->
            LET at == (limb - 1) * BYTES_PER_LIMB + i
            IN  IF at <= Len(bytes) THEN bytes[at] ELSE 0]]

\* Mutant: the length of y is left out.
IdentityRootNoLength(y, mission_digest) ==
    << "IdentityRoot", 0, PackBytes(y) \o PackBytes(mission_digest) >>

IdentityRoot(y, mission_digest) ==
    << "IdentityRoot", Len(y), PackBytes(y) \o PackBytes(mission_digest) >>

\* IdentityCircuit: the root is the hash of the witness, whose length is fixed.
SatisfiesCircuit(witness, root) ==
    /\ Len(witness.y) = Y_BYTES
    /\ root = IdentityRoot(witness.y, witness.mission_digest)

\* prove_identity, for a y that has the width, and verify_identity.
ProveIdentity(key, y, mission_digest) ==
    [key |-> key, witness |-> [y |-> y, mission_digest |-> mission_digest]]
VerifyIdentity(key, proof, root) == proof.key = key /\ SatisfiesCircuit(proof.witness, root)
==============================================================================
