----------------------------- MODULE TrustedSetup -----------------------------
(***************************************************************************)
(* The two provers and their keys (chronos-snark/src/prover.rs and         *)
(* identity_circuit.rs): transcripts are collected at several desks, the   *)
(* provers are set up from any of them and again, and key files of         *)
(* different setups lie next to each other.                                *)
(*                                                                         *)
(* A key pair is known by the circuit and the seed it was made from.       *)
(***************************************************************************)
EXTENDS SetupTranscript, IdentityCircuit

CONSTANTS
    Desk,               \* where a transcript is being collected
    Contribution,       \* contributions, [contributor, entropy]
    MaxRecords,         \* bound of the model on a transcript
    Byte,               \* values of a byte
    MISSION_BYTES

ASSUME SetupAssumption == MISSION_BYTES \in Nat

VARIABLES
    transcripts,        \* the desks' SetupTranscripts
    prover,             \* Groth16Prover: none, or [pk, pvk, transcript_head]
    pk_file, vk_file,   \* the erasure keys written down: none, or << key >>
    identity,           \* IdentityProver: none, or << key >>
    id_proof            \* an identity proof that was made: none, or << proof >>
setupVars == << transcripts, prover, pk_file, vk_file, identity, id_proof >>

Unknown == << >>
Blank == [pk |-> Unknown, pvk |-> Unknown, transcript_head |-> Unknown]

SetupInit ==
    /\ transcripts = [d \in Desk |-> NewTranscript]
    /\ prover = Blank
    /\ pk_file = Unknown /\ vk_file = Unknown
    /\ identity = Unknown /\ id_proof = Unknown

Collect(d, c) ==
    /\ Len(transcripts[d].records) < MaxRecords
    /\ transcripts' = [transcripts EXCEPT ![d] = Contribute(@, c)]
    /\ UNCHANGED << prover, pk_file, vk_file, identity, id_proof >>

\* setup_with_transcript of either prover: the chain verifies and is not empty.
Usable(t) == VerifyChain(t) /\ t.records # << >>

SetUpErasure(d) ==
    /\ Usable(transcripts[d])
    /\ LET key == << "erasure", SetupRng(transcripts[d]) >>
       IN  prover' = [pk |-> << key >>, pvk |-> << key >>,
                      transcript_head |-> << transcripts[d].head >>]
    /\ UNCHANGED << transcripts, pk_file, vk_file, identity, id_proof >>

SetUpIdentity(d) ==
    /\ Usable(transcripts[d])
    /\ identity' = << << "identity", SetupRng(transcripts[d]) >> >>
    /\ UNCHANGED << transcripts, prover, pk_file, vk_file, id_proof >>

\* save; and verifying_key_bytes, published on its own.
Save ==
    /\ prover.pk # Unknown
    /\ pk_file' = prover.pk
    /\ UNCHANGED << transcripts, prover, vk_file, identity, id_proof >>
PublishVk ==
    /\ prover.pk # Unknown
    /\ vk_file' = prover.pk
    /\ UNCHANGED << transcripts, prover, pk_file, identity, id_proof >>

\* load: the key says nothing of the transcript.
Load ==
    /\ pk_file # Unknown
    /\ prover' = [pk |-> pk_file, pvk |-> pk_file, transcript_head |-> Unknown]
    /\ UNCHANGED << transcripts, pk_file, vk_file, identity, id_proof >>

\* load_ceremony_keys refuses files of different setups and takes the caller's word
\* for the head.
LoadCeremonyKeys(head) ==
    /\ pk_file # Unknown /\ vk_file # Unknown
    /\ pk_file = vk_file
    /\ prover' = [pk |-> pk_file, pvk |-> vk_file, transcript_head |-> << head >>]
    /\ UNCHANGED << transcripts, pk_file, vk_file, identity, id_proof >>

MakeIdentityProof(y, mission_digest) ==
    /\ identity # Unknown
    /\ Len(y) = Y_BYTES
    /\ id_proof' = << ProveIdentity(identity[1], y, mission_digest) >>
    /\ UNCHANGED << transcripts, prover, pk_file, vk_file, identity >>

Bytes(lengths) == UNION {[1 .. n -> Byte] : n \in lengths}

SetupNext ==
    \/ \E d \in Desk :
          \/ \E c \in Contribution : Collect(d, c)
          \/ SetUpErasure(d) \/ SetUpIdentity(d)
          \/ LoadCeremonyKeys(transcripts[d].head)
    \/ Save \/ PublishVk \/ Load
    \/ \E y \in Bytes({Y_BYTES}), m \in Bytes({MISSION_BYTES}) : MakeIdentityProof(y, m)

SetupSpec == SetupInit /\ [][SetupNext]_setupVars

-------------------------------------------------------------------------------
(* Properties.                                                             *)

\* The published head stands for the setup: transcripts with one head have one
\* seed, transcripts with different heads do not, in whatever order and however
\* often the same contributions came in; records verify against the head that they
\* were made with and no other; and a prover checks with the key it proves with,
\* whichever setups its files are from.
SetupIsAuditable ==
    /\ \A d, e \in DOMAIN transcripts :
          LET a == transcripts[d]
              b == transcripts[e]
          IN  /\ a.head = b.head <=> SetupRng(a) = SetupRng(b)
              /\ VerifyChain([a EXCEPT !.head = b.head]) <=> a = b
    /\ prover.pk = prover.pvk

\* An identity proof shows one VDF output and one mission: it verifies against
\* their root and against no root of other bytes, shorter ones with the same limbs
\* included, nor under the key of a later setup.
IdentityIsBound ==
    id_proof # Unknown /\ identity # Unknown =>
        \A y \in Bytes(0 .. Y_BYTES + 1), m \in Bytes({MISSION_BYTES}) :
            VerifyIdentity(identity[1], id_proof[1], IdentityRoot(y, m))
            <=> /\ id_proof[1].key = identity[1]
                /\ id_proof[1].witness = [y |-> y, mission_digest |-> m]
==============================================================================
