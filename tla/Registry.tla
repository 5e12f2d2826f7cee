------------------------------ MODULE Registry ------------------------------
(***************************************************************************)
(* The on-chain registry of erasure attestations                           *)
(* (contracts/ChronosRegistry.sol).  A transaction runs to its end or      *)
(* leaves nothing behind; anybody may send one, and send it again because  *)
(* the fate of the first is not known.                                     *)
(***************************************************************************)
EXTENDS Naturals, Sequences, FiniteSets

CONSTANTS
    MissionId,      \* mission identifiers other than bytes32(0)
    Sender,         \* addresses
    Input,          \* the five public inputs, as one value
    Provable,       \* the inputs for which the verifier accepts some proof
    Time            \* block timestamps

Zero == "bytes32(0)"

\* block.timestamp is never zero and far from 2^64, where uint64 would wrap it.
ASSUME RegistryAssumption ==
    /\ Zero \notin MissionId
    /\ Provable \subseteq Input
    /\ Time \subseteq Nat \ {0}

VARIABLES
    attestations,       \* _attestations
    attestationCount,
    log                 \* the ErasureAttested events emitted, oldest first
vars == << attestations, attestationCount, log >>

\* The zeroed struct that a mapping holds where nothing was stored.
Unset == [attestedAt |-> 0]
Attestation == [attestedAt : Time, attester : Sender, input : Input]

Init ==
    /\ attestations = [m \in MissionId |-> Unset]
    /\ attestationCount = 0
    /\ log = << >>

\* A proof is good for the inputs it was made for.  verifyProof is external.
VerifyProof(proof, input) == proof = input /\ input \in Provable

Record(m, sender, input, now) ==
    /\ attestations' = [attestations EXCEPT
           ![m] = [attestedAt |-> now, attester |-> sender, input |-> input]]
    /\ attestationCount' = attestationCount + 1
    /\ log' = Append(log, [missionId |-> m, attester |-> sender, attestedAt |-> now])

\* attestErasure of a transaction that does not revert.
AttestErasure(m, sender, input, proof, now) ==
    /\ m # Zero
    /\ attestations[m].attestedAt = 0
    /\ VerifyProof(proof, input)
    /\ Record(m, sender, input, now)

\* EmptyMissionId, AlreadyAttested or InvalidProof.
Revert(m, input, proof) ==
    /\ \/ m = Zero
       \/ m # Zero /\ attestations[m].attestedAt # 0
       \/ ~VerifyProof(proof, input)
    /\ UNCHANGED vars

Next ==
    \E m \in MissionId \cup {Zero}, sender \in Sender, input, proof \in Input, now \in Time :
        AttestErasure(m, sender, input, proof, now) \/ Revert(m, input, proof)

Spec == Init /\ [][Next]_vars

---------------------------------------------------------------------------
(* Properties.                                                             *)

Attested == {m \in MissionId : attestations[m].attestedAt # 0}

TypeOK ==
    /\ attestations \in [MissionId -> Attestation \cup {Unset}]
    /\ attestationCount \in Nat
    /\ log \in Seq([missionId : MissionId, attester : Sender, attestedAt : Time])

\* "One attestation per missionId": what is recorded for a mission is never
\* replaced, by nobody and by no later proof.
AttestationIsPermanent == [][\A m \in Attested : attestations'[m] = attestations[m]]_vars

\* What is on record was proved, and proved for exactly the inputs on record.
RecordsAreProved == \A m \in Attested : attestations[m].input \in Provable

\* attestationCount enumerates the records: sending a transaction again, or
\* several at once, neither loses nor double counts a mission.
CountIsExact == attestationCount = Cardinality(Attested)

\* The events enumerate the records too: an indexer that replays the log finds
\* every attested mission, once, and no other.
LogEnumeratesRecords ==
    /\ {log[i].missionId : i \in 1 .. Len(log)} = Attested
    /\ Len(log) = attestationCount
===========================================================================
