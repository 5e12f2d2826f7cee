---------------------------- MODULE Provisioning ----------------------------
(***************************************************************************)
(* From the provisioner to the attestation: chronos-provision writes the   *)
(* mission's files one after the other, and the agent reads them back, the *)
(* artifact when it starts and the others when the mission is initiated.   *)
(* It opens the sealed key, loads the proving key or sets one up, and      *)
(* publishes a proof that it has not verified itself.  The provisioner may *)
(* be run again, over the same directory and at any moment, and both may   *)
(* die anywhere.                                                           *)
(*                                                                         *)
(* A VDF output stands for its modulus and steps; the rest of the          *)
(* cryptography is ErasureProof's.                                         *)
(***************************************************************************)
EXTENDS Naturals, Sequences, ErasureProof

CONSTANTS
    CreateMode,     \* mode of a file the provisioner creates: 0666 less the umask
    Steps,          \* values of --t-vdf-steps
    MaxRuns,        \* bound of the model on the provisioning runs
    MaxSetups       \* bound of the model on the trusted setups

ASSUME ProvisioningAssumption ==
    /\ CreateMode \in {"0600", "0644"}
    /\ MaxRuns \in Nat \ {0}
    /\ MaxSetups \in Nat \ {0}

VARIABLES
    runs,       \* history: the provisioning runs begun, as the values they chose
    todo,       \* what the provisioner has left to do to the files
    shipped,    \* the run that completed last, 0 once another has begun
    disk,       \* the files of the mission directory
    agent,      \* the agent process, and what it has read
    proving_key,\* the agent's proving key file
    setups,     \* history: the trusted setups that got as far as the file
    published   \* history: the verifying keys that attestations came with
vars == << runs, todo, shipped, disk, agent, proving_key, setups, published >>
keys == << proving_key, setups, published >>

File == {"mission", "ct", "cert", "salt", "grants"}

\* A file is known by the run that wrote it, 0 while it is empty.
Absent == [run |-> 0, mode |-> "none"]

\* A modulus, by what validate_modulus looks at: its width next to MODULUS_BITS,
\* and whether a prime of the sieve divides it.  The published one is number 0.
RSA_2048 == [id |-> 0, bits |-> "exact", smooth |-> FALSE]

\* generate_modulus: two primes of 1024 bits, whose product may be a bit short.
Generated(id) == [id : {id}, bits : {"narrow", "exact"}, smooth : {FALSE}]

\* --modulus: whatever has 2048 bits at least.  (A wide one whose output is wider
\* than Y_BYTES ends the provisioner before it has written anything.)
Given(id) == {RSA_2048} \cup [id : {id}, bits : {"exact", "wide"}, smooth : BOOLEAN]

Beacon == << "beacon" >>

\* The VDF output for a modulus and a number of steps.
Y(n, t) == << "y", n, t >>

\* What run number id puts into each file.  The key and the correction chain are
\* its own; the modulus and the salt may have been given to it.
Sealed(id) == Encrypt(DeriveKey(Y(runs[id].n, runs[id].t), runs[id].salt), << "sk", id >>)
Artifact(id) ==
    [mission_id     |-> id, t |-> runs[id].t, anchor |-> << "chain", id >>,
     y_commit       |-> Hash("VdfOutput", Y(runs[id].n, runs[id].t)),
     ct_commit      |-> Hash("Ciphertext", Sealed(id)),
     sk_commit      |-> Hash("SecretKey", << "sk", id >>),
     mission_commit |-> Hash("MissionId", id)]
Contents(id) ==
    [mission |-> Artifact(id), ct |-> Sealed(id), cert |-> runs[id].n,
     salt |-> runs[id].salt, grants |-> << "chain", id >>]

\* MissionPublic::to_public_inputs.
ToPublicInputs(artifact, containment_commit) ==
    [y_commit           |-> artifact.y_commit,
     ct_commit          |-> artifact.ct_commit,
     sk_commit          |-> artifact.sk_commit,
     mission_commit     |-> artifact.mission_commit,
     containment_commit |-> containment_commit]

Down == [at |-> "down"]

\* The proving key file: missing, truncated or partly written, and whole.
NoKey == [exists |-> FALSE, setup |-> 0]
TornKey == [exists |-> TRUE, setup |-> 0]
WholeKey(k) == [exists |-> TRUE, setup |-> k]

Init ==
    /\ runs = << >>
    /\ todo = << >> /\ shipped = 0
    /\ disk = [f \in File |-> Absent]
    /\ agent = Down
    /\ proving_key = NoKey /\ setups = 0 /\ published = {}

---------------------------------------------------------------------------
(* The provisioner.                                                        *)

\* Mutant: the sealed key is not restricted.
OutputsUnrestricted(id) ==
    [i \in 1 .. 11 |-> IF i = 11 THEN [do |-> "chmod", file |-> "grants"]
     ELSE [do |-> IF i % 2 = 1 THEN "truncate" ELSE "write", run |-> id,
           file |-> << "mission", "ct", "cert", "salt", "grants" >>[(i + 1) \div 2]]]

\* Section 6 of main: five fs::write calls, each of which truncates the file and
\* then fills it, and the two restrict_permissions.
Outputs(id) ==
    [i \in 1 .. 12 |->
        IF i > 10 THEN [do |-> "chmod", file |-> << "ct", "grants" >>[i - 10]]
        ELSE [do |-> IF i % 2 = 1 THEN "truncate" ELSE "write", run |-> id,
              file |-> << "mission", "ct", "cert", "salt", "grants" >>[(i + 1) \div 2]]]

\* Sections 1 to 5: everything is computed and checked before the first write.
Provision(n, salt, t) ==
    LET id == Len(runs) + 1
    IN  /\ todo = << >>
        /\ id <= MaxRuns
        /\ runs' = Append(runs, [n |-> n, salt |-> salt, t |-> t])
        /\ todo' = Outputs(id)
        /\ shipped' = 0
        /\ UNCHANGED << disk, agent, keys >>

\* fs::write keeps the mode of a file that is already there.
Write(f, run) ==
    disk' = [disk EXCEPT ![f] = [run |-> run, mode |-> IF @ = Absent THEN CreateMode ELSE @.mode]]

\* The next output; with the last one the run is complete.
WriteOutput ==
    /\ todo # << >>
    /\ LET op == Head(todo)
       IN  \/ op.do = "truncate" /\ Write(op.file, 0)
           \/ op.do = "write" /\ Write(op.file, op.run)
           \/ op.do = "chmod" /\ disk' = [disk EXCEPT ![op.file].mode = "0600"]
    /\ todo' = Tail(todo)
    /\ shipped' = IF todo' = << >> THEN Len(runs) ELSE 0
    /\ UNCHANGED << runs, agent, keys >>

\* The process dies, or one of the writes fails: there is no cleaning up.
Crash ==
    /\ todo # << >>
    /\ todo' = << >>
    /\ UNCHANGED << runs, shipped, disk, agent, keys >>

\* Somebody does what read_secret_file's error message says.
Chmod600(f) ==
    /\ disk[f] # Absent
    /\ disk' = [disk EXCEPT ![f].mode = "0600"]
    /\ UNCHANGED << runs, todo, shipped, agent, keys >>

\* What the provisioner wrote loses a file on its way to the agent.  The modulus is
\* the one with a fallback; without any other the agent stops or erases.
Remove(f) ==
    /\ todo = << >>
    /\ disk' = [disk EXCEPT ![f] = Absent]
    /\ shipped' = 0
    /\ UNCHANGED << runs, todo, agent, keys >>

---------------------------------------------------------------------------
(* The agent.                                                              *)

mission_files == << runs, todo, shipped, disk >>
world == << mission_files, keys >>

\* What is read from a file that is there.
Read(f) == IF disk[f].run = 0 THEN Empty ELSE Contents(disk[f].run)[f]

\* main: MissionPublic::load, without a fallback.
Start ==
    /\ agent.at = "down"
    /\ agent' = IF disk["mission"].run # 0 THEN [at |-> "ct", mission |-> Read("mission")]
                ELSE Down
    /\ UNCHANGED world

\* run_mission: any failure erases.
Erased == [at |-> "erased"]

\* The process ends: it is stopped or killed, or the deadline has cut the mission
\* short.  Another may be started.
AgentEnds ==
    /\ agent.at # "down"
    /\ agent' = Down
    /\ UNCHANGED world

\* read_secret_file: the mode is exactly 0600, and there is something to read.
ReadSecretFile(f) == disk[f] # Absent /\ disk[f].mode = "0600"

\* The agent goes on, with one thing more.
Advance(stage, name, value) ==
    [x \in DOMAIN agent \cup {name} |->
        CASE x = "at" -> stage [] x = name -> value [] OTHER -> agent[x]]

\* load_ct_sk; an empty file is not a ciphertext.
LoadCt ==
    /\ agent.at = "ct"
    /\ agent' = IF ReadSecretFile("ct") /\ disk["ct"].run # 0
                THEN Advance("salt", "ct", Read("ct"))
                ELSE Erased
    /\ UNCHANGED world

\* The provisioned salt, with no check of its length.
LoadSalt ==
    /\ agent.at = "salt"
    /\ agent' = IF ReadSecretFile("salt")
                THEN Advance("cert", "salt", Read("salt"))
                ELSE Erased
    /\ UNCHANGED world

\* MpcCertificate::load: a missing file falls back to the published modulus, an
\* empty one is an error, and whichever modulus it is must be valid.
Certificate == IF disk["cert"] = Absent THEN RSA_2048 ELSE Read("cert")

ValidateModulus(n) == n.bits = "exact" /\ ~n.smooth

LoadCert ==
    /\ agent.at = "cert"
    /\ agent' = IF Certificate # Empty /\ ValidateModulus(Certificate)
                THEN Advance("open", "n", Certificate)
                ELSE Erased
    /\ UNCHANGED world

\* The key that this process derives once the VDF has been evaluated.
DerivedKey(a) == DeriveKey(Y(a.n, a.mission.t), a.salt)

\* Mutant: whatever opens is taken.
OpensAnything(a) == Authenticates(DerivedKey(a), a.ct)

\* The ciphertext is opened, and the key that comes out is compared with the
\* artifact's commitment.
Opens(a) ==
    /\ Authenticates(DerivedKey(a), a.ct)
    /\ Hash("SecretKey", Decrypt(DerivedKey(a), a.ct)) = a.mission.sk_commit

Open ==
    /\ agent.at = "open"
    /\ agent' = IF Opens(agent) THEN [agent EXCEPT !.at = "opened"] ELSE Erased
    /\ UNCHANGED world

\* Mutant: a setup per mission.
LoadProverAnew ==
    /\ agent.at = "opened"
    /\ agent' = [agent EXCEPT !.at = "setup"]
    /\ UNCHANGED world

\* load_or_create_prover: a file that exists must load.
LoadProver ==
    /\ agent.at = "opened"
    /\ agent' = CASE proving_key = NoKey   -> [agent EXCEPT !.at = "setup"]
                  [] proving_key = TornKey -> Erased
                  [] OTHER                 -> Advance("prove", "key", proving_key.setup)
    /\ UNCHANGED world

\* The single-party setup, and Groth16Prover::save, which truncates the file ...
SetUp ==
    /\ agent.at = "setup" /\ setups < MaxSetups
    /\ setups' = setups + 1
    /\ proving_key' = TornKey
    /\ agent' = [agent EXCEPT !.at = "saving"]
    /\ UNCHANGED << mission_files, published >>

\* ... and fills it.
SaveKey ==
    /\ agent.at = "saving"
    /\ proving_key' = WholeKey(setups)
    /\ agent' = Advance("prove", "key", setups)
    /\ UNCHANGED << mission_files, setups, published >>

\* The ErasureWitness that run_mission_inner assembles, once the monitor is erased.
Witness(a) ==
    [y |-> Y(a.n, a.mission.t), salt |-> a.salt, ct |-> a.ct,
     sk |-> Decrypt(DerivedKey(a), a.ct), mission_digest |-> a.mission.mission_id,
     containment |-> Terminal]

\* The proof is made from the witness, the public inputs from the artifact, and
\* the two are published together.
Prove ==
    /\ agent.at = "prove"
    /\ IF CheckShape(Witness(agent))
       THEN /\ agent' = [at |-> "attested", mission |-> agent.mission,
                         proof |-> ProveErasure(agent.key, Witness(agent)),
                         public_inputs |-> ToPublicInputs(agent.mission,
                                               Hash("ContainmentLedger", Terminal)),
                         verifying_key |-> agent.key]
            /\ published' = published \cup {agent.key}
       ELSE agent' = Erased /\ UNCHANGED published
    /\ UNCHANGED << mission_files, proving_key, setups >>

\* Somebody deletes a key file that does not load.
RemoveTornKey ==
    /\ agent.at # "saving" /\ proving_key = TornKey
    /\ proving_key' = NoKey
    /\ UNCHANGED << mission_files, agent, setups, published >>

Next ==
    \/ \E n \in Generated(Len(runs) + 1) \cup Given(Len(runs) + 1),
          salt \in {Beacon, << "salt", Len(runs) + 1 >>}, t \in Steps : Provision(n, salt, t)
    \/ WriteOutput \/ Crash
    \/ \E f \in {"ct", "salt"} : Chmod600(f)
    \/ \E f \in {"cert", "ct"} : Remove(f)
    \/ Start \/ AgentEnds \/ LoadCt \/ LoadSalt \/ LoadCert \/ Open
    \/ LoadProver \/ SetUp \/ SaveKey \/ Prove \/ RemoveTornKey

Spec == Init /\ [][Next]_vars

---------------------------------------------------------------------------
(* Properties.                                                             *)

\* The stages of the agent, in order.
Stage == << "ct", "salt", "cert", "open", "opened", "setup", "saving", "prove" >>
Past(i) == agent.at \in {Stage[j] : j \in i .. Len(Stage)}

\* What the agent publishes convinces a verifier who holds the mission's artifact,
\* although the agent never verifies it and compares nothing but the key: files
\* of different runs, half-written files and the fallback modulus are refused, or
\* amount to the same.
AttestationVerifies ==
    agent.at = "attested" =>
        /\ VerifyErasure(agent.verifying_key, agent.proof, agent.public_inputs)
        /\ DerivePublicInputs(agent.proof.witness) = agent.public_inputs

\* "Persistence is what makes third-party verification possible" (main.rs 660):
\* every attestation of this host verifies under one key, whatever dies while the
\* key is saved and whoever cleans up after it.
OneVerifyingKey == \A k1, k2 \in published : k1 = k2

\* What the agent has read so far is what is still on the disk.
UpToDate ==
    /\ Past(1) => agent.mission = Read("mission")
    /\ Past(2) => agent.ct = Read("ct")
    /\ Past(3) => agent.salt = Read("salt")
    /\ Past(4) => agent.n = Read("cert")

GivesUp == agent.at # "erased" /\ agent'.at = "erased"

\* All the files of a completed run, as far as the agent has read them, and no torn
\* proving key in the way.
Whole == shipped # 0 /\ UpToDate /\ proving_key # TornKey

\* A whole mission is not wasted: as long as the files stay as a completed run left
\* them, the agent does not give up, if somebody has restricted salt.bin, which the
\* provisioner does for ct_sk.bin only, and if the run's modulus is one that the
\* agent accepts, which the provisioner does not check.
WholeMissionOpens ==
    [][Whole /\ disk["salt"].mode = "0600" /\ ValidateModulus(runs[shipped].n) => ~GivesUp]_vars

\* "Force the top bit, so N reliably reaches 2*PRIME_BITS" (chronos-provision/src/
\* main.rs 375): the agent does not give up a whole and restricted mission with a
\* modulus that the provisioner generated.
GeneratedModulusOpens ==
    [][Whole /\ disk["salt"].mode = "0600" /\ runs[shipped].n \in Generated(shipped)
         => ~GivesUp]_vars

\* "Confirm the agent will be able to open it.  A provisioner that ships an
\* unopenable ciphertext wastes an entire mission" (chronos-provision/src/main.rs
\* 237-238): the files of a completed run, as it left them, are opened.
FreshMissionOpens == [][Whole => ~GivesUp]_vars
===========================================================================
