--------------------------- MODULE MissionInputs ---------------------------
(***************************************************************************)
(* The first steps of a mission (chronos-agent/src/main.rs,                *)
(* run_mission_inner, 1 and 2): the sealed key, the salt, the modulus      *)
(* (chronos-core/src/mpc.rs) and the FHE keys, while clients already send  *)
(* requests to the FHE engine.                                             *)
(***************************************************************************)
EXTENDS Beacon, FheEngine

VARIABLES
    live,           \* network.fetch_live_beacon
    stage,          \* "key", "salt", "modulus", "fhe", "ready" or "failed"
    cert            \* the modulus: none, or << n >>
inputVars == << live, stage, cert >>

\* The salt of the file, which no beacon has.
FileSalt == -2

\* What validate_modulus looks at: the width, and small factors.
Modulus == [bits : {"narrow", "exact", "wide"}, smooth : BOOLEAN, shared : {FALSE}]
RSA_2048 == [bits |-> "exact", smooth |-> FALSE, shared |-> TRUE]
ValidateModulus(n) == n.bits = "exact" /\ ~n.smooth

InputsInit ==
    /\ BeaconInit /\ FheInit
    /\ live \in BOOLEAN
    /\ stage = "key"
    /\ cert = None

\* load_ct_sk: refused if it is not a file of the owner alone, or no whole words.
LoadCtSk ==
    /\ stage = "key"
    /\ stage' \in {"salt", "failed"}
    /\ UNCHANGED << beaconVars, fheVars, live, cert >>

\* Mutant: without a beacon, the salt of the file.
FetchSaltFallsBack ==
    /\ stage = "salt" /\ live
    /\ \/ at # "loop" /\ BeaconNext
       \/ at = "loop" /\ attempt < MAX_RETRIES /\ BeaconNext
       \/ /\ at = "loop" /\ attempt = MAX_RETRIES
          /\ at' = "salted" /\ salt' = << FileSalt >>
          /\ UNCHANGED << attempt, last_err, beacon >>
    /\ stage' = CASE at' = "salted" -> "modulus"
                  [] at' = "failed" -> "failed"
                  [] OTHER -> stage
    /\ UNCHANGED << fheVars, live, cert >>

\* The live beacon: the drand client's steps, whose failure is the mission's.
FetchSalt ==
    /\ stage = "salt" /\ live
    /\ BeaconNext
    /\ stage' = CASE at' = "salted" -> "modulus"
                  [] at' = "failed" -> "failed"
                  [] OTHER -> stage
    /\ UNCHANGED << fheVars, live, cert >>

\* read_secret_file, under the same conditions as the key.
ReadSaltFile ==
    /\ stage = "salt" /\ ~live
    /\ \/ salt' = << FileSalt >> /\ stage' = "modulus"
       \/ stage' = "failed" /\ UNCHANGED salt
    /\ UNCHANGED << attempt, at, last_err, beacon, fheVars, live, cert >>

\* MpcCertificate::load: an empty file is an error, one that cannot be read at all
\* gives way to the published modulus; whichever it is must be valid.
LoadModulus ==
    /\ stage = "modulus"
    /\ \/ stage' = "failed" /\ UNCHANGED cert
       \/ \E n \in Modulus \cup {RSA_2048} :
              IF ValidateModulus(n) THEN cert' = << n >> /\ stage' = "fhe"
              ELSE stage' = "failed" /\ UNCHANGED cert
    /\ UNCHANGED << beaconVars, fheVars, live >>

\* generate_and_install_keys on a thread for blocking work, or its failure.
InstallKeys ==
    /\ stage = "fhe"
    /\ \/ GenerateKeys("blocking") /\ stage' = "ready"
       \/ stage' = "failed" /\ UNCHANGED fheVars
    /\ UNCHANGED << beaconVars, live, cert >>

\* A client's /infer, admitted by the monitor, on a thread that serves requests.
InferHandler(ct) ==
    /\ EvaluateCiphertext("worker", ct)
    /\ UNCHANGED << beaconVars, inputVars >>

MissionStep == LoadCtSk \/ FetchSalt \/ ReadSaltFile \/ LoadModulus \/ InstallKeys
InputsNext == MissionStep \/ \E ct \in Request : InferHandler(ct)

InputsSpec == InputsInit /\ [][InputsNext]_<< beaconVars, inputVars, fheVars >>

\* The runtime goes on with a task that can; a request has a timeout.
InputsFairness == WF_<< beaconVars, inputVars, fheVars >>(MissionStep)

---------------------------------------------------------------------------
(* Properties.                                                             *)

\* The salt comes from where the configuration says: with a live beacon it is the
\* digest of the group's own signature on the round that the response names,
\* whatever the endpoint answered before, and a beacon that cannot be had never
\* gives way to the file.
SaltIsGenuine ==
    salt # None =>
        IF live THEN beacon # None /\ salt[1] = beacon[1].round ELSE salt[1] = FileSalt

\* A mission is not left waiting for its inputs: it gets them, or fails and erases.
InputsEnd == (stage = "key") ~> (stage \in {"ready", "failed"})
=============================================================================
