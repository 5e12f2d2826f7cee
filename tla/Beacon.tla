------------------------------- MODULE Beacon -------------------------------
(***************************************************************************)
(* The drand client (chronos-agent/src/drand_client.rs): the latest beacon *)
(* is fetched with retries, verified, and turned into the KDF salt.  The   *)
(* endpoint answers anything, late, or not at all.                         *)
(*                                                                         *)
(* A signature is known by the round the group signed, an ideal hash by    *)
(* what was hashed.                                                        *)
(***************************************************************************)
EXTENDS Integers, Sequences

CONSTANTS
    Round,          \* rounds, as positive numbers
    MAX_RETRIES     \* 3 in the code

ASSUME BeaconAssumption ==
    /\ Round \subseteq Nat \ {0}
    /\ MAX_RETRIES \in Nat \ {0}

VARIABLES
    attempt,    \* fetches begun
    at,         \* where fetch_latest_randomness is
    last_err,   \* why the last attempt failed
    beacon,     \* the response returned: none, or << response >>
    salt        \* the salt the mission is given: none, or << randomness >>
beaconVars == << attempt, at, last_err, beacon, salt >>

None == << >>

\* Well formed but not of the group, and not well formed: bad hex or bad length.
Forged == 0
Malformed == -1
Signature == Round \cup {Forged, Malformed}

\* Check 2 compares randomness with the digest of the signature: the digest of a
\* signature is written as the signature.
DrandResponse == [round : Round, signature : Signature, randomness : Signature]

BeaconInit ==
    /\ attempt = 0
    /\ at = "loop"
    /\ last_err = "no attempts made"
    /\ beacon = None
    /\ salt = None

\* verify_beacon.
VerifyBeacon(resp) ==
    /\ resp.signature # Malformed
    /\ resp.randomness # Malformed
    /\ resp.signature = resp.round
    /\ resp.randomness = resp.signature

\* The head of the loop: back off, then fetch_once.
Fetch ==
    /\ at = "loop" /\ attempt < MAX_RETRIES
    /\ attempt' = attempt + 1
    /\ at' = "fetching"
    /\ UNCHANGED << last_err, beacon, salt >>

\* The request fails or times out, or the answer is not the JSON expected.
FetchFails ==
    /\ at = "fetching"
    /\ at' = "loop"
    /\ last_err' = "network"
    /\ UNCHANGED << attempt, beacon, salt >>

\* The answer is verified inside fetch_once: what is wrong with it is one more
\* error of the attempt.
Answer(resp) ==
    /\ at = "fetching"
    /\ \/ /\ VerifyBeacon(resp)
          /\ at' = "fetched"
          /\ beacon' = << resp >>
          /\ UNCHANGED last_err
       \/ /\ ~VerifyBeacon(resp)
          /\ at' = "loop"
          /\ last_err' = "verification"
          /\ UNCHANGED beacon
    /\ UNCHANGED << attempt, salt >>

\* Mutant: the loop starts over.
ReturnErrStartsOver ==
    /\ at = "loop" /\ attempt = MAX_RETRIES
    /\ attempt' = 0
    /\ UNCHANGED << at, last_err, beacon, salt >>

\* The loop ends: the last error is returned.
ReturnErr ==
    /\ at = "loop" /\ attempt = MAX_RETRIES
    /\ at' = "failed"
    /\ UNCHANGED << attempt, last_err, beacon, salt >>

\* verified_salt verifies again.
VerifiedSalt ==
    /\ at = "fetched"
    /\ IF VerifyBeacon(beacon[1]) THEN at' = "salted" /\ salt' = << beacon[1].randomness >>
       ELSE at' = "failed" /\ UNCHANGED salt
    /\ UNCHANGED << attempt, last_err, beacon >>

\* What the client does without the endpoint: backing off is a sleep and the HTTP
\* client has a timeout, so an attempt ends whether or not the endpoint answers.
Proceed == Fetch \/ FetchFails \/ ReturnErr \/ VerifiedSalt

BeaconNext == Proceed \/ \E resp \in DrandResponse : Answer(resp)
===========================================================================
