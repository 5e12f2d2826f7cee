---------------------------- MODULE PowersOfTau ----------------------------
(***************************************************************************)
(* The parameters of the trusted-setup ceremony and one participant's      *)
(* contribution to them (chronos-snark/src/ceremony.rs).                   *)
(*                                                                         *)
(* A group element is represented by its discrete logarithm, a number      *)
(* modulo the group order; the model never lets an action take one.        *)
(* Challenge hashes are ideal: a hash is what it hashes.  A Schnorr proof  *)
(* is the exponent it proves knowledge of and the parameters its challenge *)
(* covers.                                                                 *)
(***************************************************************************)
EXTENDS Naturals, Sequences

CONSTANTS
    Order,              \* the group order, a prime
    NumPowers,          \* powers of tau kept
    Secrets             \* exponents participants sample; zero has no chance

ASSUME PowersAssumption ==
    /\ Order \in Nat \ {0, 1}
    /\ \A a, b \in 1 .. Order - 1 : (a * b) % Order # 0
    /\ NumPowers \in Nat \ {0, 1}
    /\ Secrets \subseteq 1 .. Order - 1

None == << >>

---------------------------------------------------------------------------
(* Phase 1: powers of tau.                                                 *)

Index == 1 .. NumPowers

\* tau^0, tau^1, ...: the accumulator tau_acc of contribute.
PowersOf(tau) ==
    LET power[k \in Index] == IF k = 1 THEN 1 % Order ELSE (power[k - 1] * tau) % Order
    IN  power

\* Phase1Parameters::init: tau = 1.
InitParameters ==
    [tau_powers_g1 |-> PowersOf(1), tau_powers_g2 |-> PowersOf(1), contribution_index |-> 0]

\* Mutant: the index is left out of the hash.
ChallengeHashNoIndex(p) == [g1 |-> p.tau_powers_g1, g2 |-> p.tau_powers_g2]

\* Phase1Parameters::challenge_hash.
ChallengeHash(p) ==
    [index |-> p.contribution_index, g1 |-> p.tau_powers_g1, g2 |-> p.tau_powers_g2]

\* Mutant: every power raised by tau.
ScaleFlat(powers, tau) == [k \in Index |-> (powers[k] * tau) % Order]

\* The k-th power is raised by tau^k.
Scale(powers, tau) == [k \in Index |-> (powers[k] * PowersOf(tau)[k]) % Order]

\* Phase1Contribution::contribute.
Contribution1(challenge, tau) ==
    LET new == [tau_powers_g1      |-> Scale(challenge.tau_powers_g1, tau),
                tau_powers_g2      |-> Scale(challenge.tau_powers_g2, tau),
                contribution_index |-> challenge.contribution_index + 1]
    IN  [parent_challenge |-> ChallengeHash(challenge),
         new_parameters   |-> new,
         proof            |-> [exponent |-> tau, covers |-> ChallengeHash(new)]]

\* Phase1Contribution::verify: the parent, the proof of knowledge for the first
\* power, and one pairing check.
Verify1(c, previous) ==
    /\ c.parent_challenge = ChallengeHash(previous)
    /\ c.proof.covers = ChallengeHash(c.new_parameters)
    /\ (previous.tau_powers_g1[2] * c.proof.exponent) % Order = c.new_parameters.tau_powers_g1[2]
    /\ (previous.tau_powers_g1[1] * c.new_parameters.tau_powers_g2[2]) % Order
           = (c.new_parameters.tau_powers_g1[2] * previous.tau_powers_g2[1]) % Order

---------------------------------------------------------------------------
(* Phase 2: a counter on top of the finished phase 1.                      *)

ChallengeHash2(p) == [index |-> p.contribution_index, phase1 |-> ChallengeHash(p.phase1)]

\* Phase2Contribution::contribute.
Contribution2(challenge) ==
    [parent_challenge |-> ChallengeHash2(challenge),
     new_parameters   |-> [challenge EXCEPT !.contribution_index = @ + 1]]

\* Phase2Contribution::verify.
Verify2(c, previous) == c.parent_challenge = ChallengeHash2(previous)
===========================================================================
