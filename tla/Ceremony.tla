------------------------------ MODULE Ceremony ------------------------------
(***************************************************************************)
(* The ceremony's coordinator (chronos-snark/src/ceremony.rs) and the      *)
(* participants, who compute contributions on their own machines and hand  *)
(* them in late, twice, or after somebody else's.                          *)
(***************************************************************************)
EXTENDS PowersOfTau

CONSTANTS
    Participant,
    MaxContributions    \* bound of the model on the transcript of a phase

ASSUME CeremonyAssumption == MaxContributions \in Nat

VARIABLES
    phase1,             \* the coordinator's Option<Phase1Parameters>
    phase2,             \* the coordinator's Option<Phase2Parameters>
    transcript,         \* how many contributors are recorded for each phase
    outbox1, outbox2,   \* what each participant has computed and may hand in
    keys,               \* what finalize() derived its keys from, if it did
    open                \* whether there still is a coordinator
ceremonyVars == << phase1, phase2, transcript, outbox1, outbox2, keys, open >>

---------------------------------------------------------------------------
(* CeremonyCoordinator.                                                    *)

CeremonyInit ==
    /\ phase1 = None
    /\ phase2 = None
    /\ transcript = [phase1 |-> 0, phase2 |-> 0]
    /\ outbox1 = [p \in Participant |-> None]
    /\ outbox2 = [p \in Participant |-> None]
    /\ keys = None
    /\ open = TRUE

InitializePhase1 ==
    /\ open /\ phase1 = None
    /\ phase1' = << InitParameters >>
    /\ UNCHANGED << phase2, transcript, outbox1, outbox2, keys, open >>

\* A participant takes the current challenge away and computes.
Contribute1(p) ==
    /\ open /\ phase1 # None
    /\ \E tau \in Secrets :
          outbox1' = [outbox1 EXCEPT ![p] = << Contribution1(phase1[1], tau) >>]
    /\ UNCHANGED << phase1, phase2, transcript, outbox2, keys, open >>

\* It hands the result in, now or later, once or again.
VerifyAndApplyPhase1(p) ==
    /\ open /\ phase1 # None /\ outbox1[p] # None
    /\ transcript.phase1 < MaxContributions
    /\ Verify1(outbox1[p][1], phase1[1])
    /\ transcript' = [transcript EXCEPT !.phase1 = @ + 1]
    /\ phase1' = << outbox1[p][1].new_parameters >>
    /\ UNCHANGED << phase2, outbox1, outbox2, keys, open >>

\* finalize_phase1_and_start_phase2: phase 1 is taken out before it is checked,
\* so a call that comes too early loses it.
StartPhase2 ==
    /\ open /\ phase1 # None
    /\ phase1' = None
    /\ phase2' = IF phase1[1].contribution_index = 0 THEN phase2
                 ELSE << [phase1 |-> phase1[1], contribution_index |-> 0] >>
    /\ UNCHANGED << transcript, outbox1, outbox2, keys, open >>

Contribute2(p) ==
    /\ open /\ phase2 # None
    /\ outbox2' = [outbox2 EXCEPT ![p] = << Contribution2(phase2[1]) >>]
    /\ UNCHANGED << phase1, phase2, transcript, outbox1, keys, open >>

VerifyAndApplyPhase2(p) ==
    /\ open /\ phase2 # None /\ outbox2[p] # None
    /\ transcript.phase2 < MaxContributions
    /\ Verify2(outbox2[p][1], phase2[1])
    /\ transcript' = [transcript EXCEPT !.phase2 = @ + 1]
    /\ phase2' = << outbox2[p][1].new_parameters >>
    /\ UNCHANGED << phase1, outbox1, outbox2, keys, open >>

\* Mutant: an untouched phase 2 will do.
FinalizeEarly ==
    /\ open
    /\ keys' = phase2
    /\ open' = FALSE
    /\ UNCHANGED << phase1, phase2, transcript, outbox1, outbox2 >>

\* finalize consumes the coordinator, whether or not keys come out of it.
Finalize ==
    /\ open
    /\ keys' = IF phase2 # None /\ phase2[1].contribution_index > 0 THEN phase2 ELSE None
    /\ open' = FALSE
    /\ UNCHANGED << phase1, phase2, transcript, outbox1, outbox2 >>

CeremonyNext ==
    \/ InitializePhase1 \/ StartPhase2 \/ Finalize
    \/ \E p \in Participant :
          \/ Contribute1(p) \/ VerifyAndApplyPhase1(p)
          \/ Contribute2(p) \/ VerifyAndApplyPhase2(p)

CeremonySpec == CeremonyInit /\ [][CeremonyNext]_ceremonyVars

---------------------------------------------------------------------------
(* Properties.                                                             *)

\* Every accumulator the coordinator holds is made of the powers of one exponent,
\* the same in both groups.
ArePowers(p) ==
    \E tau \in 1 .. Order - 1 :
        p.tau_powers_g1 = PowersOf(tau) /\ p.tau_powers_g2 = PowersOf(tau)
AccumulatorsArePowers ==
    /\ phase1 # None => ArePowers(phase1[1])
    /\ phase2 # None => ArePowers(phase2[1].phase1)

\* While phase 1 is open its accumulator only moves forward, by one participant's
\* exponent at a time: a contribution that is stale, handed in twice, or computed
\* before the product happened to return to an earlier value never undoes
\* somebody else's.
Phase1MovesForward ==
    [][phase1 # None /\ phase1' \notin {None, phase1} =>
         /\ phase1'[1].contribution_index = phase1[1].contribution_index + 1
         /\ \E tau \in Secrets :
               phase1'[1].tau_powers_g1 = Scale(phase1[1].tau_powers_g1, tau)]_ceremonyVars

\* The published transcript accounts for the keys: they have a contribution to
\* each phase, and every contribution in them was verified and recorded.
KeysAreAccountedFor ==
    keys # None =>
        /\ keys[1].contribution_index \in 1 .. transcript.phase2
        /\ keys[1].phase1.contribution_index \in 1 .. transcript.phase1
===========================================================================
