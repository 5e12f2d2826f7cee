----------------------------- MODULE MCCeremony -----------------------------
(***************************************************************************)
(* The ceremony, as one coordinator; or as files; or the setups from       *)
(* transcripts, with no ceremony.                                          *)
(*                                                                         *)
(* Two participants over a group of order five.  Their secrets, two and    *)
(* three, multiply to one, so the accumulator can come back to where it    *)
(* was.  Two desks, whose transcripts hold the same two contributions in   *)
(* any order, or one of them twice, so that their entropy cancels.         *)
(***************************************************************************)
EXTENDS Ceremony, CeremonyFiles, TrustedSetup, TLC

MCContribution ==
    {[contributor |-> "x", entropy |-> {<< "entropy", "a" >>}],
     [contributor |-> "y", entropy |-> {<< "entropy", "b" >>}]}

CeremonyAtRest ==
    /\ phase1 = None /\ phase2 = None /\ keys = None /\ open = FALSE
    /\ transcript = [phase1 |-> 0, phase2 |-> 0]
    /\ outbox1 = [p \in Participant |-> None] /\ outbox2 = [p \in Participant |-> None]
FilesAtRest == files = << >> /\ refused = FALSE
SetupAtRest ==
    /\ transcripts = << >> /\ prover = Blank /\ pk_file = Unknown /\ vk_file = Unknown
    /\ identity = Unknown /\ id_proof = Unknown

VARIABLE part
MCInit ==
    \/ part = "coordinator" /\ CeremonyInit /\ FilesAtRest /\ SetupAtRest
    \/ part = "files" /\ FilesInit /\ CeremonyAtRest /\ SetupAtRest
    \/ part = "setup" /\ SetupInit /\ CeremonyAtRest /\ FilesAtRest
MCNext ==
    /\ UNCHANGED part
    /\ \/ part = "coordinator" /\ CeremonyNext /\ UNCHANGED << fileVars, setupVars >>
       \/ part = "files" /\ FilesNext /\ UNCHANGED << ceremonyVars, setupVars >>
       \/ part = "setup" /\ SetupNext /\ UNCHANGED << ceremonyVars, fileVars >>
MCSpec == MCInit /\ [][MCNext]_<< part, ceremonyVars, fileVars, setupVars >>

Symmetry == Permutations(Participant)
=============================================================================
