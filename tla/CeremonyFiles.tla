---------------------------- MODULE CeremonyFiles ----------------------------
(***************************************************************************)
(* The ceremony's command-line tool                                        *)
(* (chronos-snark/examples/ceremony_cli.rs): the ceremony is a file that   *)
(* participants hand on.  A command reads one file, rebuilds a coordinator *)
(* and writes another file, in place and not atomically.                   *)
(***************************************************************************)
EXTENDS PowersOfTau, Sequences

CONSTANTS File, Contributor

VARIABLES
    files,      \* what each file holds: nothing, a torn write, or a state
    refused     \* whether the last command ended in an error
fileVars == << files, refused >>

\* CeremonyState, of phase 1: no command ever writes one of phase 2.
CeremonyState(params, contributors) ==
    [phase |-> "phase1", parameters |-> params, contributors |-> contributors]
Missing == [phase |-> "missing"]
Torn == [phase |-> "torn"]

FilesInit ==
    /\ files = [f \in File |-> Missing]
    /\ refused = FALSE

Store(f, state) ==
    /\ files' = [files EXCEPT ![f] = state]
    /\ refused' = FALSE
Refuse == refused' = TRUE /\ UNCHANGED files

CmdInit(output) == Store(output, CeremonyState(InitParameters, << >>))

\* Mutant: the parameters are taken over from the file, the transcript is not.
RebuiltFromParameters(state) == [phase1 |-> state.parameters, transcript |-> << >>]

\* The coordinator of a command: a new one, with phase 1 initialised.  Nothing of the
\* file is replayed into it.
Rebuilt(state) == [phase1 |-> InitParameters, transcript |-> << >>]

\* The contribution is checked against the file, then applied to the coordinator.
CmdContribute(input, output, contributor) ==
    /\ files[input].phase = "phase1"
    /\ \E tau \in Secrets :
          LET state == files[input]
              coordinator == Rebuilt(state)
              contribution == Contribution1(state.parameters, tau)
          IN  IF /\ Verify1(contribution, state.parameters)
                 /\ Verify1(contribution, coordinator.phase1)
              THEN Store(output, CeremonyState(contribution.new_parameters,
                                              Append(coordinator.transcript, contributor)))
              ELSE Refuse

\* The file's index is looked at, then the coordinator's, which is refused as well.
CmdTransition(input) ==
    /\ files[input].phase = "phase1"
    /\ \/ files[input].parameters.contribution_index = 0
       \/ Rebuilt(files[input]).phase1.contribution_index = 0
    /\ Refuse

\* Only a file of phase 2 can be finalized.
CmdFinalize(input) == files[input].phase = "phase1" /\ Refuse

\* fs::write is cut short.
Crash(f) == files' = [files EXCEPT ![f] = Torn] /\ UNCHANGED refused

\* A file that is missing or torn does not load.
NotLoaded(f) == files[f] \in {Missing, Torn} /\ Refuse

FilesNext ==
    \E f \in File :
        \/ CmdInit(f) \/ CmdTransition(f) \/ CmdFinalize(f) \/ Crash(f) \/ NotLoaded(f)
        \/ \E g \in File, c \in Contributor : CmdContribute(f, g, c)

FilesSpec == FilesInit /\ [][FilesNext]_fileVars

-------------------------------------------------------------------------------
(* Properties.                                                             *)

\* Whichever files commands were run on, in whatever order and cut short wherever,
\* a ceremony file that loads names everybody whose contribution is in it: the tool
\* refuses to go on rather than drop a contributor that it did not replay.
FilesNameTheirContributors ==
    \A f \in DOMAIN files :
        files[f].phase = "phase1" =>
            Len(files[f].contributors) = files[f].parameters.contribution_index
===============================================================================
