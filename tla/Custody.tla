------------------------------- MODULE Custody -------------------------------
(***************************************************************************)
(* What the agent promises about the key it was given sealed and about the *)
(* identity that goes with it, whoever calls, hangs up or pulls the plug:  *)
(* each is brought into memory at most once, and an attestation is made by *)
(* a holder of the key that has been erased as far as the monitor goes.    *)
(***************************************************************************)

VARIABLES
    key,        \* "sealed", "held" or "gone"
    identity,   \* "none", "held" or "gone"
    erased,
    attested
vars == << key, identity, erased, attested >>

Init ==
    /\ key = "sealed"
    /\ identity = "none"
    /\ erased = FALSE
    /\ attested = FALSE

Open ==
    /\ key = "sealed"
    /\ key' = "held"
    /\ UNCHANGED << identity, erased, attested >>

Identify ==
    /\ key = "held" /\ identity = "none"
    /\ identity' = "held"
    /\ UNCHANGED << key, erased, attested >>

\* Also while the mission goes on: the watchdog and the signal wipe it, too.
WipeIdentity ==
    /\ identity = "held"
    /\ identity' = "gone"
    /\ UNCHANGED << key, erased, attested >>

\* The end of the key, opened or not; an identity not yet set up never will be.
GiveUp ==
    /\ key # "gone"
    /\ key' = "gone"
    /\ identity' \in {identity, "gone"}
    /\ identity' # "none"
    /\ UNCHANGED << erased, attested >>

Erase ==
    /\ ~erased
    /\ erased' = TRUE
    /\ UNCHANGED << key, identity, attested >>

Attest ==
    /\ key = "held" /\ erased /\ ~attested
    /\ attested' = TRUE
    /\ UNCHANGED << key, identity, erased >>

Next == Open \/ Identify \/ WipeIdentity \/ GiveUp \/ Erase \/ Attest

Spec == Init /\ [][Next]_vars
==============================================================================
