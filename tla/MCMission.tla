----------------------------- MODULE MCMission -----------------------------
(***************************************************************************)
(* Small instances of the agent: one correction grant and a forged token.  *)
(***************************************************************************)
EXTENDS Mission, TLC

CONSTANTS t1, forged

MCToken == {t1, forged}
MCGrants == BuildChain(<< [token |-> t1, amount |-> 1] >>).grants
MCDigest == {AnchorAt(i) : i \in 1 .. Len(Grants) + 1}
Symmetry == Permutations(Request)
===========================================================================
