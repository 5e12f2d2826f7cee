--------------------------- MODULE MCMonitor ---------------------------
(***************************************************************************)
(* Small instances of the containment monitor: two operator grants, a      *)
(* token anyone can make up, and u64 cut down until saturation happens.    *)
(***************************************************************************)
EXTENDS ContainmentMonitor

CONSTANTS t1, t2, forged

MCToken == {t1, t2, forged}
MCGrants == BuildChain(<< [token |-> t1, amount |-> 1], [token |-> t2, amount |-> 3] >>).grants

\* Every digest on the chain, and one of a chain a caller made up.
MCDigest ==
    {AnchorAt(i) : i \in 1 .. Len(Grants) + 1} \cup {<< forged, 1, CHAIN_END >>}
===========================================================================
