----------------------------- MODULE MCLedger -----------------------------
(***************************************************************************)
(* A ledger of up to four records over one correction grant and a tail     *)
(* that holds two, after the check the agent makes when it starts, and one *)
(* handler at a time that reports on it.                                   *)
(***************************************************************************)
EXTENDS LedgerReaders

MCToken == {FirstToken, SecondToken, ForgedToken}
MCGrants == BuildChain(<< [token |-> FirstToken, amount |-> 1] >>).grants
MCDigest ==
    {AnchorAt(i) : i \in 1 .. Len(Grants) + 1}
    \cup {ModelCheckChain.anchor, ModelCheckChain.grants[1].next_anchor, Forged.next_anchor}

\* Every plain event; inferences on both sides of each budget, of the deadline
\* and of the threshold; the genuine grant and a forged one.
MCEvents ==
    PlainEvent
    \cup {[type |-> "Infer", declared_secs |-> secs, disclosure_bits |-> bits,
           uncertainty_score |-> score] :
              << secs, bits, score >> \in {<< 1, 1, 1 >>, << 0, 2, 0 >>, << 0, 0, 2 >>}}
    \cup {[type |-> "HumanCorrection", grant |-> grant] :
              grant \in {MCGrants[1], [MCGrants[1] EXCEPT !.token = ForgedToken]}}
===========================================================================
