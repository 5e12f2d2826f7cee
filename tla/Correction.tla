---------------------------- MODULE Correction ----------------------------
(***************************************************************************)
(* Operator correction grants (chronos-core/src/correction.rs): a reverse  *)
(* hash chain whose head is published and whose links are revealed one at  *)
(* a time.                                                                 *)
(*                                                                         *)
(* SHA-256 is idealised: the digest of (token, amount, next_anchor) is the *)
(* triple itself, so it is collision free, one cannot produce a preimage   *)
(* without its token, and no digest is the sentinel CHAIN_END.             *)
(***************************************************************************)
EXTENDS Naturals, Sequences
LOCAL SeqExt == INSTANCE SequencesExt

CONSTANTS
    U64Max,     \* the largest u64; small in a model so that saturation happens
    Token,      \* 32-byte tokens
    Digest,     \* 32-byte digests a caller can write into next_anchor
    Grants      \* the provisioned grants, in the order they must be revealed

U64 == 0 .. U64Max

SaturatingAdd(a, b) == IF a + b > U64Max THEN U64Max ELSE a + b
SaturatingSub(a, b) == IF a > b THEN a - b ELSE 0

\* The terminal link: an exhausted chain, or a mission without corrections.
CHAIN_END == << >>

CorrectionGrant == [token : Token, amount : U64, next_anchor : Digest]

\* link() and CorrectionGrant::link: the digest a grant hashes to.
Link(grant) == << grant.token, grant.amount, grant.next_anchor >>

\* Mutants: a link that leaves the token, or the amount, out of the hash.
AuthorisesAnyToken(grant, anchor) ==
    anchor # CHAIN_END /\ << grant.amount, grant.next_anchor >> = << anchor[2], anchor[3] >>
AuthorisesAnyAmount(grant, anchor) ==
    anchor # CHAIN_END /\ << grant.token, grant.next_anchor >> = << anchor[1], anchor[3] >>

\* CorrectionGrant::authorises.
Authorises(grant, anchor) ==
    /\ anchor # CHAIN_END
    /\ Link(grant) = anchor

\* build_chain: back to front, each grant committing to the link after it.
BuildChain(tokens_and_amounts) ==
    LET Prepend(entry, chain) ==
            LET grant == [token       |-> entry.token,
                          amount      |-> entry.amount,
                          next_anchor |-> chain.anchor]
            IN  [anchor |-> Link(grant), grants |-> << grant >> \o chain.grants]
    IN  SeqExt!FoldRight(Prepend, tokens_and_amounts,
                  [anchor |-> CHAIN_END, grants |-> << >>])

\* The anchor the monitor holds once the first i - 1 grants are spent.
AnchorAt(i) == IF i \in 1 .. Len(Grants) THEN Link(Grants[i]) ELSE CHAIN_END

ASSUME WidthAssumption == U64Max \in Nat \ {0}

\* What build_chain guarantees of its output, together with the provisioner's
\* sampling of tokens at random: no token is used twice.  A chain is counted in
\* a u64.
ASSUME ChainAssumption ==
    /\ Grants \in Seq(CorrectionGrant)
    /\ Len(Grants) <= U64Max
    /\ AnchorAt(1) \in Digest
    /\ \A i \in 1 .. Len(Grants) : Grants[i].next_anchor = AnchorAt(i + 1)
    /\ \A i, j \in 1 .. Len(Grants) : Grants[i].token = Grants[j].token => i = j
===========================================================================
