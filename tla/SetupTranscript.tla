--------------------------- MODULE SetupTranscript ---------------------------
(***************************************************************************)
(* The setup transcript (chronos-snark/src/prover.rs): a public hash chain *)
(* of commitments, and the accumulator that seeds the setup.               *)
(*                                                                         *)
(* A hash is what was hashed.  Exclusive or is the symmetric difference of *)
(* sets: zero is the empty set, a digest the set of itself, and entropy a  *)
(* set of bits somebody drew.                                              *)
(***************************************************************************)
EXTENDS Integers, Sequences

Xor(a, b) == (a \ b) \cup (b \ a)

GENESIS == << "chronos-setup-transcript-genesis-v1" >>

\* SetupContribution::commitment.
Commitment(c) == << "chronos-setup-contribution-v1", c.contributor, c.entropy >>

\* Mutant: each head is of its own commitment only.
ChainUnlinked(head, commitment) == << "chronos-setup-chain-v1", commitment >>

Chain(head, commitment) == << "chronos-setup-chain-v1", head, commitment >>

NewTranscript == [records |-> << >>, head |-> GENESIS, seed_accumulator |-> {}]

\* contribute: chains the commitment and folds the entropy in, exclusive or first.
Contribute(t, c) ==
    LET head == Chain(t.head, Commitment(c))
    IN  [records |-> Append(t.records, [contributor |-> c.contributor,
                                        commitment |-> Commitment(c), head |-> head]),
         head |-> head,
         seed_accumulator |-> {<< "chronos-setup-accumulator-v1",
                                  Xor(t.seed_accumulator, c.entropy), head >>}]

\* verify_chain: each record's head recomputed from the one before it, and the last
\* one compared with the transcript's.
HeadAfter(records, i) == IF i = 0 THEN GENESIS ELSE records[i].head
VerifyChain(t) ==
    /\ \A i \in DOMAIN t.records :
          t.records[i].head = Chain(HeadAfter(t.records, i - 1), t.records[i].commitment)
    /\ t.head = HeadAfter(t.records, Len(t.records))

\* setup_rng, which an empty transcript does not have.
SetupRng(t) == t.seed_accumulator
==============================================================================
