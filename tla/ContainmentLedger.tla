------------------------- MODULE ContainmentLedger -------------------------
(***************************************************************************)
(* The append-only ledger around the monitor (ContainmentLedger in         *)
(* chronos-core/src/containment.rs).                                       *)
(*                                                                         *)
(* The SHA-256 chain digest is idealised as the sequence of records hashed *)
(* into it: two ledgers have the same digest only if they have the same    *)
(* parameters and the same history.                                        *)
(***************************************************************************)
EXTENDS Containment, FiniteSets

CONSTANTS
    Events,         \* the events callers submit
    Readings,       \* the clock readings pushed in
    TailCapacity,   \* records kept for introspection; the code takes at least one
    MaxRecords      \* bound of the model on the length of the ledger

ASSUME LedgerAssumption ==
    /\ Events \subseteq Event
    /\ Readings \subseteq U64
    /\ TailCapacity \in Nat
    /\ MaxRecords \in U64

VARIABLES state, next_seq, chain_digest, tail, admitted, denied
vars == << state, next_seq, chain_digest, tail, admitted, denied >>

\* Decision::code and event_code.
DecisionCode ==
    [Admit |-> 0, WrongPhase |-> 1, CapabilityRevoked |-> 2, BudgetExhausted |-> 3,
     DisclosureBudgetExceeded |-> 4, DeadlineExceeded |-> 5, UncertaintyTooHigh |-> 6,
     CorrectionUnauthorized |-> 7]

EventCode ==
    [MissionInit |-> 1, Infer |-> 2, KeyReleased |-> 3, IdentityAttest |-> 4,
     ErasureAttest |-> 5, RequestHumanVeto |-> 6, HumanCorrection |-> 7, Erase |-> 8,
     WatchdogExpiry |-> 9]

\* What a record keeps of a state: not the clock and not the anchor.
Recorded(s) ==
    [phase_after                 |-> s.phase,
     granted_after               |-> s.granted,
     op_budget_after             |-> s.op_budget,
     disclosure_after            |-> s.disclosure_budget_bits,
     uncertainty_incurred_after  |-> s.uncertainty_incurred,
     uncertainty_resolved_after  |-> s.uncertainty_resolved,
     peak_uncertainty_after      |-> s.peak_uncertainty,
     corrections_consumed_after  |-> s.corrections_consumed]

\* LedgerRecord: what was arbitrated, and the state it left.
LedgerRecord(ev) ==
    [seq           |-> next_seq,
     event_code    |-> EventCode[ev.type],
     phase_before  |-> state.phase,
     after         |-> Recorded(Commit(state, ev)),
     decision_code |-> DecisionCode[Decide(state, ev)]]

Capacity == IF TailCapacity > 1 THEN TailCapacity ELSE 1

\* Mutant: the tail loses its newest record.
PushTailPopsBack(record) ==
    IF Len(tail) = Capacity THEN Append(SubSeq(tail, 1, Capacity - 1), record)
    ELSE Append(tail, record)

\* pop_front when full, then push_back.
PushTail(record) ==
    IF Len(tail) = Capacity THEN Append(Tail(tail), record) ELSE Append(tail, record)

---------------------------------------------------------------------------

Init ==
    /\ state = NewState
    /\ next_seq = 0
    /\ chain_digest = << >>
    /\ tail = << >>
    /\ admitted = 0
    /\ denied = 0

SetElapsed(elapsed) ==
    /\ state' = WithElapsed(state, elapsed)
    /\ UNCHANGED << next_seq, chain_digest, tail, admitted, denied >>

AdmitEvent(ev) ==
    /\ next_seq < MaxRecords
    /\ state' = Commit(state, ev)
    /\ chain_digest' = Append(chain_digest, LedgerRecord(ev))
    /\ tail' = PushTail(LedgerRecord(ev))
    /\ \/ Decide(state, ev) = Admit /\ admitted' = admitted + 1 /\ UNCHANGED denied
       \/ Decide(state, ev) # Admit /\ denied' = denied + 1 /\ UNCHANGED admitted
    /\ next_seq' = next_seq + 1

Next ==
    \/ \E elapsed \in Readings : SetElapsed(elapsed)
    \/ \E ev \in Events : AdmitEvent(ev)

Spec == Init /\ [][Next]_vars

---------------------------------------------------------------------------
(* Properties.                                                             *)

\* What the records say was admitted of one kind of event.
AdmittedRecords(type) ==
    {i \in 1 .. next_seq : /\ chain_digest[i].event_code = EventCode[type]
                           /\ chain_digest[i].decision_code = DecisionCode[Admit]}

\* The record before the i-th, or the provisioned state.
Before(i) == IF i = 1 THEN Recorded(NewState) ELSE chain_digest[i - 1].after

\* admit(): no gap in the sequence numbers, every record picks up where the one
\* before left off, and the last one is the state held now, so the digest the
\* erasure proof binds commits to it; the bounded tail has lost its oldest records
\* only, and the counters of the summary agree with the length.
HistoryIsComplete ==
    /\ \A i \in 1 .. next_seq :
          /\ chain_digest[i].seq = i - 1
          /\ chain_digest[i].phase_before = Before(i).phase_after
    /\ Recorded(state) = Before(next_seq + 1)
    /\ Len(tail) = IF next_seq < Capacity THEN next_seq ELSE Capacity
    /\ tail = SubSeq(chain_digest, next_seq - Len(tail) + 1, next_seq)
    /\ admitted + denied = next_seq

\* The budgets and the grant count can be audited from the records: until
\* erasure zeroes it, the operation budget used is the number of inferences
\* admitted, and the grants consumed are the corrections admitted.
BudgetIsAudited ==
    /\ state.phase # Erased => Cardinality(AdmittedRecords("Infer")) = OpBudget - state.op_budget
    /\ Cardinality(AdmittedRecords("Infer")) <= OpBudget
    /\ Cardinality(AdmittedRecords("HumanCorrection")) = state.corrections_consumed
===========================================================================
