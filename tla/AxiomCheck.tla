----------------------------- MODULE AxiomCheck -----------------------------
(***************************************************************************)
(* The agent's startup self-check (verify_axioms in                        *)
(* chronos-core/src/containment.rs): every event of a fixed list is        *)
(* applied to every state of a small cross product, reachable or not, and  *)
(* the seven axioms are checked on the transition.  The agent refuses to   *)
(* start when one fails.                                                   *)
(***************************************************************************)
EXTENDS Containment

CONSTANTS
    FirstToken, SecondToken,    \* 0x11.. and 0x22.., of the check's own chain
    ForgedToken                 \* 0xAA.., of a grant that is in no chain

---------------------------------------------------------------------------
(* The axioms, on one transition of step().                                *)

\* A1: capability decay.
A1(s, ev) == Step(s, ev).granted \subseteq s.granted

\* A2: every budget and every accumulator moves one way.
A2(s, ev) ==
    LET next == Step(s, ev)
    IN  /\ next.op_budget <= s.op_budget
        /\ next.disclosure_budget_bits <= s.disclosure_budget_bits
        /\ next.uncertainty_incurred >= s.uncertainty_incurred
        /\ next.uncertainty_resolved >= s.uncertainty_resolved
        /\ next.peak_uncertainty >= s.peak_uncertainty

\* A3: the phase never descends.
A3(s, ev) == Step(s, ev).phase >= s.phase

\* A4: an admitted inference can finish before the deadline.
A4(s, ev) ==
    ev.type = "Infer" /\ Decide(s, ev) = Admit =>
        SaturatingAdd(s.elapsed_secs, ev.declared_secs) <= s.deadline_secs

\* A5: from the successor, erasure is one admitted step away.
A5(s, ev) ==
    LET next  == Step(s, ev)
        erase == [type |-> "Erase"]
    IN  Decide(next, erase) = Admit /\ Step(next, erase).phase = Erased

\* A6: an admitted inference stays within the threshold; the peak goes on
\* dominating the net uncertainty, and no admitted event takes it past the
\* threshold.
A6(s, ev) ==
    LET next     == Step(s, ev)
        admitted == Decide(s, ev) = Admit
    IN  /\ ev.type = "Infer" /\ admitted => NetUncertainty(next) <= next.autonomy_threshold
        /\ s.peak_uncertainty >= NetUncertainty(s)
             => next.peak_uncertainty >= NetUncertainty(next)
        /\ admitted /\ s.peak_uncertainty <= s.autonomy_threshold
             => next.peak_uncertainty <= next.autonomy_threshold

\* A7: uncertainty is resolved only by a grant that the anchor held before
\* authorises and that moves the chain on; no other grant is admitted.
A7(s, ev) ==
    LET next == Step(s, ev)
    IN  /\ next.uncertainty_resolved > s.uncertainty_resolved
             => /\ ev.type = "HumanCorrection"
                /\ Authorises(ev.grant, s.correction_anchor)
                /\ next.correction_anchor = ev.grant.next_anchor
                /\ next.corrections_consumed > s.corrections_consumed
        /\ ev.type = "HumanCorrection" /\ Decide(s, ev) = Admit
             => Authorises(ev.grant, s.correction_anchor)

AxiomsHold(s, ev) ==
    A1(s, ev) /\ A2(s, ev) /\ A3(s, ev) /\ A4(s, ev) /\ A5(s, ev) /\ A6(s, ev) /\ A7(s, ev)

---------------------------------------------------------------------------
(* The cross product and the events.                                       *)

\* model_check_chain: a chain of two grants of one unit each, of which the first
\* is presented, and a forged grant.
ModelCheckChain ==
    BuildChain(<< [token |-> FirstToken, amount |-> 1], [token |-> SecondToken, amount |-> 1] >>)
Forged == [token |-> ForgedToken, amount |-> 1, next_anchor |-> << ForgedToken >>]

\* The tokens and digests are 32 bytes each, and 2 is not the largest u64.
ASSUME CheckAssumption ==
    /\ 2 < U64Max
    /\ {ModelCheckChain.anchor, CHAIN_END} \subseteq Digest
    /\ {ModelCheckChain.grants[1], Forged} \subseteq CorrectionGrant

\* DEADLINE, AUTONOMY_THRESHOLD and VALUES; elapsed, the budgets, the
\* accumulators and the peak are drawn independently of one another.
AbstractStates(live_anchor) ==
    [phase                  : Armed .. Erased,
     granted                : SUBSET Capabilities,
     op_budget              : 0 .. 2,
     disclosure_budget_bits : 0 .. 2,
     elapsed_secs           : 0 .. 2,
     deadline_secs          : {2},
     uncertainty_incurred   : 0 .. 2,
     uncertainty_resolved   : 0 .. 2,
     peak_uncertainty       : 0 .. 2,
     autonomy_threshold     : {2},
     correction_anchor      : {live_anchor, CHAIN_END},
     corrections_consumed   : {0}]

\* Event::representatives.
Representatives(valid, invalid) ==
    PlainEvent
    \cup {[type |-> "Infer", declared_secs |-> figures[1], disclosure_bits |-> figures[2],
           uncertainty_score |-> figures[3]] :
              figures \in {<< 0, 0, 0 >>, << 1, 1, 1 >>, << 2, 1, 0 >>, << 1, 2, 1 >>,
                           << 1, 1, 2 >>, << U64Max, U64Max, U64Max >>}}
    \cup {[type |-> "HumanCorrection", grant |-> grant] : grant \in {valid, invalid}}

\* verify_axioms, is_sound: no violation over the whole abstraction.
VerifyAxioms ==
    \A s \in AbstractStates(ModelCheckChain.anchor),
       ev \in Representatives(ModelCheckChain.grants[1], Forged) : AxiomsHold(s, ev)
===========================================================================
