------------------------- MODULE ContainmentMonitor -------------------------
(***************************************************************************)
(* The monitor and its callers.  Callers know every token in CallerTokens  *)
(* and every grant the operator has revealed so far, may rewrite the       *)
(* amount and the next anchor of a grant they present, and declare any     *)
(* figures they like.  The clock may be read late or out of order.         *)
(***************************************************************************)
EXTENDS Containment

CONSTANT CallerTokens       \* tokens anyone can make up

\* Preimage resistance: a token is known only once its grant is revealed.
ASSUME SecrecyAssumption ==
    /\ CallerTokens \subseteq Token
    /\ \A i \in 1 .. Len(Grants) : Grants[i].token \notin CallerTokens

VARIABLES
    st,         \* ContainmentState
    revealed    \* the indices of the grants the operator has handed out
monitorVars == << st, revealed >>

---------------------------------------------------------------------------

MonitorInit == st = NewState /\ revealed = {}

\* One call of StateMachine::admit, with whatever it read off the clock.
Arbitrate(ev) ==
    /\ \E elapsed \in U64 : st' = AdmitAt(st, elapsed, ev)
    /\ UNCHANGED revealed

MissionInit      == Arbitrate([type |-> "MissionInit"])
KeyReleased      == Arbitrate([type |-> "KeyReleased"])
IdentityAttest   == Arbitrate([type |-> "IdentityAttest"])
ErasureAttest    == Arbitrate([type |-> "ErasureAttest"])
RequestHumanVeto == Arbitrate([type |-> "RequestHumanVeto"])
Erase            == Arbitrate([type |-> "Erase"])
WatchdogExpiry   == Arbitrate([type |-> "WatchdogExpiry"])
Infer            == \E ev \in InferEvent : Arbitrate(ev)

\* A caller presents any grant it can write down.
KnownTokens == CallerTokens \cup {Grants[i].token : i \in revealed}
HumanCorrection ==
    \E grant \in CorrectionGrant :
        /\ grant.token \in KnownTokens
        /\ Arbitrate([type |-> "HumanCorrection", grant |-> grant])

\* The operator hands out a grant, in whatever order.
RevealGrant ==
    \E i \in 1 .. Len(Grants) : revealed' = revealed \cup {i} /\ UNCHANGED st

MonitorNext ==
    \/ MissionInit \/ KeyReleased \/ IdentityAttest \/ ErasureAttest
    \/ RequestHumanVeto \/ Erase \/ WatchdogExpiry
    \/ Infer \/ HumanCorrection \/ RevealGrant

MonitorSpec == MonitorInit /\ [][MonitorNext]_monitorVars

---------------------------------------------------------------------------
(* Properties.                                                             *)

\* The state is a ContainmentState and only provisioned grants are handed out.
TypeOK ==
    /\ st \in ContainmentState
    /\ revealed \subseteq 1 .. Len(Grants)

\* A5 and the "unreachable" branch of admit: whatever event arrives, the
\* successor step() computes is one precedes() accepts.  Were it not, admit
\* would answer Admit and keep the old state; for Erase the agent would then
\* report an erasure that did not happen.
CommitNeverFallsBack ==
    \A ev \in Event, elapsed \in U64 :
        LET s == WithElapsed(st, elapsed) IN Precedes(s, Step(s, ev))

\* A6 on every step, over- and under-correction and saturation included: the
\* recorded peak dominates the net uncertainty held now and never passes the
\* provisioned threshold.
PeakBoundsUncertainty ==
    /\ NetUncertainty(st) <= st.peak_uncertainty
    /\ st.peak_uncertainty <= AutonomyThreshold

\* An erased monitor can always be attested: whatever came before erasure, its
\* summary satisfies every predicate that the circuit enforces.
ErasedIsAttestable == st.phase = Erased => IsTerminal(st)

\* A7: every grant spent was handed out by the operator first, and the anchor
\* still points into the provisioned chain, just past the grants spent.
NonSelfAuthorisation ==
    /\ 1 .. st.corrections_consumed \subseteq revealed
    /\ st.correction_anchor = AnchorAt(st.corrections_consumed + 1)

\* What the operator's first k grants amount to.
AuthorisedTotal[k \in 0 .. Len(Grants)] ==
    IF k = 0 THEN 0 ELSE AuthorisedTotal[k - 1] + Grants[k].amount

\* A7 on amounts: uncertainty is resolved by exactly the amounts bound into the
\* grants spent, saturating, whatever amount a caller wrote next to a token.
ResolvedIsAuthorised ==
    st.uncertainty_resolved = SaturatingAdd(0, AuthorisedTotal[st.corrections_consumed])

\* The inductive invariant.
IInv ==
    /\ Sound(st)
    /\ AnchorOnChain(st)
    /\ revealed \subseteq 1 .. Len(Grants)
    /\ 1 .. st.corrections_consumed \subseteq revealed
===========================================================================
