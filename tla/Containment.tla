---------------------------- MODULE Containment ----------------------------
(***************************************************************************)
(* The containment reference monitor as a transition function              *)
(* (chronos-core/src/containment.rs): ContainmentState, step(),            *)
(* precedes(), and the terminal predicates of the summary that the erasure *)
(* proof binds (chronos-snark/src/circuit.rs).                             *)
(***************************************************************************)
EXTENDS Correction

CONSTANTS
    OpBudget,               \* the provisioned parameters of the mission
    DisclosureBudgetBits,
    DeadlineSecs,
    AutonomyThreshold

ASSUME ParameterAssumption ==
    {OpBudget, DisclosureBudgetBits, DeadlineSecs, AutonomyThreshold} \subseteq U64

---------------------------------------------------------------------------
(* Phase and Capabilities.                                                 *)

Armed  == 0
Active == 1
Locked == 2
Erased == 3

Capabilities == {"MISSION_INIT", "INFER", "IDENTITY_ATTEST", "ERASURE_ATTEST",
                 "HUMAN_INTERACTION"}

ContainmentState ==
    [phase                  : Armed .. Erased,
     granted                : SUBSET Capabilities,
     op_budget              : U64,
     disclosure_budget_bits : U64,
     elapsed_secs           : U64,
     deadline_secs          : U64,
     uncertainty_incurred   : U64,
     uncertainty_resolved   : U64,
     peak_uncertainty       : U64,
     autonomy_threshold     : U64,
     correction_anchor      : Digest,
     corrections_consumed   : U64]

\* ContainmentState::new; without_corrections is the case Grants = << >>.
NewState ==
    [phase                  |-> Armed,
     granted                |-> Capabilities,
     op_budget              |-> OpBudget,
     disclosure_budget_bits |-> DisclosureBudgetBits,
     elapsed_secs           |-> 0,
     deadline_secs          |-> DeadlineSecs,
     uncertainty_incurred   |-> 0,
     uncertainty_resolved   |-> 0,
     peak_uncertainty       |-> 0,
     autonomy_threshold     |-> AutonomyThreshold,
     correction_anchor      |-> AnchorAt(1),
     corrections_consumed   |-> 0]

\* The events that carry nothing, and the two that do.
PlainEvent ==
    [type : {"MissionInit", "KeyReleased", "IdentityAttest", "ErasureAttest",
             "RequestHumanVeto", "Erase", "WatchdogExpiry"}]
InferEvent ==
    [type : {"Infer"}, declared_secs : U64, disclosure_bits : U64,
     uncertainty_score : U64]
CorrectionEvent == [type : {"HumanCorrection"}, grant : CorrectionGrant]

Event == PlainEvent \cup InferEvent \cup CorrectionEvent

---------------------------------------------------------------------------
(* step(): the verdict, with its checks in the order the code makes them,  *)
(* and the successor of an admitted event.                                 *)

Admit == "Admit"

\* One early return of step(): deny for this reason, or go on to the rest.
Require(check, reason, rest) == IF check THEN rest ELSE reason

NetUncertainty(s) == SaturatingSub(s.uncertainty_incurred, s.uncertainty_resolved)

\* The net uncertainty that admitting this score would leave behind.
NewUncertainty(s, score) == SaturatingAdd(NetUncertainty(s), score)

\* Mutants: no check for an empty budget; the threshold tested before the score is
\* added.
DecideInferNoBudget(s, ev) ==
    Require(s.phase = Active, "WrongPhase",
    Require("INFER" \in s.granted, "CapabilityRevoked",
    Require(ev.disclosure_bits <= s.disclosure_budget_bits, "DisclosureBudgetExceeded",
    Require(SaturatingAdd(s.elapsed_secs, ev.declared_secs) <= s.deadline_secs,
            "DeadlineExceeded",
    Require(NewUncertainty(s, ev.uncertainty_score) <= s.autonomy_threshold,
            "UncertaintyTooHigh",
    Admit)))))
DecideInferStaleNet(s, ev) ==
    Require(s.phase = Active, "WrongPhase",
    Require("INFER" \in s.granted, "CapabilityRevoked",
    Require(s.op_budget # 0, "BudgetExhausted",
    Require(ev.disclosure_bits <= s.disclosure_budget_bits, "DisclosureBudgetExceeded",
    Require(SaturatingAdd(s.elapsed_secs, ev.declared_secs) <= s.deadline_secs,
            "DeadlineExceeded",
    Require(NetUncertainty(s) <= s.autonomy_threshold, "UncertaintyTooHigh",
    Admit))))))

DecideInfer(s, ev) ==
    Require(s.phase = Active, "WrongPhase",
    Require("INFER" \in s.granted, "CapabilityRevoked",
    Require(s.op_budget # 0, "BudgetExhausted",
    Require(ev.disclosure_bits <= s.disclosure_budget_bits, "DisclosureBudgetExceeded",
    Require(SaturatingAdd(s.elapsed_secs, ev.declared_secs) <= s.deadline_secs,
            "DeadlineExceeded",
    Require(NewUncertainty(s, ev.uncertainty_score) <= s.autonomy_threshold,
            "UncertaintyTooHigh",
    Admit))))))

DecideCorrection(s, grant) ==
    Require(s.phase = Active, "WrongPhase",
    Require("HUMAN_INTERACTION" \in s.granted, "CapabilityRevoked",
    Require(Authorises(grant, s.correction_anchor), "CorrectionUnauthorized",
    Admit)))

\* The events checked only for phase and capability.
DecideIn(s, phases, capability) ==
    Require(s.phase \in phases, "WrongPhase",
    Require(capability \in s.granted, "CapabilityRevoked",
    Admit))

Decide(s, ev) ==
    CASE ev.type \in {"Erase", "WatchdogExpiry"} -> Admit
      [] ev.type = "MissionInit"      -> DecideIn(s, {Armed}, "MISSION_INIT")
      [] ev.type = "KeyReleased"      -> Require(s.phase = Active, "WrongPhase", Admit)
      [] ev.type = "Infer"            -> DecideInfer(s, ev)
      [] ev.type = "RequestHumanVeto" -> DecideIn(s, {Active}, "HUMAN_INTERACTION")
      [] ev.type = "HumanCorrection"  -> DecideCorrection(s, ev.grant)
      [] ev.type = "IdentityAttest"   -> DecideIn(s, {Active, Locked}, "IDENTITY_ATTEST")
      [] ev.type = "ErasureAttest"    -> DecideIn(s, {Locked, Erased}, "ERASURE_ATTEST")

\* Mutant: erasure forgets the capability that A6 added.
AfterEraseKeepsVeto(s) ==
    [s EXCEPT !.phase                  = Erased,
              !.granted                = @ \ {"MISSION_INIT", "INFER", "IDENTITY_ATTEST"},
              !.op_budget              = 0,
              !.disclosure_budget_bits = 0]

AfterErase(s) ==
    [s EXCEPT !.phase                  = Erased,
              !.granted                = @ \ {"MISSION_INIT", "INFER", "IDENTITY_ATTEST",
                                              "HUMAN_INTERACTION"},
              !.op_budget              = 0,
              !.disclosure_budget_bits = 0]

AfterMissionInit(s) ==
    [s EXCEPT !.phase = Active, !.granted = @ \ {"MISSION_INIT"}]

AfterKeyReleased(s) == [s EXCEPT !.phase = Locked]

\* Mutants: the high-water mark, or the operation, is not recorded.
AfterInferNoPeak(s, ev) ==
    [s EXCEPT !.op_budget              = @ - 1,
              !.disclosure_budget_bits = @ - ev.disclosure_bits,
              !.uncertainty_incurred   = SaturatingAdd(@, ev.uncertainty_score)]
AfterInferFree(s, ev) ==
    LET reached == NewUncertainty(s, ev.uncertainty_score)
    IN  [s EXCEPT
            !.disclosure_budget_bits = @ - ev.disclosure_bits,
            !.uncertainty_incurred   = SaturatingAdd(@, ev.uncertainty_score),
            !.peak_uncertainty       = IF reached > @ THEN reached ELSE @]

AfterInfer(s, ev) ==
    LET reached == NewUncertainty(s, ev.uncertainty_score)
    IN  [s EXCEPT
            !.op_budget              = @ - 1,
            !.disclosure_budget_bits = @ - ev.disclosure_bits,
            !.uncertainty_incurred   = SaturatingAdd(@, ev.uncertainty_score),
            !.peak_uncertainty       = IF reached > @ THEN reached ELSE @]

AfterCorrection(s, grant) ==
    [s EXCEPT !.uncertainty_resolved = SaturatingAdd(@, grant.amount),
              !.correction_anchor    = grant.next_anchor,
              !.corrections_consumed = SaturatingAdd(@, 1)]

Effect(s, ev) ==
    CASE ev.type \in {"Erase", "WatchdogExpiry"} -> AfterErase(s)
      [] ev.type = "MissionInit"     -> AfterMissionInit(s)
      [] ev.type = "KeyReleased"     -> AfterKeyReleased(s)
      [] ev.type = "Infer"           -> AfterInfer(s, ev)
      [] ev.type = "HumanCorrection" -> AfterCorrection(s, ev.grant)
      [] OTHER                       -> s

\* The successor step() returns; a denial returns the state it was given.
Step(s, ev) == IF Decide(s, ev) = Admit THEN Effect(s, ev) ELSE s

\* ContainmentState::precedes: A1-A3, the per-step form of A6, and A7.
Precedes(s, next) ==
    /\ next.granted \subseteq s.granted
    /\ next.op_budget <= s.op_budget
    /\ next.disclosure_budget_bits <= s.disclosure_budget_bits
    /\ next.phase >= s.phase
    /\ next.elapsed_secs >= s.elapsed_secs
    /\ next.deadline_secs = s.deadline_secs
    /\ next.uncertainty_incurred >= s.uncertainty_incurred
    /\ next.uncertainty_resolved >= s.uncertainty_resolved
    /\ next.peak_uncertainty >= s.peak_uncertainty
    /\ next.peak_uncertainty >= NetUncertainty(next)
    /\ next.autonomy_threshold = s.autonomy_threshold
    /\ next.corrections_consumed >= s.corrections_consumed
    /\ \/ next.correction_anchor = s.correction_anchor
       \/ next.corrections_consumed > s.corrections_consumed

\* What ContainmentLedger::admit stores: the successor, or, when it would leave
\* the lattice, the state it had.
Commit(s, ev) == IF Precedes(s, Step(s, ev)) THEN Step(s, ev) ELSE s

\* ContainmentState::with_elapsed: the clock never runs backwards.
WithElapsed(s, elapsed) ==
    [s EXCEPT !.elapsed_secs = IF elapsed > @ THEN elapsed ELSE @]

\* StateMachine::admit (chronos-agent/src/state.rs): push the clock reading in,
\* then arbitrate.
AdmitAt(s, elapsed, ev) == Commit(WithElapsed(s, elapsed), ev)
DecisionAt(s, elapsed, ev) == Decide(WithElapsed(s, elapsed), ev)

---------------------------------------------------------------------------
(* The summary the erasure proof binds (chronos-snark/src/circuit.rs).     *)

ExpectedFinalGranted == {"ERASURE_ATTEST"}

SatisfiesA6(s) ==
    s.uncertainty_incurred <= SaturatingAdd(s.uncertainty_resolved, s.autonomy_threshold)

SatisfiesA6PerStep(s) == s.peak_uncertainty <= s.autonomy_threshold

SatisfiesTerminalState(s) ==
    /\ s.phase = Erased
    /\ s.granted = ExpectedFinalGranted
    /\ s.op_budget = 0
    /\ s.disclosure_budget_bits = 0

IsTerminal(s) ==
    SatisfiesTerminalState(s) /\ SatisfiesA6(s) /\ SatisfiesA6PerStep(s)

---------------------------------------------------------------------------

\* What step() preserves of a state.  The erasure capability is needed for the
\* erased state to be attestable, and the peak dominating the net uncertainty
\* for precedes() to accept a step, a denial included.
Sound(s) ==
    /\ s \in ContainmentState
    /\ s.autonomy_threshold = AutonomyThreshold
    /\ NetUncertainty(s) <= s.peak_uncertainty
    /\ s.peak_uncertainty <= AutonomyThreshold
    /\ "ERASURE_ATTEST" \in s.granted
    /\ s.phase = Erased => SatisfiesTerminalState(s)

\* The anchor points into the provisioned chain, just past the grants spent.
AnchorOnChain(s) ==
    /\ s.corrections_consumed <= Len(Grants)
    /\ s.correction_anchor = AnchorAt(s.corrections_consumed + 1)
===========================================================================
