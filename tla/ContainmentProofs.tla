------------------------- MODULE ContainmentProofs -------------------------
(***************************************************************************)
(* What step() and admit() preserve of a state, for every mission: any     *)
(* parameters, any correction chain, any inputs, any u64 width; and what   *)
(* the startup check samples over {0, 1, 2}, for every u64 value.          *)
(***************************************************************************)
EXTENDS AxiomCheck, TLAPS

\* The fields that erasure and a change of phase leave alone.
SameClockAndDoubt(s, next) ==
    /\ next.elapsed_secs = s.elapsed_secs
    /\ next.deadline_secs = s.deadline_secs
    /\ next.uncertainty_incurred = s.uncertainty_incurred
    /\ next.uncertainty_resolved = s.uncertainty_resolved
    /\ next.peak_uncertainty = s.peak_uncertainty
    /\ next.autonomy_threshold = s.autonomy_threshold
    /\ next.correction_anchor = s.correction_anchor
    /\ next.corrections_consumed = s.corrections_consumed

\* Saturating arithmetic stays in u64; addition never lowers an operand and
\* subtraction never raises one.
LEMMA SaturatingBounds ==
    ASSUME NEW a \in U64, NEW b \in U64
    PROVE  /\ SaturatingAdd(a, b) \in U64
           /\ SaturatingSub(a, b) \in U64
           /\ SaturatingAdd(a, b) >= a
           /\ SaturatingAdd(a, b) >= b
  BY WidthAssumption DEF SaturatingAdd, SaturatingSub, U64

\* What Infer adds to the incurred total never raises the net uncertainty above
\* the figure the A6 check cleared, saturated or not.
LEMMA NetAfterInfer ==
    ASSUME NEW incurred \in U64, NEW resolved \in U64, NEW score \in U64
    PROVE  SaturatingSub(SaturatingAdd(incurred, score), resolved)
             <= SaturatingAdd(SaturatingSub(incurred, resolved), score)
  BY WidthAssumption DEF SaturatingAdd, SaturatingSub, U64

\* Resolving more uncertainty never raises the net.
LEMMA NetAfterCorrection ==
    ASSUME NEW incurred \in U64, NEW resolved \in U64, NEW amount \in U64
    PROVE  SaturatingSub(incurred, SaturatingAdd(resolved, amount))
             <= SaturatingSub(incurred, resolved)
  BY WidthAssumption DEF SaturatingAdd, SaturatingSub, U64

\* A state precedes itself once its peak dominates its net: every denial and
\* every event without effect commits.
LEMMA SoundPrecedesItself ==
    ASSUME NEW s, Sound(s)
    PROVE  Precedes(s, s)
  BY DEF Sound, Precedes, ContainmentState, U64, Armed, Erased

\* Erasure stays in the lattice and leaves an attestable state behind.
LEMMA EraseSound ==
    ASSUME NEW s, Sound(s)
    PROVE  Precedes(s, AfterErase(s)) /\ Sound(AfterErase(s))
PROOF
  <1> DEFINE next == AfterErase(s)
  <1>1. s \in ContainmentState /\ 0 \in U64
    BY WidthAssumption DEF Sound, U64
  <1>2. /\ next.phase = Erased
        /\ next.granted = s.granted \ {"MISSION_INIT", "INFER", "IDENTITY_ATTEST",
                                       "HUMAN_INTERACTION"}
        /\ next.op_budget = 0
        /\ next.disclosure_budget_bits = 0
        /\ SameClockAndDoubt(s, next)
    BY <1>1 DEF AfterErase, ContainmentState, SameClockAndDoubt
  <1>3. next \in ContainmentState
    <2>1. Erased \in Armed .. Erased
      BY DEF Armed, Erased
    <2> QED BY <1>1, <2>1 DEF AfterErase, ContainmentState
  <1>4. next.granted = ExpectedFinalGranted
    <2>1. "ERASURE_ATTEST" \in s.granted /\ s.granted \subseteq Capabilities
      BY <1>1 DEF Sound, ContainmentState
    <2> QED BY <1>2, <2>1 DEF ExpectedFinalGranted, Capabilities
  <1> HIDE DEF next
  <1>5. next.granted \subseteq s.granted
    BY <1>2
  <1>6. Precedes(s, next) /\ NetUncertainty(next) = NetUncertainty(s)
    BY <1>1, <1>2, <1>5
    DEF Sound, Precedes, SameClockAndDoubt, NetUncertainty, ContainmentState, U64,
        Armed, Erased
  <1>7. Sound(next)
    BY <1>2, <1>3, <1>4, <1>6
    DEF Sound, SameClockAndDoubt, SatisfiesTerminalState, ExpectedFinalGranted
  <1> QED BY <1>6, <1>7 DEF next

\* A phase change and a revocation: MissionInit and KeyReleased.
LEMMA AscentSound ==
    ASSUME NEW s, Sound(s), NEW next \in ContainmentState,
           SameClockAndDoubt(s, next),
           next.op_budget = s.op_budget,
           next.disclosure_budget_bits = s.disclosure_budget_bits,
           next.granted \subseteq s.granted,
           "ERASURE_ATTEST" \in next.granted,
           s.phase <= next.phase, next.phase # Erased
    PROVE  Precedes(s, next) /\ Sound(next)
PROOF
  <1>1. s \in ContainmentState
    BY DEF Sound
  <1>2. Precedes(s, next) /\ NetUncertainty(next) = NetUncertainty(s)
    BY <1>1
    DEF Sound, Precedes, SameClockAndDoubt, NetUncertainty, ContainmentState, U64,
        Armed, Erased
  <1> QED BY <1>2 DEF Sound, SameClockAndDoubt

\* Starting the mission stays in the lattice and keeps the state sound.
LEMMA MissionInitSound ==
    ASSUME NEW s, Sound(s), s.phase = Armed
    PROVE  Precedes(s, AfterMissionInit(s)) /\ Sound(AfterMissionInit(s))
PROOF
  <1> DEFINE next == AfterMissionInit(s)
  <1>1. s \in ContainmentState /\ Active \in Armed .. Erased
    BY DEF Sound, Armed, Active, Erased
  <1>2. next \in ContainmentState
    BY <1>1 DEF AfterMissionInit, ContainmentState
  <1>3. /\ SameClockAndDoubt(s, next)
        /\ next.op_budget = s.op_budget
        /\ next.disclosure_budget_bits = s.disclosure_budget_bits
        /\ next.granted = s.granted \ {"MISSION_INIT"}
        /\ next.phase = Active
    BY <1>1 DEF AfterMissionInit, ContainmentState, SameClockAndDoubt
  <1>4. "ERASURE_ATTEST" \in next.granted /\ next.granted \subseteq s.granted
    BY <1>3 DEF Sound
  <1> HIDE DEF next
  <1>5. s.phase <= next.phase /\ next.phase # Erased
    BY <1>3 DEF Armed, Active, Erased
  <1>6. Precedes(s, next) /\ Sound(next)
    BY <1>2, <1>3, <1>4, <1>5, AscentSound
  <1> QED BY <1>6 DEF next

\* Releasing the key stays in the lattice and keeps the state sound.
LEMMA KeyReleasedSound ==
    ASSUME NEW s, Sound(s), s.phase = Active
    PROVE  Precedes(s, AfterKeyReleased(s)) /\ Sound(AfterKeyReleased(s))
PROOF
  <1> DEFINE next == AfterKeyReleased(s)
  <1>1. s \in ContainmentState /\ Locked \in Armed .. Erased
    BY DEF Sound, Armed, Locked, Erased
  <1>2. next \in ContainmentState
    BY <1>1 DEF AfterKeyReleased, ContainmentState
  <1>3. /\ SameClockAndDoubt(s, next)
        /\ next.op_budget = s.op_budget
        /\ next.disclosure_budget_bits = s.disclosure_budget_bits
        /\ next.granted = s.granted
        /\ next.phase = Locked
    BY <1>1 DEF AfterKeyReleased, ContainmentState, SameClockAndDoubt
  <1> HIDE DEF next
  <1>4. s.phase <= next.phase /\ next.phase # Erased
    BY <1>3 DEF Active, Locked, Erased
  <1>5. Precedes(s, next) /\ Sound(next)
    BY <1>2, <1>3, <1>4, AscentSound DEF Sound
  <1> QED BY <1>5 DEF next

\* An admitted inference stays in the lattice and keeps the state sound.
LEMMA InferSound ==
    ASSUME NEW s, Sound(s), NEW ev \in InferEvent, DecideInfer(s, ev) = Admit
    PROVE  Precedes(s, AfterInfer(s, ev)) /\ Sound(AfterInfer(s, ev))
PROOF
  <1> DEFINE next == AfterInfer(s, ev)
  <1>1. /\ s.phase = Active
        /\ s.op_budget # 0
        /\ ev.disclosure_bits <= s.disclosure_budget_bits
        /\ NewUncertainty(s, ev.uncertainty_score) <= AutonomyThreshold
    BY DEF DecideInfer, Require, Admit, Sound
  <1>2. s \in ContainmentState /\ ev.disclosure_bits \in U64
        /\ ev.uncertainty_score \in U64
    BY DEF Sound, InferEvent
  <1>3. /\ NetUncertainty(s) \in U64
        /\ NewUncertainty(s, ev.uncertainty_score) \in U64
        /\ SaturatingAdd(s.uncertainty_incurred, ev.uncertainty_score) \in U64
        /\ SaturatingAdd(s.uncertainty_incurred, ev.uncertainty_score)
             >= s.uncertainty_incurred
    BY <1>2, SaturatingBounds DEF NetUncertainty, NewUncertainty, ContainmentState
  <1>4. SaturatingSub(SaturatingAdd(s.uncertainty_incurred, ev.uncertainty_score),
                      s.uncertainty_resolved)
          <= NewUncertainty(s, ev.uncertainty_score)
    BY <1>2, NetAfterInfer DEF NetUncertainty, NewUncertainty, ContainmentState
  <1>5. next \in ContainmentState
    <2>1. /\ s.op_budget - 1 \in U64
          /\ s.disclosure_budget_bits - ev.disclosure_bits \in U64
      BY <1>1, <1>2, WidthAssumption DEF ContainmentState, U64
    <2> QED BY <1>2, <1>3, <2>1 DEF AfterInfer, ContainmentState
  <1>6. /\ next.phase = s.phase
        /\ next.granted = s.granted
        /\ next.op_budget = s.op_budget - 1
        /\ next.disclosure_budget_bits = s.disclosure_budget_bits - ev.disclosure_bits
        /\ next.elapsed_secs = s.elapsed_secs
        /\ next.deadline_secs = s.deadline_secs
        /\ next.uncertainty_incurred
             = SaturatingAdd(s.uncertainty_incurred, ev.uncertainty_score)
        /\ next.uncertainty_resolved = s.uncertainty_resolved
        /\ next.peak_uncertainty
             = IF NewUncertainty(s, ev.uncertainty_score) > s.peak_uncertainty
               THEN NewUncertainty(s, ev.uncertainty_score) ELSE s.peak_uncertainty
        /\ next.autonomy_threshold = s.autonomy_threshold
        /\ next.correction_anchor = s.correction_anchor
        /\ next.corrections_consumed = s.corrections_consumed
    BY <1>2 DEF AfterInfer, ContainmentState
  <1>7. NetUncertainty(next) = SaturatingSub(
            SaturatingAdd(s.uncertainty_incurred, ev.uncertainty_score),
            s.uncertainty_resolved)
    BY <1>6 DEF NetUncertainty
  <1>8. NetUncertainty(next) \in U64
    BY <1>2, <1>3, <1>7, SaturatingBounds DEF ContainmentState
  <1>9. /\ NetUncertainty(next) <= next.peak_uncertainty
        /\ next.peak_uncertainty >= s.peak_uncertainty
        /\ next.peak_uncertainty <= AutonomyThreshold
    BY <1>1, <1>2, <1>3, <1>4, <1>6, <1>7, <1>8, ParameterAssumption
    DEF Sound, ContainmentState, U64
  <1> HIDE DEF next
  <1>10. Precedes(s, next)
    BY <1>2, <1>3, <1>5, <1>6, <1>8, <1>9 DEF Precedes, ContainmentState, U64, Armed, Erased
  <1>11. Sound(next)
    BY <1>1, <1>5, <1>6, <1>9 DEF Sound, Active, Erased
  <1> QED BY <1>10, <1>11 DEF next

\* A correction stays in the lattice and keeps the state sound.
LEMMA CorrectionSound ==
    ASSUME NEW s, Sound(s), NEW grant \in CorrectionGrant, s.phase = Active,
           s.corrections_consumed < U64Max
    PROVE  Precedes(s, AfterCorrection(s, grant)) /\ Sound(AfterCorrection(s, grant))
PROOF
  <1> DEFINE next == AfterCorrection(s, grant)
  <1>1. s \in ContainmentState /\ grant.amount \in U64 /\ grant.next_anchor \in Digest
    BY DEF Sound, CorrectionGrant
  <1>2. /\ SaturatingAdd(s.uncertainty_resolved, grant.amount) \in U64
        /\ SaturatingAdd(s.uncertainty_resolved, grant.amount) >= s.uncertainty_resolved
        /\ SaturatingAdd(s.corrections_consumed, 1) = s.corrections_consumed + 1
        /\ SaturatingAdd(s.corrections_consumed, 1) \in U64
    <2>1. SaturatingAdd(s.corrections_consumed, 1) = s.corrections_consumed + 1
      BY <1>1, WidthAssumption DEF SaturatingAdd, ContainmentState, U64
    <2>2. s.corrections_consumed + 1 \in U64
      BY <1>1, WidthAssumption DEF ContainmentState, U64
    <2> QED BY <1>1, <2>1, <2>2, SaturatingBounds DEF ContainmentState
  <1>3. SaturatingSub(s.uncertainty_incurred,
                      SaturatingAdd(s.uncertainty_resolved, grant.amount))
          <= NetUncertainty(s)
    BY <1>1, NetAfterCorrection DEF NetUncertainty, ContainmentState
  <1>4. next \in ContainmentState
    BY <1>1, <1>2 DEF AfterCorrection, ContainmentState
  <1>5. /\ next.phase = s.phase
        /\ next.granted = s.granted
        /\ next.op_budget = s.op_budget
        /\ next.disclosure_budget_bits = s.disclosure_budget_bits
        /\ next.elapsed_secs = s.elapsed_secs
        /\ next.deadline_secs = s.deadline_secs
        /\ next.uncertainty_incurred = s.uncertainty_incurred
        /\ next.uncertainty_resolved
             = SaturatingAdd(s.uncertainty_resolved, grant.amount)
        /\ next.peak_uncertainty = s.peak_uncertainty
        /\ next.autonomy_threshold = s.autonomy_threshold
        /\ next.corrections_consumed = s.corrections_consumed + 1
    BY <1>1, <1>2 DEF AfterCorrection, ContainmentState
  <1>6. NetUncertainty(next) <= next.peak_uncertainty
    <2>1. NetUncertainty(next) = SaturatingSub(s.uncertainty_incurred,
                      SaturatingAdd(s.uncertainty_resolved, grant.amount))
      BY <1>5 DEF NetUncertainty
    <2>2. NetUncertainty(next) \in U64 /\ NetUncertainty(s) \in U64
      BY <1>1, <1>2, <2>1, SaturatingBounds DEF NetUncertainty, ContainmentState
    <2>3. NetUncertainty(s) <= s.peak_uncertainty /\ s.peak_uncertainty \in U64
      BY DEF Sound, ContainmentState
    <2> QED BY <1>3, <1>5, <2>1, <2>2, <2>3 DEF U64
  <1> HIDE DEF next
  <1>7. Precedes(s, next)
    BY <1>1, <1>2, <1>4, <1>5, <1>6 DEF Precedes, ContainmentState, U64, Armed, Erased
  <1>8. Sound(next)
    BY <1>4, <1>5, <1>6 DEF Sound, Active, Erased
  <1> QED BY <1>7, <1>8 DEF next

---------------------------------------------------------------------------
(* The correction chain.                                                   *)

\* A grant that authorises is the next one of the provisioned chain, whole: its
\* token, its amount and its next anchor.
LEMMA AuthorisedIsNext ==
    ASSUME NEW s, AnchorOnChain(s), NEW grant \in CorrectionGrant,
           Authorises(grant, s.correction_anchor)
    PROVE  LET i == s.corrections_consumed + 1
           IN  /\ i \in 1 .. Len(Grants)
               /\ grant.token = Grants[i].token
               /\ grant.amount = Grants[i].amount
               /\ grant.next_anchor = AnchorAt(i + 1)
PROOF
  <1> DEFINE i == s.corrections_consumed + 1
  <1>1. s.correction_anchor = AnchorAt(i)
    BY DEF AnchorOnChain
  <1>2. AnchorAt(i) # CHAIN_END /\ Link(grant) = AnchorAt(i)
    BY <1>1 DEF Authorises
  <1>3. i \in 1 .. Len(Grants) /\ AnchorAt(i) = Link(Grants[i])
    BY <1>2 DEF AnchorAt
  <1>4. /\ grant.token = Grants[i].token
        /\ grant.amount = Grants[i].amount
        /\ grant.next_anchor = Grants[i].next_anchor
    BY <1>2, <1>3 DEF Link
  <1>5. Grants[i].next_anchor = AnchorAt(i + 1)
    BY <1>3, ChainAssumption
  <1> QED BY <1>3, <1>4, <1>5

\* Spending a grant advances the count by one and the anchor by one link, and
\* resolves the grant's amount; no other event touches any of them.
LEMMA ChainStep ==
    ASSUME NEW s, Sound(s), AnchorOnChain(s), NEW ev \in Event
    PROVE  /\ AnchorOnChain(Step(s, ev))
           /\ \/ /\ Step(s, ev).corrections_consumed = s.corrections_consumed
                 /\ Step(s, ev).uncertainty_resolved = s.uncertainty_resolved
              \/ /\ ev.type = "HumanCorrection"
                 /\ Authorises(ev.grant, s.correction_anchor)
                 /\ Step(s, ev).corrections_consumed = s.corrections_consumed + 1
                 /\ Step(s, ev).uncertainty_resolved
                      = SaturatingAdd(s.uncertainty_resolved, ev.grant.amount)
PROOF
  <1>0. s \in ContainmentState /\ Len(Grants) \in Nat /\ Len(Grants) <= U64Max
    BY ChainAssumption DEF Sound
  <1>1. CASE Decide(s, ev) # Admit \/ ev.type # "HumanCorrection"
    <2>1. /\ Step(s, ev).corrections_consumed = s.corrections_consumed
          /\ Step(s, ev).correction_anchor = s.correction_anchor
          /\ Step(s, ev).uncertainty_resolved = s.uncertainty_resolved
      BY <1>0, <1>1 DEF Step, Effect, AfterErase, AfterMissionInit, AfterKeyReleased,
                        AfterInfer, ContainmentState
    <2> QED BY <2>1 DEF AnchorOnChain
  <1>2. CASE Decide(s, ev) = Admit /\ ev.type = "HumanCorrection"
    <2> DEFINE i == s.corrections_consumed + 1
    <2>1. ev.grant \in CorrectionGrant
      BY <1>2 DEF Event, PlainEvent, InferEvent, CorrectionEvent
    <2>2. Authorises(ev.grant, s.correction_anchor)
      BY <1>2 DEF Decide, DecideCorrection, Require, Admit
    <2>3. i \in 1 .. Len(Grants) /\ ev.grant.next_anchor = AnchorAt(i + 1)
      BY <2>1, <2>2, AuthorisedIsNext
    <2>4. Step(s, ev) = AfterCorrection(s, ev.grant)
      BY <1>2 DEF Step, Effect
    <2>5. /\ Step(s, ev).correction_anchor = ev.grant.next_anchor
          /\ Step(s, ev).corrections_consumed = SaturatingAdd(s.corrections_consumed, 1)
          /\ Step(s, ev).uncertainty_resolved
               = SaturatingAdd(s.uncertainty_resolved, ev.grant.amount)
      BY <1>0, <2>4 DEF AfterCorrection, ContainmentState
    <2>6. s.corrections_consumed \in Nat
      BY <1>0, WidthAssumption DEF ContainmentState, U64
    <2>7. SaturatingAdd(s.corrections_consumed, 1) = i
      BY <1>0, <2>3, <2>6, WidthAssumption DEF SaturatingAdd
    <2> QED BY <2>2, <2>3, <2>5, <2>6, <2>7, <1>0, <1>2 DEF AnchorOnChain
  <1> QED BY <1>1, <1>2

---------------------------------------------------------------------------
(* Arbitration.                                                            *)

\* Whatever the event, step() stays in the lattice and keeps the state sound.
LEMMA StepSound ==
    ASSUME NEW s, Sound(s), AnchorOnChain(s), NEW ev \in Event
    PROVE  Precedes(s, Step(s, ev)) /\ Sound(Step(s, ev))
PROOF
  <1>0. Precedes(s, s)
    BY SoundPrecedesItself
  <1>1. CASE Decide(s, ev) # Admit
    BY <1>0, <1>1 DEF Step
  <1>2. CASE Decide(s, ev) = Admit
    <2>0. Step(s, ev) = Effect(s, ev)
      BY <1>2 DEF Step
    <2>1. CASE ev.type \in {"Erase", "WatchdogExpiry"}
      BY <2>0, <2>1, EraseSound DEF Effect
    <2>2. CASE ev.type = "MissionInit"
      <3>1. s.phase = Armed
        BY <1>2, <2>2 DEF Decide, DecideIn, Require, Admit
      <3> QED BY <2>0, <2>2, <3>1, MissionInitSound DEF Effect
    <2>3. CASE ev.type = "KeyReleased"
      <3>1. s.phase = Active
        BY <1>2, <2>3 DEF Decide, Require, Admit
      <3> QED BY <2>0, <2>3, <3>1, KeyReleasedSound DEF Effect
    <2>4. CASE ev.type = "Infer"
      <3>1. ev \in InferEvent
        BY <2>4 DEF Event, PlainEvent, InferEvent, CorrectionEvent
      <3>2. DecideInfer(s, ev) = Admit
        BY <1>2, <2>4 DEF Decide
      <3> QED BY <2>0, <2>4, <3>1, <3>2, InferSound DEF Effect
    <2>5. CASE ev.type = "HumanCorrection"
      <3>1. ev.grant \in CorrectionGrant
        BY <2>5 DEF Event, PlainEvent, InferEvent, CorrectionEvent
      <3>2. DecideCorrection(s, ev.grant) = Admit
        BY <1>2, <2>5 DEF Decide
      <3>3. s.phase = Active /\ Authorises(ev.grant, s.correction_anchor)
        BY <3>2 DEF DecideCorrection, Require, Admit
      <3>4. s.corrections_consumed + 1 \in 1 .. Len(Grants)
        BY <3>1, <3>3, AuthorisedIsNext
      <3>5. s.corrections_consumed < U64Max
        <4>1. s.corrections_consumed \in Nat
          BY WidthAssumption DEF Sound, ContainmentState, U64
        <4> QED BY <3>4, <4>1, ChainAssumption, WidthAssumption
      <3> QED BY <2>0, <2>5, <3>1, <3>3, <3>5, CorrectionSound DEF Effect
    <2>6. CASE ev.type \in {"RequestHumanVeto", "IdentityAttest", "ErasureAttest"}
      BY <1>0, <2>0, <2>6 DEF Effect
    <2>7. ev.type \in {"Erase", "WatchdogExpiry", "MissionInit", "KeyReleased", "Infer",
                      "HumanCorrection", "RequestHumanVeto", "IdentityAttest",
                      "ErasureAttest"}
      BY DEF Event, PlainEvent, InferEvent, CorrectionEvent
    <2> QED BY <2>1, <2>2, <2>3, <2>4, <2>5, <2>6, <2>7
  <1> QED BY <1>1, <1>2

\* A reading of the clock, early or late, changes nothing but elapsed_secs.
LEMMA WithElapsedSound ==
    ASSUME NEW s, Sound(s), AnchorOnChain(s), NEW elapsed \in U64
    PROVE  LET next == WithElapsed(s, elapsed)
           IN  /\ Sound(next)
               /\ AnchorOnChain(next)
               /\ next.corrections_consumed = s.corrections_consumed
               /\ next.correction_anchor = s.correction_anchor
               /\ next.uncertainty_resolved = s.uncertainty_resolved
PROOF
  <1> DEFINE next == WithElapsed(s, elapsed)
  <1>1. s \in ContainmentState
    BY DEF Sound
  <1>2. next \in ContainmentState
    BY <1>1 DEF WithElapsed, ContainmentState
  <1>3. /\ next.phase = s.phase
        /\ next.granted = s.granted
        /\ next.op_budget = s.op_budget
        /\ next.disclosure_budget_bits = s.disclosure_budget_bits
        /\ next.uncertainty_incurred = s.uncertainty_incurred
        /\ next.uncertainty_resolved = s.uncertainty_resolved
        /\ next.peak_uncertainty = s.peak_uncertainty
        /\ next.autonomy_threshold = s.autonomy_threshold
        /\ next.correction_anchor = s.correction_anchor
        /\ next.corrections_consumed = s.corrections_consumed
    BY <1>1 DEF WithElapsed, ContainmentState
  <1>4. Sound(next)
    BY <1>2, <1>3 DEF Sound, NetUncertainty, SatisfiesTerminalState
  <1>5. AnchorOnChain(next)
    BY <1>3 DEF AnchorOnChain
  <1> QED BY <1>3, <1>4, <1>5

\* One call of admit(): it commits the step, keeps the state sound and spends at
\* most the next grant of the chain.
LEMMA AdmitSound ==
    ASSUME NEW s, Sound(s), AnchorOnChain(s), NEW elapsed \in U64, NEW ev \in Event
    PROVE  /\ AdmitAt(s, elapsed, ev) = Step(WithElapsed(s, elapsed), ev)
           /\ Sound(AdmitAt(s, elapsed, ev))
           /\ AnchorOnChain(AdmitAt(s, elapsed, ev))
           /\ \/ /\ AdmitAt(s, elapsed, ev).corrections_consumed = s.corrections_consumed
                 /\ AdmitAt(s, elapsed, ev).uncertainty_resolved = s.uncertainty_resolved
              \/ /\ ev.type = "HumanCorrection"
                 /\ Authorises(ev.grant, s.correction_anchor)
                 /\ AdmitAt(s, elapsed, ev).corrections_consumed
                      = s.corrections_consumed + 1
                 /\ AdmitAt(s, elapsed, ev).uncertainty_resolved
                      = SaturatingAdd(s.uncertainty_resolved, ev.grant.amount)
PROOF
  <1> DEFINE now == WithElapsed(s, elapsed)
  <1>1. /\ Sound(now) /\ AnchorOnChain(now)
        /\ now.corrections_consumed = s.corrections_consumed
        /\ now.correction_anchor = s.correction_anchor
        /\ now.uncertainty_resolved = s.uncertainty_resolved
    BY WithElapsedSound
  <1> HIDE DEF now
  <1>2. Precedes(now, Step(now, ev)) /\ Sound(Step(now, ev))
    BY <1>1, StepSound
  <1>3. /\ AnchorOnChain(Step(now, ev))
        /\ \/ /\ Step(now, ev).corrections_consumed = now.corrections_consumed
              /\ Step(now, ev).uncertainty_resolved = now.uncertainty_resolved
           \/ /\ ev.type = "HumanCorrection"
              /\ Authorises(ev.grant, now.correction_anchor)
              /\ Step(now, ev).corrections_consumed = now.corrections_consumed + 1
              /\ Step(now, ev).uncertainty_resolved
                   = SaturatingAdd(now.uncertainty_resolved, ev.grant.amount)
    BY <1>1, ChainStep
  <1>4. AdmitAt(s, elapsed, ev) = Step(now, ev)
    BY <1>2 DEF AdmitAt, Commit, now
  <1> QED BY <1>1, <1>2, <1>3, <1>4 DEF now

\* A sound state satisfies both A6 predicates of the circuit, saturation included.
LEMMA SoundSatisfiesA6 ==
    ASSUME NEW s, Sound(s)
    PROVE  SatisfiesA6(s) /\ SatisfiesA6PerStep(s)
PROOF
  <1>1. /\ s.uncertainty_incurred \in U64
        /\ s.uncertainty_resolved \in U64
        /\ s.peak_uncertainty \in U64
        /\ AutonomyThreshold \in U64
        /\ s.autonomy_threshold = AutonomyThreshold
        /\ NetUncertainty(s) <= s.peak_uncertainty
        /\ s.peak_uncertainty <= AutonomyThreshold
    BY ParameterAssumption DEF Sound, ContainmentState
  <1>2. SatisfiesA6(s)
    BY <1>1, WidthAssumption DEF SatisfiesA6, NetUncertainty, SaturatingSub, SaturatingAdd, U64
  <1> QED BY <1>1, <1>2 DEF SatisfiesA6PerStep

\* A freshly provisioned state is sound and its anchor heads the chain.
LEMMA NewStateSound == Sound(NewState) /\ AnchorOnChain(NewState)
PROOF
  <1>1. 0 \in U64 /\ Armed \in Armed .. Erased
    BY WidthAssumption DEF U64, Armed, Erased
  <1>2. NewState \in ContainmentState
    BY <1>1, ParameterAssumption, ChainAssumption DEF NewState, ContainmentState
  <1>3. NetUncertainty(NewState) = 0
    BY DEF NewState, NetUncertainty, SaturatingSub
  <1>4. Sound(NewState)
    BY <1>2, <1>3, ParameterAssumption DEF Sound, NewState, Capabilities, Armed, Erased, U64
  <1>5. AnchorOnChain(NewState)
    BY ChainAssumption DEF AnchorOnChain, NewState
  <1> QED BY <1>4, <1>5

---------------------------------------------------------------------------
(* A transition of step() from any state whatever satisfies A1 to A7.      *)

\* The axioms in terms of the successor alone, for an event that neither infers
\* nor resolves.
Decays(s, next) ==
    /\ next \in ContainmentState
    /\ next.granted \subseteq s.granted
    /\ next.op_budget <= s.op_budget
    /\ next.disclosure_budget_bits <= s.disclosure_budget_bits
    /\ next.phase >= s.phase
    /\ SameClockAndDoubt(s, next)

\* A5 needs nothing of the state it starts from.
LEMMA EraseIsAlwaysPossible ==
    ASSUME NEW s \in ContainmentState
    PROVE  LET erase == [type |-> "Erase"]
           IN  Decide(s, erase) = Admit /\ Step(s, erase).phase = Erased
  BY DEF Decide, Step, Effect, AfterErase, ContainmentState

\* Denials, erasure, a change of phase and the events without effect.
LEMMA DecaySatisfiesAxioms ==
    ASSUME NEW s \in ContainmentState, NEW ev \in Event, Decays(s, Step(s, ev)),
           Decide(s, ev) # Admit \/ ev.type \notin {"Infer", "HumanCorrection"}
    PROVE  AxiomsHold(s, ev)
PROOF
  <1> DEFINE next == Step(s, ev)
  <1>1. next \in ContainmentState /\ SameClockAndDoubt(s, next)
    BY DEF Decays
  <1>2. A5(s, ev)
    BY <1>1, EraseIsAlwaysPossible DEF A5
  <1>3. A1(s, ev) /\ A3(s, ev)
    BY DEF A1, A3, Decays
  <1>4. A2(s, ev)
    BY <1>1 DEF A2, Decays, SameClockAndDoubt, ContainmentState, U64
  <1>5. A4(s, ev)
    BY DEF A4
  <1>6. NetUncertainty(next) = NetUncertainty(s)
    BY <1>1 DEF SameClockAndDoubt, NetUncertainty
  <1>7. A6(s, ev)
    BY <1>1, <1>6 DEF A6, SameClockAndDoubt
  <1>8. A7(s, ev)
    <2>1. ~(next.uncertainty_resolved > s.uncertainty_resolved)
      BY <1>1 DEF SameClockAndDoubt, ContainmentState, U64
    <2> QED BY <2>1 DEF A7
  <1> QED BY <1>2, <1>3, <1>4, <1>5, <1>7, <1>8 DEF AxiomsHold

\* An admitted inference, from any state.
LEMMA InferSatisfiesAxioms ==
    ASSUME NEW s \in ContainmentState, NEW ev \in InferEvent, Decide(s, ev) = Admit
    PROVE  AxiomsHold(s, ev)
PROOF
  <1> DEFINE next    == AfterInfer(s, ev)
             reached == NewUncertainty(s, ev.uncertainty_score)
  <1>0. /\ ev.type = "Infer" /\ DecideInfer(s, ev) = Admit /\ Step(s, ev) = next
        /\ ev.disclosure_bits \in U64 /\ ev.uncertainty_score \in U64
    BY DEF InferEvent, Decide, Step, Effect
  <1>1. /\ s.op_budget # 0
        /\ ev.disclosure_bits <= s.disclosure_budget_bits
        /\ SaturatingAdd(s.elapsed_secs, ev.declared_secs) <= s.deadline_secs
        /\ reached <= s.autonomy_threshold
    BY <1>0 DEF DecideInfer, Require, Admit
  <1>2. /\ NetUncertainty(s) \in U64
        /\ reached \in U64
        /\ SaturatingAdd(s.uncertainty_incurred, ev.uncertainty_score) \in U64
        /\ SaturatingAdd(s.uncertainty_incurred, ev.uncertainty_score)
             >= s.uncertainty_incurred
    BY <1>0, SaturatingBounds DEF NetUncertainty, NewUncertainty, ContainmentState
  <1>3. next \in ContainmentState
    <2>1. /\ s.op_budget - 1 \in U64
          /\ s.disclosure_budget_bits - ev.disclosure_bits \in U64
      BY <1>0, <1>1, WidthAssumption DEF ContainmentState, U64
    <2> QED BY <1>2, <2>1 DEF AfterInfer, ContainmentState
  <1>4. /\ next.phase = s.phase
        /\ next.granted = s.granted
        /\ next.op_budget = s.op_budget - 1
        /\ next.disclosure_budget_bits = s.disclosure_budget_bits - ev.disclosure_bits
        /\ next.uncertainty_incurred
             = SaturatingAdd(s.uncertainty_incurred, ev.uncertainty_score)
        /\ next.uncertainty_resolved = s.uncertainty_resolved
        /\ next.peak_uncertainty
             = IF reached > s.peak_uncertainty THEN reached ELSE s.peak_uncertainty
        /\ next.autonomy_threshold = s.autonomy_threshold
    BY DEF AfterInfer, ContainmentState
  <1>5. NetUncertainty(next) \in U64 /\ NetUncertainty(next) <= reached
    BY <1>0, <1>2, <1>4, NetAfterInfer, SaturatingBounds
    DEF NetUncertainty, NewUncertainty, ContainmentState
  <1>6. /\ s.op_budget \in U64 /\ s.disclosure_budget_bits \in U64
        /\ s.uncertainty_resolved \in U64 /\ s.peak_uncertainty \in U64
        /\ s.autonomy_threshold \in U64 /\ s.phase \in 0 .. 3
    BY DEF ContainmentState, Armed, Erased
  <1> HIDE DEF next, reached
  <1>7. A1(s, ev) /\ A3(s, ev) /\ A4(s, ev)
    BY <1>0, <1>1, <1>4, <1>6 DEF A1, A3, A4
  <1>8. A2(s, ev)
    BY <1>0, <1>1, <1>2, <1>4, <1>6 DEF A2, U64
  <1>9. A5(s, ev)
    BY <1>0, <1>3, EraseIsAlwaysPossible DEF A5
  <1>10. A6(s, ev)
    <2>1. NetUncertainty(next) <= next.autonomy_threshold
      BY <1>1, <1>2, <1>4, <1>5, <1>6 DEF U64
    <2>2. next.peak_uncertainty >= NetUncertainty(next)
      BY <1>2, <1>4, <1>5, <1>6 DEF U64
    <2>3. s.peak_uncertainty <= s.autonomy_threshold
            => next.peak_uncertainty <= next.autonomy_threshold
      BY <1>1, <1>4
    <2> QED BY <1>0, <2>1, <2>2, <2>3 DEF A6
  <1>11. A7(s, ev)
    <2>1. ~(next.uncertainty_resolved > s.uncertainty_resolved)
      BY <1>4, <1>6 DEF U64
    <2> QED BY <1>0, <2>1 DEF A7
  <1> QED BY <1>7, <1>8, <1>9, <1>10, <1>11 DEF AxiomsHold

\* An admitted correction, from any state with a grant left to count.
LEMMA CorrectionSatisfiesAxioms ==
    ASSUME NEW s \in ContainmentState, NEW ev \in CorrectionEvent, Decide(s, ev) = Admit,
           s.corrections_consumed < U64Max
    PROVE  AxiomsHold(s, ev)
PROOF
  <1> DEFINE next == AfterCorrection(s, ev.grant)
  <1>0. /\ ev.type = "HumanCorrection" /\ ev.grant \in CorrectionGrant
        /\ Authorises(ev.grant, s.correction_anchor) /\ Step(s, ev) = next
    BY DEF CorrectionEvent, Decide, DecideCorrection, Require, Admit, Step, Effect
  <1>1. ev.grant.amount \in U64 /\ ev.grant.next_anchor \in Digest
    BY <1>0 DEF CorrectionGrant
  <1>2. /\ s.op_budget \in U64 /\ s.disclosure_budget_bits \in U64
        /\ s.uncertainty_incurred \in U64 /\ s.uncertainty_resolved \in U64
        /\ s.peak_uncertainty \in U64 /\ s.corrections_consumed \in U64
        /\ s.phase \in 0 .. 3
    BY DEF ContainmentState, Armed, Erased
  <1>3. /\ SaturatingAdd(s.uncertainty_resolved, ev.grant.amount) \in U64
        /\ SaturatingAdd(s.uncertainty_resolved, ev.grant.amount) >= s.uncertainty_resolved
        /\ SaturatingAdd(s.corrections_consumed, 1) \in U64
        /\ SaturatingAdd(s.corrections_consumed, 1) > s.corrections_consumed
    <2>1. /\ SaturatingAdd(s.corrections_consumed, 1) = s.corrections_consumed + 1
          /\ s.corrections_consumed + 1 \in U64
          /\ s.corrections_consumed + 1 > s.corrections_consumed
      BY <1>2, WidthAssumption DEF SaturatingAdd, U64
    <2>2. /\ SaturatingAdd(s.uncertainty_resolved, ev.grant.amount) \in U64
          /\ SaturatingAdd(s.uncertainty_resolved, ev.grant.amount)
               >= s.uncertainty_resolved
      BY <1>1, <1>2, SaturatingBounds
    <2> QED BY <2>1, <2>2
  <1>4. next \in ContainmentState
    BY <1>1, <1>3 DEF AfterCorrection, ContainmentState
  <1>5. /\ next.phase = s.phase
        /\ next.granted = s.granted
        /\ next.op_budget = s.op_budget
        /\ next.disclosure_budget_bits = s.disclosure_budget_bits
        /\ next.uncertainty_incurred = s.uncertainty_incurred
        /\ next.uncertainty_resolved
             = SaturatingAdd(s.uncertainty_resolved, ev.grant.amount)
        /\ next.peak_uncertainty = s.peak_uncertainty
        /\ next.autonomy_threshold = s.autonomy_threshold
        /\ next.correction_anchor = ev.grant.next_anchor
        /\ next.corrections_consumed = SaturatingAdd(s.corrections_consumed, 1)
    BY DEF AfterCorrection, ContainmentState
  <1>6. /\ NetUncertainty(next) \in U64 /\ NetUncertainty(s) \in U64
        /\ NetUncertainty(next) <= NetUncertainty(s)
    BY <1>1, <1>2, <1>3, <1>5, NetAfterCorrection, SaturatingBounds DEF NetUncertainty
  <1> HIDE DEF next
  <1>7. A1(s, ev) /\ A3(s, ev) /\ A4(s, ev)
    BY <1>0, <1>2, <1>5 DEF A1, A3, A4
  <1>8. A2(s, ev)
    BY <1>0, <1>2, <1>3, <1>5 DEF A2, U64
  <1>9. A5(s, ev)
    BY <1>0, <1>4, EraseIsAlwaysPossible DEF A5
  <1>10. A6(s, ev)
    <2>1. s.peak_uncertainty >= NetUncertainty(s)
            => next.peak_uncertainty >= NetUncertainty(next)
      BY <1>2, <1>5, <1>6 DEF U64
    <2> QED BY <1>0, <1>5, <2>1 DEF A6
  <1>11. A7(s, ev)
    BY <1>0, <1>3, <1>5 DEF A7
  <1> QED BY <1>7, <1>8, <1>9, <1>10, <1>11 DEF AxiomsHold

\* verify_axioms checks three values of every figure; this is the statement for
\* all of them: from any state, reachable or not, whose grant counter is not
\* saturated, every event step() is given satisfies the seven axioms.  (With the
\* counter saturated, the A7 check that a grant advances it would fail.)
THEOREM StepSatisfiesAxioms ==
    ASSUME NEW s \in ContainmentState, s.corrections_consumed < U64Max, NEW ev \in Event
    PROVE  AxiomsHold(s, ev)
PROOF
  <1> DEFINE next == Step(s, ev)
  <1>1. Decays(s, s)
    BY DEF Decays, SameClockAndDoubt, ContainmentState, U64, Armed, Erased
  <1>2. CASE Decide(s, ev) # Admit
    <2>1. Step(s, ev) = s
      BY <1>2 DEF Step
    <2> QED BY <1>1, <1>2, <2>1, DecaySatisfiesAxioms
  <1>3. CASE Decide(s, ev) = Admit
    <2>0. Step(s, ev) = Effect(s, ev)
      BY <1>3 DEF Step
    <2>1. CASE ev.type \in {"Erase", "WatchdogExpiry"}
      <3>1. Step(s, ev) = AfterErase(s)
        BY <2>0, <2>1 DEF Effect
      <3>2. AfterErase(s) \in ContainmentState
        <4>1. 0 \in U64 /\ Erased \in Armed .. Erased
          BY WidthAssumption DEF U64, Armed, Erased
        <4> QED BY <4>1 DEF AfterErase, ContainmentState
      <3>3. Decays(s, AfterErase(s))
        BY <3>2 DEF Decays, AfterErase, SameClockAndDoubt, ContainmentState, U64, Armed, Erased
      <3> QED BY <2>1, <3>1, <3>3, DecaySatisfiesAxioms
    <2>2. CASE ev.type = "MissionInit"
      <3>1. Step(s, ev) = AfterMissionInit(s) /\ s.phase = Armed
        BY <1>3, <2>0, <2>2 DEF Effect, Decide, DecideIn, Require, Admit
      <3>2. AfterMissionInit(s) \in ContainmentState
        <4>1. Active \in Armed .. Erased
          BY DEF Armed, Active, Erased
        <4> QED BY <4>1 DEF AfterMissionInit, ContainmentState
      <3>3. Decays(s, AfterMissionInit(s))
        BY <3>1, <3>2
        DEF Decays, AfterMissionInit, SameClockAndDoubt, ContainmentState, U64, Armed, Active
      <3> QED BY <2>2, <3>1, <3>3, DecaySatisfiesAxioms
    <2>3. CASE ev.type = "KeyReleased"
      <3>1. Step(s, ev) = AfterKeyReleased(s) /\ s.phase = Active
        BY <1>3, <2>0, <2>3 DEF Effect, Decide, Require, Admit
      <3>2. AfterKeyReleased(s) \in ContainmentState
        <4>1. Locked \in Armed .. Erased
          BY DEF Armed, Locked, Erased
        <4> QED BY <4>1 DEF AfterKeyReleased, ContainmentState
      <3>3. Decays(s, AfterKeyReleased(s))
        BY <3>1, <3>2
        DEF Decays, AfterKeyReleased, SameClockAndDoubt, ContainmentState, U64, Active, Locked
      <3> QED BY <2>3, <3>1, <3>3, DecaySatisfiesAxioms
    <2>4. CASE ev.type = "Infer"
      <3>1. ev \in InferEvent
        BY <2>4 DEF Event, PlainEvent, InferEvent, CorrectionEvent
      <3> QED BY <1>3, <3>1, InferSatisfiesAxioms
    <2>5. CASE ev.type = "HumanCorrection"
      <3>1. ev \in CorrectionEvent
        BY <2>5 DEF Event, PlainEvent, InferEvent, CorrectionEvent
      <3> QED BY <1>3, <3>1, CorrectionSatisfiesAxioms
    <2>6. CASE ev.type \in {"RequestHumanVeto", "IdentityAttest", "ErasureAttest"}
      <3>1. Step(s, ev) = s
        BY <2>0, <2>6 DEF Effect
      <3> QED BY <1>1, <2>6, <3>1, DecaySatisfiesAxioms
    <2>7. ev.type \in {"Erase", "WatchdogExpiry", "MissionInit", "KeyReleased", "Infer",
                      "HumanCorrection", "RequestHumanVeto", "IdentityAttest",
                      "ErasureAttest"}
      BY DEF Event, PlainEvent, InferEvent, CorrectionEvent
    <2> QED BY <2>1, <2>2, <2>3, <2>4, <2>5, <2>6, <2>7
  <1> QED BY <1>2, <1>3

\* The agent's startup check, for any width from two bits up: it refuses to start over
\* no axiom, whatever tokens it makes its chain of.
THEOREM StartupCheckHolds == VerifyAxioms
PROOF
  <1> DEFINE anchor == ModelCheckChain.anchor   valid == ModelCheckChain.grants[1]
  <1>1. SUFFICES ASSUME NEW s \in AbstractStates(anchor),
                        NEW ev \in Representatives(valid, Forged)
                 PROVE  AxiomsHold(s, ev)
    BY Zenon DEF VerifyAxioms
  <1>2. /\ anchor \in Digest /\ CHAIN_END \in Digest
        /\ valid \in CorrectionGrant /\ Forged \in CorrectionGrant
        /\ 2 < U64Max
    BY CheckAssumption
  <1> HIDE DEF anchor, valid
  <1>3. 0 .. 2 \subseteq U64 /\ U64Max \in U64 /\ 2 \in U64 /\ 0 \in U64 /\ 1 \in U64
    BY <1>2, WidthAssumption DEF U64
  <1>4. s \in ContainmentState /\ s.corrections_consumed < U64Max
    BY <1>2, <1>3, WidthAssumption DEF AbstractStates, ContainmentState
  <1>5. ev \in Event
    <2>1. CASE ev \in PlainEvent
      BY <2>1 DEF Event
    <2>2. CASE \E figures \in {<< 0, 0, 0 >>, << 1, 1, 1 >>, << 2, 1, 0 >>, << 1, 2, 1 >>,
                               << 1, 1, 2 >>, << U64Max, U64Max, U64Max >>} :
                  ev = [type |-> "Infer", declared_secs |-> figures[1],
                        disclosure_bits |-> figures[2], uncertainty_score |-> figures[3]]
      BY <1>3, <2>2 DEF Event, InferEvent
    <2>3. CASE ev \in {[type |-> "HumanCorrection", grant |-> grant] :
                          grant \in {valid, Forged}}
      BY <1>2, <2>3 DEF Event, CorrectionEvent
    <2> QED BY <2>1, <2>2, <2>3 DEF Representatives
  <1> QED BY <1>4, <1>5, StepSatisfiesAxioms
=============================================================================
