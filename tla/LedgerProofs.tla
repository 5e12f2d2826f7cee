---------------------------- MODULE LedgerProofs ----------------------------
(***************************************************************************)
(* The monitor and its callers, the ledger's records and the handlers that *)
(* report on them, for every mission, every capacity of the tail and every *)
(* sequence of calls and clock readings.                                   *)
(***************************************************************************)
EXTENDS ContainmentMonitor, LedgerReaders, ContainmentProofs, FiniteSetTheorems,
        SequenceTheorems, WellFoundedInduction

-----------------------------------------------------------------------------
(* The monitor and its callers.                                            *)

\* A freshly provisioned monitor satisfies the invariant.
LEMMA InitIInv == MonitorInit => IInv
  BY NewStateSound DEF MonitorInit, IInv, NewState

\* Arbitrating an event that is not a correction preserves the invariant.
LEMMA ArbitratePreserves ==
    ASSUME IInv, NEW ev \in Event, ev.type # "HumanCorrection", Arbitrate(ev)
    PROVE  IInv'
PROOF
  <1>1. PICK elapsed \in U64 : st' = AdmitAt(st, elapsed, ev)
    BY DEF Arbitrate
  <1>2. revealed' = revealed
    BY DEF Arbitrate
  <1>3. /\ Sound(st') /\ AnchorOnChain(st')
        /\ st'.corrections_consumed = st.corrections_consumed
    BY <1>1, AdmitSound DEF IInv
  <1> QED BY <1>2, <1>3 DEF IInv

\* A correction preserves it: an accepted grant has a token that callers know,
\* and of the chain's tokens they know only the revealed ones.
LEMMA CorrectionPreserves ==
    ASSUME IInv, HumanCorrection
    PROVE  IInv'
PROOF
  <1>1. PICK grant \in CorrectionGrant :
            /\ grant.token \in KnownTokens
            /\ Arbitrate([type |-> "HumanCorrection", grant |-> grant])
    BY DEF HumanCorrection
  <1> DEFINE ev == [type |-> "HumanCorrection", grant |-> grant]
  <1>2. ev \in Event
    BY DEF Event, CorrectionEvent
  <1>3. PICK elapsed \in U64 : st' = AdmitAt(st, elapsed, ev)
    BY <1>1 DEF Arbitrate
  <1>4. revealed' = revealed
    BY <1>1 DEF Arbitrate
  <1>5. /\ Sound(st') /\ AnchorOnChain(st')
        /\ \/ st'.corrections_consumed = st.corrections_consumed
           \/ /\ Authorises(grant, st.correction_anchor)
              /\ st'.corrections_consumed = st.corrections_consumed + 1
    BY <1>2, <1>3, AdmitSound DEF IInv
  <1>6. CASE st'.corrections_consumed = st.corrections_consumed
    BY <1>4, <1>5, <1>6 DEF IInv
  <1>7. CASE /\ Authorises(grant, st.correction_anchor)
             /\ st'.corrections_consumed = st.corrections_consumed + 1
    <2> DEFINE i == st.corrections_consumed + 1
    <2>1. i \in 1 .. Len(Grants) /\ grant.token = Grants[i].token
      BY <1>7, AuthorisedIsNext DEF IInv
    <2>2. i \in revealed
      <3>1. PICK j \in revealed : grant.token = Grants[j].token
        BY <1>1, <2>1, SecrecyAssumption DEF KnownTokens
      <3>2. j \in 1 .. Len(Grants)
        BY DEF IInv
      <3> QED BY <2>1, <3>1, <3>2, ChainAssumption
    <2>3. st.corrections_consumed \in Nat
      BY WidthAssumption DEF IInv, Sound, ContainmentState, U64
    <2>4. 1 .. i \subseteq revealed
      BY <2>2, <2>3 DEF IInv
    <2> QED BY <1>4, <1>5, <1>7, <2>4 DEF IInv
  <1> QED BY <1>5, <1>6, <1>7

\* The invariant survives every step of the monitor.
LEMMA NextPreserves == IInv /\ [MonitorNext]_monitorVars => IInv'
PROOF
  <1> SUFFICES ASSUME IInv, [MonitorNext]_monitorVars PROVE IInv'
    OBVIOUS
  <1>1. ASSUME NEW t \in {"MissionInit", "KeyReleased", "IdentityAttest", "ErasureAttest",
                         "RequestHumanVeto", "Erase", "WatchdogExpiry"},
               Arbitrate([type |-> t])
        PROVE  IInv'
    <2>1. [type |-> t] \in Event /\ [type |-> t].type # "HumanCorrection"
      BY DEF Event, PlainEvent
    <2> QED BY <1>1, <2>1, ArbitratePreserves
  <1>2. CASE MissionInit
    BY <1>1, <1>2 DEF MissionInit
  <1>3. CASE KeyReleased
    BY <1>1, <1>3 DEF KeyReleased
  <1>4. CASE IdentityAttest
    BY <1>1, <1>4 DEF IdentityAttest
  <1>5. CASE ErasureAttest
    BY <1>1, <1>5 DEF ErasureAttest
  <1>6. CASE RequestHumanVeto
    BY <1>1, <1>6 DEF RequestHumanVeto
  <1>7. CASE Erase
    BY <1>1, <1>7 DEF Erase
  <1>8. CASE WatchdogExpiry
    BY <1>1, <1>8 DEF WatchdogExpiry
  <1>9. CASE Infer
    <2>1. PICK ev \in InferEvent : Arbitrate(ev)
      BY <1>9 DEF Infer
    <2>2. ev \in Event /\ ev.type # "HumanCorrection"
      BY DEF Event, InferEvent
    <2> QED BY <2>1, <2>2, ArbitratePreserves
  <1>10. CASE HumanCorrection
    BY <1>10, CorrectionPreserves
  <1>11. CASE RevealGrant
    BY <1>11 DEF RevealGrant, IInv
  <1>12. CASE UNCHANGED monitorVars
    BY <1>12 DEF monitorVars, IInv
  <1> QED
    BY <1>2, <1>3, <1>4, <1>5, <1>6, <1>7, <1>8, <1>9, <1>10, <1>11, <1>12
    DEF MonitorNext

---------------------------------------------------------------------------
(* What the invariant gives.                                               *)

\* The inductive invariant holds in every reachable state.
THEOREM InductiveInvariant == MonitorSpec => []IInv
  BY InitIInv, NextPreserves, PTL DEF MonitorSpec

\* Type correctness of the monitor, u64 fields included.
THEOREM TypeCorrect == MonitorSpec => []TypeOK
PROOF
  <1>1. IInv => TypeOK
    BY DEF IInv, Sound, TypeOK
  <1> QED BY <1>1, InductiveInvariant, PTL

\* admit() always commits what step() computed, so Erase always erases (A5).
THEOREM AlwaysCommits == MonitorSpec => []CommitNeverFallsBack
PROOF
  <1>1. IInv => CommitNeverFallsBack
    <2> SUFFICES ASSUME IInv, NEW ev \in Event, NEW elapsed \in U64
                 PROVE  LET s == WithElapsed(st, elapsed) IN Precedes(s, Step(s, ev))
      BY DEF CommitNeverFallsBack
    <2>1. Sound(WithElapsed(st, elapsed)) /\ AnchorOnChain(WithElapsed(st, elapsed))
      BY WithElapsedSound DEF IInv
    <2> QED BY <2>1, StepSound
  <1> QED BY <1>1, InductiveInvariant, PTL

\* Net uncertainty never passes its recorded peak, nor the peak the threshold (A6).
THEOREM UncertaintyBounded == MonitorSpec => []PeakBoundsUncertainty
PROOF
  <1>1. IInv => PeakBoundsUncertainty
    BY DEF IInv, Sound, PeakBoundsUncertainty
  <1> QED BY <1>1, InductiveInvariant, PTL

\* Corrections come only from grants the operator handed out, in order (A7).
THEOREM OnlyOperatorCorrects == MonitorSpec => []NonSelfAuthorisation
PROOF
  <1>1. IInv => NonSelfAuthorisation
    BY DEF IInv, AnchorOnChain, NonSelfAuthorisation
  <1> QED BY <1>1, InductiveInvariant, PTL

\* However a mission went, its erased state satisfies the circuit's predicates.
THEOREM ErasedAttestable == MonitorSpec => []ErasedIsAttestable
PROOF
  <1>1. IInv => ErasedIsAttestable
    BY SoundSatisfiesA6 DEF IInv, Sound, ErasedIsAttestable, IsTerminal
  <1> QED BY <1>1, InductiveInvariant, PTL

-----------------------------------------------------------------------------
(* The amounts that the operator authorised.                               *)

\* Induction over the numbers, as a fact about sets.
LEMMA NatByInduction ==
    ASSUME NEW T \in SUBSET Nat, 0 \in T, \A n \in T : n + 1 \in T
    PROVE  T = Nat
PROOF
  <1>1. IsWellFoundedOn({ss \in Nat \X Nat : ss[1] < ss[2]}, Nat)
    BY NatLessThanWellFounded DEF OpToRel
  <1> DEFINE R == {ss \in Nat \X Nat : ss[1] < ss[2]}
  <1> HIDE DEF R
  <1>2. SUFFICES ASSUME Nat \ T # {} PROVE FALSE
    OBVIOUS
  <1>3. PICK x \in Nat \ T : \A y \in Nat \ T : ~ (<< y, x >> \in R)
    BY <1>1, <1>2, WFMin DEF R
  <1>4. x # 0 /\ x - 1 \in Nat
    BY <1>3
  <1>5. << x - 1, x >> \in R
    BY <1>4, <1>3 DEF R
  <1> QED BY <1>3, <1>4, <1>5

TotalTo(f, n) == f = [k \in 0 .. n |-> IF k = 0 THEN 0 ELSE f[k - 1] + Grants[k].amount]

LEMMA TotalsExist ==
    ASSUME NEW n \in Nat
    PROVE  \E f : TotalTo(f, n)
PROOF
  <1> DEFINE T == {m \in Nat : \E f : TotalTo(f, m)}
  <1>1. 0 \in T
    <2>1. TotalTo([k \in 0 .. 0 |-> 0], 0)
      BY DEF TotalTo
    <2> QED BY <2>1
  <1>2. ASSUME NEW m \in T PROVE m + 1 \in T
    <2>1. PICK f : TotalTo(f, m)
      OBVIOUS
    <2> DEFINE g == [k \in 0 .. m + 1 |-> IF k = 0 THEN 0 ELSE f[k - 1] + Grants[k].amount]
    <2>2. ASSUME NEW k \in 0 .. m + 1
          PROVE  g[k] = IF k = 0 THEN 0 ELSE f[k - 1] + Grants[k].amount
      OBVIOUS
    <2>3. ASSUME NEW k \in 0 .. m
          PROVE  f[k] = IF k = 0 THEN 0 ELSE f[k - 1] + Grants[k].amount
      BY <2>1, Zenon DEF TotalTo
    <2>4. \A k \in 0 .. m : k \in 0 .. m + 1
      OBVIOUS
    <2>5. \A k \in 0 .. m : g[k] = f[k]
      BY <2>2, <2>3, <2>4, Zenon
    <2>6. \A k \in 0 .. m + 1 : k = 0 \/ k - 1 \in 0 .. m
      OBVIOUS
    <2>7. \A k \in 0 .. m + 1 : k = 0 \/ g[k - 1] = f[k - 1]
      BY <2>5, <2>6, Zenon
    <2>8. g = [k \in 0 .. m + 1 |-> g[k]]
      OBVIOUS
    <2> HIDE DEF g
    <2>9. \A k \in 0 .. m + 1 : g[k] = IF k = 0 THEN 0 ELSE g[k - 1] + Grants[k].amount
      BY <2>2, <2>7, Zenon
    <2>10. TotalTo(g, m + 1)
      BY <2>8, <2>9, Zenon DEF TotalTo
    <2> QED BY <2>10
  <1> HIDE DEF T
  <1>3. T = Nat
    BY <1>1, <1>2, NatByInduction DEF T
  <1> QED BY <1>3 DEF T

LEMMA TotalsAddUp ==
    /\ AuthorisedTotal[0] = 0
    /\ \A k \in 1 .. Len(Grants) :
          AuthorisedTotal[k] = AuthorisedTotal[k - 1] + Grants[k].amount
PROOF
  <1>0. Len(Grants) \in Nat
    BY ChainAssumption
  <1>1. PICK h : TotalTo(h, Len(Grants))
    BY <1>0, TotalsExist
  <1>2. AuthorisedTotal = CHOOSE f : TotalTo(f, Len(Grants))
    BY Zenon DEF AuthorisedTotal, TotalTo
  <1>3. TotalTo(AuthorisedTotal, Len(Grants))
    BY <1>1, <1>2, Zenon
  <1>4. ASSUME NEW k \in 0 .. Len(Grants)
        PROVE  AuthorisedTotal[k]
                  = IF k = 0 THEN 0 ELSE AuthorisedTotal[k - 1] + Grants[k].amount
    BY <1>3, Zenon DEF TotalTo
  <1>5. 0 \in 0 .. Len(Grants) /\ \A k \in 1 .. Len(Grants) : k \in 0 .. Len(Grants) /\ k # 0
    BY <1>0
  <1> QED BY <1>4, <1>5, Zenon

LEMMA AmountsAreNumbers ==
    Len(Grants) \in Nat /\ \A k \in 1 .. Len(Grants) : Grants[k].amount \in Nat
PROOF
  <1>1. Grants \in Seq(CorrectionGrant)
    BY ChainAssumption
  <1>2. Len(Grants) \in Nat /\ \A k \in 1 .. Len(Grants) : Grants[k] \in CorrectionGrant
    BY <1>1
  <1>3. \A grant \in CorrectionGrant : grant.amount \in Nat
    BY WidthAssumption DEF CorrectionGrant, U64
  <1> QED BY <1>2, <1>3

LEMMA TotalsAreNumbers == \A k \in 0 .. Len(Grants) : AuthorisedTotal[k] \in Nat
PROOF
  <1> DEFINE T == {n \in Nat : n \in 0 .. Len(Grants) => AuthorisedTotal[n] \in Nat}
  <1>0. Len(Grants) \in Nat /\ \A k \in 1 .. Len(Grants) : Grants[k].amount \in Nat
    BY AmountsAreNumbers
  <1>1. 0 \in T
    BY TotalsAddUp
  <1>2. ASSUME NEW n \in T PROVE n + 1 \in T
    <2>1. SUFFICES ASSUME n + 1 \in 0 .. Len(Grants)
                   PROVE  AuthorisedTotal[n + 1] \in Nat
      OBVIOUS
    <2>2. n \in 0 .. Len(Grants) /\ n + 1 \in 1 .. Len(Grants) /\ (n + 1) - 1 = n
      BY <1>0, <2>1
    <2>3. AuthorisedTotal[n] \in Nat /\ Grants[n + 1].amount \in Nat
      BY <1>0, <2>2
    <2>4. AuthorisedTotal[n + 1] = AuthorisedTotal[(n + 1) - 1] + Grants[n + 1].amount
      BY <2>2, TotalsAddUp
    <2> QED BY <2>2, <2>3, <2>4
  <1> HIDE DEF T
  <1>3. T = Nat
    BY <1>1, <1>2, NatByInduction DEF T
  <1> QED BY <1>0, <1>3 DEF T

\* One more grant, added to a saturated total.
LEMMA SaturatingTotal ==
    ASSUME NEW a \in Nat, NEW b \in Nat
    PROVE  SaturatingAdd(SaturatingAdd(0, a), b) = SaturatingAdd(0, a + b)
  BY WidthAssumption DEF SaturatingAdd

LEMMA ArbitrateResolves ==
    ASSUME IInv, ResolvedIsAuthorised, NEW elapsed \in U64, NEW ev \in Event,
           st' = AdmitAt(st, elapsed, ev)
    PROVE  ResolvedIsAuthorised'
PROOF
  <1>1. /\ Sound(st) /\ AnchorOnChain(st)
        /\ st.corrections_consumed \in Nat /\ st.corrections_consumed <= Len(Grants)
        /\ Len(Grants) \in Nat
    BY ChainAssumption, WidthAssumption
    DEF IInv, Sound, AnchorOnChain, ContainmentState, U64
  <1>2. CASE /\ st'.corrections_consumed = st.corrections_consumed
             /\ st'.uncertainty_resolved = st.uncertainty_resolved
    BY <1>2 DEF ResolvedIsAuthorised
  <1>3. CASE /\ ev.type = "HumanCorrection"
             /\ Authorises(ev.grant, st.correction_anchor)
             /\ st'.corrections_consumed = st.corrections_consumed + 1
             /\ st'.uncertainty_resolved = SaturatingAdd(st.uncertainty_resolved, ev.grant.amount)
    <2> DEFINE k == st.corrections_consumed + 1
    <2>1. ev.grant \in CorrectionGrant
      BY <1>3 DEF Event, PlainEvent, InferEvent, CorrectionEvent
    <2>2. k \in 1 .. Len(Grants) /\ ev.grant.amount = Grants[k].amount
      BY <1>1, <1>3, <2>1, AuthorisedIsNext
    <2>3. k - 1 = st.corrections_consumed /\ k - 1 \in 0 .. Len(Grants)
      BY <1>1
    <2> HIDE DEF k
    <2>4. AuthorisedTotal[k] = AuthorisedTotal[st.corrections_consumed] + Grants[k].amount
      BY <2>2, <2>3, TotalsAddUp
    <2>5. /\ AuthorisedTotal[st.corrections_consumed] \in Nat
          /\ Grants[k].amount \in Nat
      BY <2>2, <2>3, TotalsAreNumbers, AmountsAreNumbers
    <2>6. st'.uncertainty_resolved = SaturatingAdd(0, AuthorisedTotal[k])
      BY <1>3, <2>2, <2>4, <2>5, SaturatingTotal DEF ResolvedIsAuthorised
    <2> QED BY <1>3, <2>6 DEF ResolvedIsAuthorised, k
  <1> QED BY <1>1, <1>2, <1>3, AdmitSound

\* Uncertainty is resolved by what the operator's spent grants amount to, saturating,
\* and by nothing a caller writes (A7, step()'s HumanCorrection).
THEOREM ResolvedAsAuthorised == MonitorSpec => []ResolvedIsAuthorised
PROOF
  <1>1. MonitorInit => ResolvedIsAuthorised
    BY TotalsAddUp, WidthAssumption DEF MonitorInit, NewState, ResolvedIsAuthorised, SaturatingAdd
  <1>2. IInv /\ ResolvedIsAuthorised /\ [MonitorNext]_monitorVars => ResolvedIsAuthorised'
    <2> SUFFICES ASSUME IInv, ResolvedIsAuthorised, [MonitorNext]_monitorVars
                 PROVE  ResolvedIsAuthorised'
      OBVIOUS
    <2>1. ASSUME NEW ev \in Event, Arbitrate(ev)
          PROVE  ResolvedIsAuthorised'
      BY <2>1, ArbitrateResolves DEF Arbitrate
    <2>2. \A type \in {"MissionInit", "KeyReleased", "IdentityAttest", "ErasureAttest",
                       "RequestHumanVeto", "Erase", "WatchdogExpiry"} : [type |-> type] \in Event
      BY DEF Event, PlainEvent
    <2>3. CASE \/ MissionInit \/ KeyReleased \/ IdentityAttest \/ ErasureAttest
               \/ RequestHumanVeto \/ Erase \/ WatchdogExpiry
      BY <2>1, <2>2, <2>3 DEF MissionInit, KeyReleased, IdentityAttest, ErasureAttest,
                              RequestHumanVeto, Erase, WatchdogExpiry
    <2>4. CASE Infer
      BY <2>1, <2>4 DEF Infer, Event
    <2>5. CASE HumanCorrection
      BY <2>1, <2>5 DEF HumanCorrection, Event, CorrectionEvent
    <2>6. CASE UNCHANGED st
      BY <2>6 DEF ResolvedIsAuthorised
    <2> QED BY <2>3, <2>4, <2>5, <2>6 DEF MonitorNext, RevealGrant, monitorVars
  <1> QED BY <1>1, <1>2, InductiveInvariant, PTL DEF MonitorSpec

-----------------------------------------------------------------------------
(* The ledger: what its invariant is.                                      *)

\* The inferences and corrections on record, with the budget left, make up the
\* budget; this goes on after erasure, which may only lose what was left.
BudgetAccounted ==
    LET inferred  == AdmittedRecords("Infer")
        corrected == AdmittedRecords("HumanCorrection")
    IN  /\ IsFiniteSet(inferred) /\ IsFiniteSet(corrected)
        /\ Cardinality(inferred) + state.op_budget <= OpBudget
        /\ state.phase # Erased => Cardinality(inferred) + state.op_budget = OpBudget
        /\ Cardinality(corrected) = state.corrections_consumed

\* The ledger's sequences are of its records.
Recording ==
    /\ next_seq \in Nat /\ admitted \in Nat /\ denied \in Nat
    /\ \E S : chain_digest \in Seq(S) /\ tail \in Seq(S)
    /\ Len(chain_digest) = next_seq

LInv ==
    /\ Sound(state) /\ AnchorOnChain(state)
    /\ Recording
    /\ HistoryIsComplete
    /\ BudgetAccounted

-----------------------------------------------------------------------------
(* The tail.                                                               *)

\* A sequence is the end of another from some place on just if its elements are.
LEMMA WindowElements ==
    ASSUME NEW S, NEW chain \in Seq(S), NEW window \in Seq(S), NEW first \in Nat,
           Len(window) + first = Len(chain) + 1, 1 <= first
    PROVE  window = SubSeq(chain, first, Len(chain))
               <=> \A i \in 1 .. Len(window) : window[i] = chain[first + i - 1]
PROOF
  <1> DEFINE n == Len(chain)
             end == SubSeq(chain, first, n)
  <1>1. n \in Nat /\ Len(window) \in Nat
    OBVIOUS
  <1>2. \A i \in first .. n : chain[i] \in S
    OBVIOUS
  <1>3. /\ end \in Seq(S)
        /\ Len(end) = Len(window)
        /\ \A i \in 1 .. Len(window) : end[i] = chain[first + i - 1]
    <2>1. /\ end \in Seq(S)
          /\ Len(end) = IF first <= n THEN n - first + 1 ELSE 0
          /\ \A i \in 1 .. n - first + 1 : end[i] = chain[first + i - 1]
      BY <1>1, <1>2, SubSeqProperties
    <2>2. Len(window) = n - first + 1
      BY <1>1
    <2> QED BY <1>1, <2>1, <2>2
  <1> HIDE DEF end
  <1>4. ASSUME \A i \in 1 .. Len(window) : window[i] = chain[first + i - 1]
        PROVE  window = end
    BY <1>3, <1>4, SeqEqual
  <1>5. ASSUME window = end
        PROVE  \A i \in 1 .. Len(window) : window[i] = chain[first + i - 1]
    BY <1>3, <1>5
  <1> QED BY <1>4, <1>5 DEF end

\* push_back after pop_front when full: the tail stays the newest records of the
\* chain, as many as there are, up to its capacity.
LEMMA PushTailWindow ==
    ASSUME NEW S, chain_digest \in Seq(S), tail \in Seq(S), NEW record \in S,
           NEW n \in Nat, Len(chain_digest) = n,
           Len(tail) = IF n < Capacity THEN n ELSE Capacity,
           \A i \in 1 .. Len(tail) : tail[i] = chain_digest[n - Len(tail) + i]
    PROVE  LET pushed == PushTail(record)
               appended == Append(chain_digest, record)
           IN  /\ pushed \in Seq(S)
               /\ Len(pushed) = IF n + 1 < Capacity THEN n + 1 ELSE Capacity
               /\ \A i \in 1 .. Len(pushed) : pushed[i] = appended[n + 1 - Len(pushed) + i]
PROOF
  <1> DEFINE pushed == PushTail(record)
             appended == Append(chain_digest, record)
  <1>1. Capacity \in Nat /\ Capacity >= 1
    BY LedgerAssumption DEF Capacity
  <1>2. /\ Len(appended) = n + 1
        /\ \A i \in 1 .. n : appended[i] = chain_digest[i]
        /\ appended[n + 1] = record
    OBVIOUS
  <1> HIDE DEF appended
  <1> DEFINE Windowed ==
               /\ pushed \in Seq(S)
               /\ Len(pushed) = IF n + 1 < Capacity THEN n + 1 ELSE Capacity
               /\ \A i \in 1 .. Len(pushed) : pushed[i] = appended[n + 1 - Len(pushed) + i]
  <1>3. ASSUME Len(tail) = Capacity
        PROVE  Windowed
    <2>1. tail # << >> /\ n >= Capacity
      BY <1>1, <1>3
    <2>2. /\ Tail(tail) \in Seq(S)
          /\ Len(Tail(tail)) = Capacity - 1
          /\ \A i \in 1 .. Capacity - 1 : Tail(tail)[i] = tail[i + 1]
      BY <1>1, <1>3, <2>1, HeadTailProperties
    <2>3. pushed = Append(Tail(tail), record)
      BY <1>3 DEF PushTail
    <2>4. /\ pushed \in Seq(S) /\ Len(pushed) = Capacity
          /\ \A i \in 1 .. Capacity - 1 : pushed[i] = tail[i + 1]
          /\ pushed[Capacity] = record
      BY <1>1, <2>2, <2>3
    <2>5. ASSUME NEW i \in 1 .. Capacity - 1
          PROVE  pushed[i] = appended[n + 1 - Capacity + i]
      <3> DEFINE place == n + 1 - Capacity + i
      <3>1. i + 1 \in 1 .. Capacity /\ n - Capacity + (i + 1) = place /\ place \in 1 .. n
        BY <1>1, <2>1
      <3> HIDE DEF place
      <3>2. tail[i + 1] = chain_digest[place]
        <4>1. \A j \in 1 .. Capacity : tail[j] = chain_digest[n - Capacity + j]
          BY <1>3
        <4>2. tail[i + 1] = chain_digest[n - Capacity + (i + 1)]
          BY <3>1, <4>1
        <4> QED BY <3>1, <4>2
      <3>3. pushed[i] = appended[place]
        BY <1>2, <2>4, <3>1, <3>2
      <3> QED BY <3>3 DEF place
    <2>6. \A i \in 1 .. Capacity - 1 : pushed[i] = appended[n + 1 - Capacity + i]
      BY <2>5
    <2> HIDE DEF pushed
    <2>7. Len(pushed) = IF n + 1 < Capacity THEN n + 1 ELSE Capacity
      BY <1>1, <2>1, <2>4
    <2>8. pushed[Capacity] = appended[n + 1 - Capacity + Capacity]
      BY <1>1, <1>2, <2>4
    <2>9. \A i \in 1 .. Capacity : i \in 1 .. Capacity - 1 \/ i = Capacity
      BY <1>1
    <2> QED BY <2>4, <2>6, <2>7, <2>8, <2>9
  <1>4. ASSUME Len(tail) # Capacity
        PROVE  Windowed
    <2>1. n < Capacity /\ Len(tail) = n
      BY <1>1, <1>4
    <2>2. pushed = Append(tail, record)
      BY <1>4 DEF PushTail
    <2>3. /\ pushed \in Seq(S) /\ Len(pushed) = n + 1
          /\ \A i \in 1 .. n : pushed[i] = tail[i]
          /\ pushed[n + 1] = record
      BY <2>1, <2>2
    <2> HIDE DEF pushed
    <2> QED BY <1>1, <1>2, <2>1, <2>3
  <1>5. Windowed
    BY <1>3, <1>4
  <1> QED BY <1>5 DEF appended

-----------------------------------------------------------------------------
(* What a record tells.                                                    *)

\* A verdict is one of the codes' names, and only Admit has Admit's code.
LEMMA OnlyAdmitHasItsCode ==
    ASSUME NEW s, NEW ev \in Event
    PROVE  DecisionCode[Decide(s, ev)] = DecisionCode[Admit] <=> Decide(s, ev) = Admit
PROOF
  <1> DEFINE verdict == Decide(s, ev)
  <1>1. verdict \in {"Admit", "WrongPhase", "CapabilityRevoked", "BudgetExhausted",
                     "DisclosureBudgetExceeded", "DeadlineExceeded", "UncertaintyTooHigh",
                     "CorrectionUnauthorized"}
    <2>1. ev.type \in {"Erase", "WatchdogExpiry", "MissionInit", "KeyReleased", "Infer",
                       "RequestHumanVeto", "HumanCorrection", "IdentityAttest",
                       "ErasureAttest"}
      BY DEF Event, PlainEvent, InferEvent, CorrectionEvent
    <2>2. CASE ev.type \in {"Erase", "WatchdogExpiry"}
      BY <2>2 DEF Decide, Admit
    <2>3. CASE ev.type = "Infer"
      BY <2>3 DEF Decide, DecideInfer, Require, Admit
    <2>4. CASE ev.type = "HumanCorrection"
      BY <2>4 DEF Decide, DecideCorrection, Require, Admit
    <2>5. CASE ev.type \in {"MissionInit", "KeyReleased", "RequestHumanVeto",
                            "IdentityAttest", "ErasureAttest"}
      BY <2>5 DEF Decide, DecideIn, Require, Admit
    <2> QED BY <2>1, <2>2, <2>3, <2>4, <2>5
  <1> HIDE DEF verdict
  <1>2. DecisionCode[verdict] = DecisionCode["Admit"] <=> verdict = "Admit"
    BY <1>1 DEF DecisionCode
  <1> QED BY <1>2 DEF verdict, Admit

\* Events of different types have different codes.
LEMMA EventCodesDiffer ==
    ASSUME NEW ev \in Event
    PROVE  /\ EventCode[ev.type] = EventCode["Infer"] <=> ev.type = "Infer"
           /\ EventCode[ev.type] = EventCode["HumanCorrection"] <=> ev.type = "HumanCorrection"
PROOF
  <1>1. ev.type \in {"MissionInit", "Infer", "KeyReleased", "IdentityAttest", "ErasureAttest",
                     "RequestHumanVeto", "HumanCorrection", "Erase", "WatchdogExpiry"}
    BY DEF Event, PlainEvent, InferEvent, CorrectionEvent
  <1> QED BY <1>1 DEF EventCode

\* An admitted inference, and nothing else before erasure, costs one operation.
LEMMA OperationsSpent ==
    ASSUME NEW s, Sound(s), NEW ev \in Event
    PROVE  LET next == Step(s, ev)
           IN  /\ ev.type = "Infer" /\ Decide(s, ev) = Admit
                  => /\ s.phase # Erased /\ s.op_budget >= 1
                     /\ next.op_budget = s.op_budget - 1
               /\ ~(ev.type = "Infer" /\ Decide(s, ev) = Admit)
                  => /\ next.op_budget <= s.op_budget
                     /\ next.phase # Erased => s.phase # Erased /\ next.op_budget = s.op_budget
PROOF
  <1> DEFINE next == Step(s, ev)
  <1>1. s \in ContainmentState /\ s.op_budget \in Nat
    BY WidthAssumption DEF Sound, ContainmentState, U64
  <1>2. CASE Decide(s, ev) # Admit
    BY <1>1, <1>2 DEF Step
  <1>3. CASE Decide(s, ev) = Admit /\ ev.type = "Infer"
    <2>1. s.phase = Active /\ s.op_budget # 0
      BY <1>3 DEF Decide, DecideInfer, Require, Admit
    <2>2. next.op_budget = s.op_budget - 1
      BY <1>1, <1>3 DEF Step, Effect, AfterInfer, ContainmentState
    <2> QED BY <1>1, <1>3, <2>1, <2>2 DEF Active, Erased
  <1>4. CASE Decide(s, ev) = Admit /\ ev.type \in {"Erase", "WatchdogExpiry"}
    <2>1. next.op_budget = 0 /\ next.phase = Erased
      BY <1>1, <1>4 DEF Step, Effect, AfterErase, ContainmentState
    <2> QED BY <1>1, <1>4, <2>1
  <1>5. CASE Decide(s, ev) = Admit /\ ev.type \in {"MissionInit", "KeyReleased"}
    <2>1. s.phase \in {Armed, Active}
      BY <1>5 DEF Decide, DecideIn, Require, Admit
    <2>2. next.op_budget = s.op_budget
      BY <1>1, <1>5 DEF Step, Effect, AfterMissionInit, AfterKeyReleased, ContainmentState
    <2> QED BY <1>1, <1>5, <2>1, <2>2 DEF Armed, Active, Erased
  <1>6. CASE Decide(s, ev) = Admit /\ ev.type \notin {"Infer", "Erase", "WatchdogExpiry",
                                                      "MissionInit", "KeyReleased"}
    <2>1. next.op_budget = s.op_budget /\ next.phase = s.phase
      BY <1>1, <1>6 DEF Step, Effect, AfterCorrection, ContainmentState
    <2> QED BY <1>1, <1>6, <2>1
  <1> QED BY <1>2, <1>3, <1>4, <1>5, <1>6

\* An admitted correction spends one grant, and nothing else does.
LEMMA GrantsSpent ==
    ASSUME NEW s, Sound(s), AnchorOnChain(s), NEW ev \in Event
    PROVE  Step(s, ev).corrections_consumed =
               IF ev.type = "HumanCorrection" /\ Decide(s, ev) = Admit
               THEN s.corrections_consumed + 1 ELSE s.corrections_consumed
PROOF
  <1>1. /\ s \in ContainmentState /\ s.corrections_consumed \in Nat
        /\ Len(Grants) \in Nat /\ Len(Grants) <= U64Max
    BY WidthAssumption, ChainAssumption DEF Sound, ContainmentState, U64
  <1>2. CASE ~(ev.type = "HumanCorrection" /\ Decide(s, ev) = Admit)
    BY <1>1, <1>2 DEF Step, Effect, AfterErase, AfterMissionInit, AfterKeyReleased, AfterInfer,
                      ContainmentState
  <1>3. CASE ev.type = "HumanCorrection" /\ Decide(s, ev) = Admit
    <2>1. ev.grant \in CorrectionGrant
      BY <1>3 DEF Event, PlainEvent, InferEvent, CorrectionEvent
    <2>2. Authorises(ev.grant, s.correction_anchor)
      BY <1>3 DEF Decide, DecideCorrection, Require, Admit
    <2>3. s.corrections_consumed + 1 \in 1 .. Len(Grants)
      BY <2>1, <2>2, AuthorisedIsNext
    <2>4. Step(s, ev).corrections_consumed = SaturatingAdd(s.corrections_consumed, 1)
      BY <1>1, <1>3 DEF Step, Effect, AfterCorrection, ContainmentState
    <2> QED BY <1>1, <1>3, <2>3, <2>4, WidthAssumption DEF SaturatingAdd
  <1> QED BY <1>2, <1>3

\* One record more: what of the chain is admitted of one type.
LEMMA RecordCounted ==
    ASSUME Recording, NEW ev \in Event, NEW type \in {"Infer", "HumanCorrection"},
           next_seq' = next_seq + 1, chain_digest' = Append(chain_digest, LedgerRecord(ev)),
           IsFiniteSet(AdmittedRecords(type))
    PROVE  /\ IsFiniteSet(AdmittedRecords(type)')
           /\ Cardinality(AdmittedRecords(type)') =
                  IF ev.type = type /\ Decide(state, ev) = Admit
                  THEN Cardinality(AdmittedRecords(type)) + 1
                  ELSE Cardinality(AdmittedRecords(type))
PROOF
  <1> DEFINE n == next_seq
             record == LedgerRecord(ev)
             counted == ev.type = type /\ Decide(state, ev) = Admit
  <1>1. n \in Nat /\ Len(chain_digest) = n
    BY DEF Recording
  <1>2. PICK S : chain_digest \in Seq(S)
    BY DEF Recording
  <1>3. /\ \A i \in 1 .. n : chain_digest'[i] = chain_digest[i]
        /\ chain_digest'[n + 1] = record
    BY <1>1, <1>2
  <1>4. /\ record.event_code = EventCode[type] <=> ev.type = type
        /\ record.decision_code = DecisionCode[Admit] <=> Decide(state, ev) = Admit
    BY EventCodesDiffer, OnlyAdmitHasItsCode DEF LedgerRecord
  <1> HIDE DEF record
  <1>5. AdmittedRecords(type)' =
            IF counted THEN AdmittedRecords(type) \cup {n + 1} ELSE AdmittedRecords(type)
    <2>1. AdmittedRecords(type)' =
              {i \in 1 .. n + 1 : /\ chain_digest'[i].event_code = EventCode[type]
                                  /\ chain_digest'[i].decision_code = DecisionCode[Admit]}
      BY DEF AdmittedRecords
    <2>2. 1 .. n + 1 = (1 .. n) \cup {n + 1} /\ n + 1 \notin 1 .. n
      BY <1>1
    <2> QED BY <1>3, <1>4, <2>1, <2>2 DEF AdmittedRecords
  <1>6. n + 1 \notin AdmittedRecords(type)
    BY <1>1 DEF AdmittedRecords
  <1> QED BY <1>5, <1>6, FS_AddElement

-----------------------------------------------------------------------------
(* The invariant.                                                          *)

\* A new ledger has no records and its whole budget.
LEMMA InitLInv == Init => LInv
PROOF
  <1> SUFFICES ASSUME Init
               PROVE  LInv
    OBVIOUS
  <1>1. Sound(state) /\ AnchorOnChain(state)
    BY NewStateSound DEF Init
  <1>2. Recording
    BY DEF Init, Recording
  <1>3. HistoryIsComplete
    <2>1. Capacity \in Nat /\ Capacity >= 1
      BY LedgerAssumption DEF Capacity
    <2>2. SubSeq(chain_digest, next_seq - Len(tail) + 1, next_seq) = << >>
      BY SubSeqEmpty DEF Init
    <2> QED BY <2>1, <2>2 DEF Init, HistoryIsComplete, Before
  <1>4. BudgetAccounted
    <2>1. AdmittedRecords("Infer") = {} /\ AdmittedRecords("HumanCorrection") = {}
      BY DEF Init, AdmittedRecords
    <2>2. state.op_budget = OpBudget /\ state.corrections_consumed = 0
      BY DEF Init, NewState
    <2>3. OpBudget \in Nat
      BY ParameterAssumption, WidthAssumption DEF U64
    <2> QED BY <2>1, <2>2, <2>3, FS_EmptySet DEF BudgetAccounted
  <1> QED BY <1>1, <1>2, <1>3, <1>4 DEF LInv

\* The clock is on no record.
LEMMA SetElapsedPreserves ==
    ASSUME LInv, NEW elapsed \in Readings, SetElapsed(elapsed)
    PROVE  LInv'
PROOF
  <1>1. elapsed \in U64
    BY LedgerAssumption
  <1>2. /\ Sound(state') /\ AnchorOnChain(state')
        /\ state'.corrections_consumed = state.corrections_consumed
    BY <1>1, WithElapsedSound DEF LInv, SetElapsed
  <1>3. state \in ContainmentState
    BY DEF LInv, Sound
  <1>4. /\ Recorded(state') = Recorded(state)
        /\ state'.op_budget = state.op_budget
        /\ state'.phase = state.phase
    BY <1>3 DEF SetElapsed, WithElapsed, Recorded, ContainmentState
  <1>5. Recording' /\ HistoryIsComplete'
    BY <1>4 DEF LInv, SetElapsed, Recording, HistoryIsComplete, Before
  <1>6. BudgetAccounted'
    <2>1. /\ AdmittedRecords("Infer")' = AdmittedRecords("Infer")
          /\ AdmittedRecords("HumanCorrection")' = AdmittedRecords("HumanCorrection")
      BY DEF SetElapsed, AdmittedRecords
    <2> QED BY <1>2, <1>4, <2>1 DEF LInv, BudgetAccounted
  <1> QED BY <1>2, <1>5, <1>6 DEF LInv

\* A record is one more.
LEMMA AdmitEventPreserves ==
    ASSUME LInv, NEW ev \in Events, AdmitEvent(ev)
    PROVE  LInv'
PROOF
  <1> DEFINE n == next_seq
             record == LedgerRecord(ev)
  <1>0. /\ ev \in Event
        /\ Sound(state) /\ AnchorOnChain(state)
        /\ n \in Nat /\ Len(chain_digest) = n
    BY LedgerAssumption DEF LInv, Recording
  <1>1. /\ state' = Step(state, ev)
        /\ Sound(state') /\ AnchorOnChain(state')
    BY <1>0, StepSound, ChainStep DEF AdmitEvent, Commit
  <1>2. PICK S : /\ chain_digest \in Seq(S) /\ tail \in Seq(S)
                 /\ record \in S
    <2>1. PICK T : chain_digest \in Seq(T) /\ tail \in Seq(T)
      BY DEF LInv, Recording
    <2>2. chain_digest \in Seq(T \cup {record}) /\ tail \in Seq(T \cup {record})
      BY <2>1, SeqMonotonic
    <2> QED BY <2>2
  <1>3. /\ n' = n + 1
        /\ chain_digest' = Append(chain_digest, record)
        /\ tail' = PushTail(record)
    BY DEF AdmitEvent
  <1>4. /\ record.seq = n
        /\ record.phase_before = state.phase
        /\ record.after = Recorded(state')
    BY DEF LedgerRecord, AdmitEvent
  <1> HIDE DEF record
  <1>5. /\ chain_digest' \in Seq(S) /\ Len(chain_digest') = n + 1
        /\ \A i \in 1 .. n : chain_digest'[i] = chain_digest[i]
        /\ chain_digest'[n + 1] = record
    BY <1>0, <1>2, <1>3
  <1>6. /\ tail' \in Seq(S)
        /\ Len(tail') = IF n + 1 < Capacity THEN n + 1 ELSE Capacity
        /\ \A i \in 1 .. Len(tail') : tail'[i] = chain_digest'[n + 1 - Len(tail') + i]
    <2>1. /\ Len(tail) = IF n < Capacity THEN n ELSE Capacity
          /\ tail = SubSeq(chain_digest, n - Len(tail) + 1, n)
      BY DEF LInv, HistoryIsComplete
    <2> DEFINE first == n - Len(tail) + 1
    <2>2. /\ Len(tail) \in Nat /\ first \in Nat /\ 1 <= first
          /\ Len(tail) + first = Len(chain_digest) + 1
      BY <1>0, <2>1, LedgerAssumption DEF Capacity
    <2>3. tail = SubSeq(chain_digest, first, Len(chain_digest))
      BY <1>0, <2>1
    <2> HIDE DEF first
    <2>4. \A i \in 1 .. Len(tail) : tail[i] = chain_digest[first + i - 1]
      BY <1>2, <2>2, <2>3, WindowElements
    <2>5. \A i \in 1 .. Len(tail) : tail[i] = chain_digest[n - Len(tail) + i]
      BY <1>0, <2>2, <2>4 DEF first
    <2> QED BY <1>0, <1>2, <1>3, <2>1, <2>5, PushTailWindow
  <1>7. admitted' \in Nat /\ denied' \in Nat /\ admitted' + denied' = n + 1
    BY <1>0 DEF LInv, Recording, HistoryIsComplete, AdmitEvent
  <1>8. Recording'
    BY <1>0, <1>3, <1>5, <1>6, <1>7 DEF Recording
  <1>9. HistoryIsComplete'
    <2>0. \A i \in 1 .. n + 1 : Before(i)' = Before(i)
      BY <1>0, <1>5 DEF Before
    <2>1. \A i \in 1 .. n' : /\ chain_digest'[i].seq = i - 1
                             /\ chain_digest'[i].phase_before = (Before(i)').phase_after
      <3>1. TAKE i \in 1 .. n'
      <3>2. CASE i \in 1 .. n
        <4>1. Before(i)' = Before(i)
          BY <1>0, <2>0, <3>2
        <4> QED BY <1>5, <3>2, <4>1 DEF LInv, HistoryIsComplete
      <3>3. CASE i = n + 1
        <4>1. Before(i)' = Before(n + 1)
          BY <1>0, <2>0, <3>3
        <4>2. Recorded(state) = Before(n + 1)
          BY DEF LInv, HistoryIsComplete
        <4> QED BY <1>0, <1>4, <1>5, <3>3, <4>1, <4>2 DEF Recorded
      <3> QED BY <1>0, <1>3, <3>1, <3>2, <3>3
    <2>2. Recorded(state') = Before(next_seq + 1)'
      BY <1>0, <1>3, <1>4, <1>5 DEF Before
    <2>3. tail' = SubSeq(chain_digest', n' - Len(tail') + 1, n')
      <3> DEFINE first == n' - Len(tail') + 1
      <3>1. /\ Len(tail') \in Nat /\ first \in Nat /\ 1 <= first
            /\ Len(tail') + first = Len(chain_digest') + 1
        BY <1>0, <1>3, <1>5, <1>6, LedgerAssumption DEF Capacity
      <3>2. \A i \in 1 .. Len(tail') : n + 1 - Len(tail') + i = first + i - 1
        BY <1>0, <1>3, <3>1
      <3> HIDE DEF first
      <3>3. \A i \in 1 .. Len(tail') : tail'[i] = chain_digest'[first + i - 1]
        BY <1>6, <3>2
      <3>4. tail' = SubSeq(chain_digest', first, Len(chain_digest'))
        BY <1>5, <1>6, <3>1, <3>3, WindowElements
      <3> QED BY <1>3, <1>5, <3>4 DEF first
    <2> QED BY <1>3, <1>6, <1>7, <2>1, <2>2, <2>3 DEF HistoryIsComplete, Capacity
  <1>10. BudgetAccounted'
    <2> DEFINE inferred == Cardinality(AdmittedRecords("Infer"))
               corrected == Cardinality(AdmittedRecords("HumanCorrection"))
    <2>1. /\ IsFiniteSet(AdmittedRecords("Infer"))
          /\ IsFiniteSet(AdmittedRecords("HumanCorrection"))
          /\ inferred + state.op_budget <= OpBudget
          /\ state.phase # Erased => inferred + state.op_budget = OpBudget
          /\ corrected = state.corrections_consumed
      BY DEF LInv, BudgetAccounted
    <2>2. inferred \in Nat /\ corrected \in Nat
      BY <2>1, FS_CardinalityType
    <2>3. state.op_budget \in Nat /\ state'.op_budget \in Nat /\ OpBudget \in Nat
      BY <1>0, <1>1, ParameterAssumption, WidthAssumption DEF Sound, ContainmentState, U64
    <2>4. /\ IsFiniteSet(AdmittedRecords("Infer")')
          /\ inferred' = IF ev.type = "Infer" /\ Decide(state, ev) = Admit
                         THEN inferred + 1 ELSE inferred
      BY <1>0, <1>3, <2>1, RecordCounted DEF LInv, record
    <2>5. /\ IsFiniteSet(AdmittedRecords("HumanCorrection")')
          /\ corrected' = IF ev.type = "HumanCorrection" /\ Decide(state, ev) = Admit
                          THEN corrected + 1 ELSE corrected
      BY <1>0, <1>3, <2>1, RecordCounted DEF LInv, record
    <2>6. state'.corrections_consumed = corrected'
      BY <1>0, <1>1, <2>1, <2>5, GrantsSpent
    <2> HIDE DEF inferred, corrected
    <2>7. /\ inferred' + state'.op_budget <= OpBudget
          /\ state'.phase # Erased => inferred' + state'.op_budget = OpBudget
      <3>1. CASE ev.type = "Infer" /\ Decide(state, ev) = Admit
        <4>1. /\ state.phase # Erased
              /\ state'.op_budget = state.op_budget - 1
          BY <1>0, <1>1, <3>1, OperationsSpent
        <4> QED BY <2>1, <2>2, <2>3, <2>4, <3>1, <4>1
      <3>2. CASE ~(ev.type = "Infer" /\ Decide(state, ev) = Admit)
        <4>1. /\ state'.op_budget <= state.op_budget
              /\ state'.phase # Erased
                    => state.phase # Erased /\ state'.op_budget = state.op_budget
          BY <1>0, <1>1, <3>2, OperationsSpent
        <4> QED BY <2>1, <2>2, <2>3, <2>4, <3>2, <4>1
      <3> QED BY <3>1, <3>2
    <2> QED BY <2>4, <2>5, <2>6, <2>7 DEF BudgetAccounted, inferred, corrected
  <1> QED BY <1>1, <1>8, <1>9, <1>10 DEF LInv

LEMMA LedgerStep ==
    ASSUME LInv, [Next]_vars
    PROVE  LInv'
PROOF
  <1>1. CASE \E elapsed \in Readings : SetElapsed(elapsed)
    BY <1>1, SetElapsedPreserves
  <1>2. CASE \E ev \in Events : AdmitEvent(ev)
    BY <1>2, AdmitEventPreserves
  <1>3. CASE UNCHANGED vars
    BY <1>3
    DEF vars, LInv, Recording, HistoryIsComplete, Before, BudgetAccounted, AdmittedRecords
  <1> QED BY <1>1, <1>2, <1>3 DEF Next

\* The invariant holds in every reachable state of every ledger.
THEOREM LedgerInvariant == Spec => []LInv
PROOF
  <1>1. LInv /\ [Next]_vars => LInv'
    BY LedgerStep
  <1> QED BY <1>1, InitLInv, PTL DEF Spec

\* The ledger's records are gapless, chained to one another and to the state held now,
\* and the tail is their newest, for any capacity: ContainmentLedger::admit.
THEOREM HistoryComplete == Spec => []HistoryIsComplete
PROOF
  <1>1. LInv => HistoryIsComplete
    BY DEF LInv
  <1> QED BY <1>1, LedgerInvariant, PTL

\* Inferences and grants can be counted from the records, for any budget and chain:
\* step()'s charges against what admit() writes down.
THEOREM BudgetAuditable == Spec => []BudgetIsAudited
PROOF
  <1>1. ASSUME LInv
        PROVE  BudgetIsAudited
    <2> DEFINE inferred == Cardinality(AdmittedRecords("Infer"))
    <2>1. /\ inferred \in Nat
          /\ inferred + state.op_budget <= OpBudget
          /\ state.phase # Erased => inferred + state.op_budget = OpBudget
          /\ Cardinality(AdmittedRecords("HumanCorrection")) = state.corrections_consumed
      BY <1>1, FS_CardinalityType DEF LInv, BudgetAccounted
    <2>2. state.op_budget \in Nat /\ OpBudget \in Nat
      BY <1>1, ParameterAssumption, WidthAssumption DEF LInv, Sound, ContainmentState, U64
    <2> HIDE DEF inferred
    <2>3. inferred <= OpBudget /\ (state.phase # Erased => inferred = OpBudget - state.op_budget)
      BY <2>1, <2>2
    <2> QED BY <2>1, <2>3 DEF BudgetIsAudited, inferred
  <1> QED BY <1>1, LedgerInvariant, PTL

\* The handlers that report on the ledger leave it to admit(): with them, too, it is a
\* ledger, and the theorems above are about what they read.
THEOREM ReadersImplementLedger == ReadersSpec => Spec
PROOF
  <1>1. ReadersInit => Init
    BY DEF ReadersInit
  <1>2. ASSUME [ReadersNext]_readerVars
        PROVE  [Next]_vars
    <2>1. CASE Next /\ UNCHANGED reader
      BY <2>1
    <2>2. CASE StatusRead \/ VetoRead \/ AnswerRead \/ Respond
      BY <2>2 DEF StatusRead, VetoRead, AnswerRead, Respond
    <2>3. CASE VetoAdmit
      BY <2>3, ReadersAssumption DEF VetoAdmit, Next
    <2>4. CASE \E ev \in Events : CorrectionAdmit(ev)
      BY <2>4 DEF CorrectionAdmit, Next
    <2>5. CASE UNCHANGED readerVars
      BY <2>5 DEF readerVars, vars
    <2> QED BY <1>2, <2>1, <2>2, <2>3, <2>4, <2>5 DEF ReadersNext
  <1> QED BY <1>1, <1>2, PTL DEF ReadersSpec, Spec
-----------------------------------------------------------------------------
(* The handlers that report.                                               *)

\* The states that the records tell of, the provisioned one first.
Past == [i \in 0 .. next_seq |-> After(i)]

\* What /status has after its first k reads: a walk along the first n records.
StatusSoFar(k) == {StatusOrder[j] : j \in 1 .. k}
Walk(f, k, n, past) ==
    /\ DOMAIN f = StatusSoFar(k)
    /\ k >= 1 => f.counters \in 0 .. n
    /\ k = 2 => \E i \in f.counters .. n : f.state = past[i].phase_after
    /\ k >= 3 => /\ f.events \in f.counters .. n
                 /\ \E i \in f.counters .. f.events : f.state = past[i].phase_after
    /\ k >= 4 => f.chain_head \in f.events .. n
    /\ k >= 5 => \E i \in f.chain_head .. n :
                    /\ f.uncertainty.resolved = past[i].uncertainty_resolved_after
                    /\ f.uncertainty.corrections_consumed = past[i].corrections_consumed_after

\* Figures that are of the moment of a record or later.
Includes(after, resolved, peak, consumed) ==
    /\ after.uncertainty_resolved_after \in 0 .. resolved
    /\ after.peak_uncertainty_after \in 0 .. peak
    /\ after.corrections_consumed_after \in 0 .. consumed

\* A handler whose event is on record: the state held now, and an answer read since,
\* are of after that record.
OnRecord(f, record, n, past, s) ==
    record # 0 =>
        /\ record \in 1 .. n
        /\ Includes(past[record], s.uncertainty_resolved, s.peak_uncertainty,
                    s.corrections_consumed)
        /\ "answer" \in DOMAIN f => Includes(past[record], f.answer.resolved, f.answer.peak,
                                             f.answer.corrections_consumed)

\* What a veto read before it was arbitrated stays below the peak, now or on record.
VetoFigure(f, record, past, s) ==
    /\ "uncertainty" \in DOMAIN f
    /\ record = 0 => f.uncertainty.current \in 0 .. s.peak_uncertainty
    /\ record # 0 => f.uncertainty.current \in 0 .. past[record].peak_uncertainty_after

ReaderInv ==
    /\ reader = [kind |-> reader.kind, figures |-> reader.figures, record |-> reader.record]
    /\ reader.kind \in {"none", "status", "veto", "correction"}
    /\ reader.kind = "none" => reader = NoReader
    /\ reader.kind = "status" =>
          /\ reader.record = 0
          /\ \E k \in 0 .. 5 : Walk(reader.figures, k, next_seq, Past)
    /\ reader.kind = "veto" => VetoFigure(reader.figures, reader.record, Past, state)
    /\ reader.kind = "correction" =>
          reader.record # 0 /\ "uncertainty" \notin DOMAIN reader.figures
    /\ "answer" \in DOMAIN reader.figures => reader.record # 0
    /\ OnRecord(reader.figures, reader.record, next_seq, Past, state)

LEMMA StatusReads ==
    /\ Len(StatusOrder) = 5
    /\ StatusSoFar(0) = {} /\ StatusSoFar(1) = {"counters"}
    /\ StatusSoFar(2) = {"counters", "state"}
    /\ StatusSoFar(3) = {"counters", "state", "events"}
    /\ StatusSoFar(4) = {"counters", "state", "events", "chain_head"}
    /\ StatusSoFar(5) = {"counters", "state", "events", "chain_head", "uncertainty"}
    /\ \A k \in 0 .. 5 : Cardinality(StatusSoFar(k)) = k
PROOF
  <1>1. /\ StatusOrder[1] = "counters" /\ StatusOrder[2] = "state" /\ StatusOrder[3] = "events"
        /\ StatusOrder[4] = "chain_head" /\ StatusOrder[5] = "uncertainty"
        /\ Len(StatusOrder) = 5
    BY DEF StatusOrder
  <1>2. /\ StatusSoFar(0) = {} /\ StatusSoFar(1) = {"counters"}
        /\ StatusSoFar(2) = {"counters", "state"}
        /\ StatusSoFar(3) = {"counters", "state", "events"}
        /\ StatusSoFar(4) = {"counters", "state", "events", "chain_head"}
        /\ StatusSoFar(5) = {"counters", "state", "events", "chain_head", "uncertainty"}
    <2>1. /\ 1 .. 0 = {} /\ 1 .. 1 = {1} /\ 1 .. 2 = {1, 2} /\ 1 .. 3 = {1, 2, 3}
          /\ 1 .. 4 = {1, 2, 3, 4} /\ 1 .. 5 = {1, 2, 3, 4, 5}
      OBVIOUS
    <2> QED BY <1>1, <2>1 DEF StatusSoFar
  <1>3. /\ IsFiniteSet(StatusSoFar(0)) /\ Cardinality(StatusSoFar(0)) = 0
    BY <1>2, FS_EmptySet
  <1>4. /\ IsFiniteSet(StatusSoFar(1)) /\ Cardinality(StatusSoFar(1)) = 1
    <2>1. StatusSoFar(1) = StatusSoFar(0) \cup {"counters"} /\ "counters" \notin StatusSoFar(0)
      BY <1>2
    <2> QED BY <1>3, <2>1, FS_AddElement
  <1>5. /\ IsFiniteSet(StatusSoFar(2)) /\ Cardinality(StatusSoFar(2)) = 2
    <2>1. StatusSoFar(2) = StatusSoFar(1) \cup {"state"} /\ "state" \notin StatusSoFar(1)
      BY <1>2
    <2> QED BY <1>4, <2>1, FS_AddElement
  <1>6. /\ IsFiniteSet(StatusSoFar(3)) /\ Cardinality(StatusSoFar(3)) = 3
    <2>1. StatusSoFar(3) = StatusSoFar(2) \cup {"events"} /\ "events" \notin StatusSoFar(2)
      BY <1>2
    <2> QED BY <1>5, <2>1, FS_AddElement
  <1>7. /\ IsFiniteSet(StatusSoFar(4)) /\ Cardinality(StatusSoFar(4)) = 4
    <2>1. StatusSoFar(4) = StatusSoFar(3) \cup {"chain_head"} /\ "chain_head" \notin StatusSoFar(3)
      BY <1>2
    <2> QED BY <1>6, <2>1, FS_AddElement
  <1>8. Cardinality(StatusSoFar(5)) = 5
    <2>1. StatusSoFar(5) = StatusSoFar(4) \cup {"uncertainty"} /\ "uncertainty" \notin StatusSoFar(4)
      BY <1>2
    <2> QED BY <1>7, <2>1, FS_AddElement
  <1>9. \A k \in 0 .. 5 : k = 0 \/ k = 1 \/ k = 2 \/ k = 3 \/ k = 4 \/ k = 5
    OBVIOUS
  <1> QED BY <1>1, <1>2, <1>3, <1>4, <1>5, <1>6, <1>7, <1>8, <1>9

\* More records behind it do not change a walk.
LEMMA WalkGoesOn ==
    ASSUME NEW f, NEW k \in 0 .. 5, NEW n \in Nat, NEW past, Walk(f, k, n, past),
           NEW m \in Nat, n <= m, NEW now, \A i \in 0 .. n : now[i] = past[i]
    PROVE  Walk(f, k, m, now)
PROOF
  <1>1. k >= 1 => f.counters \in 0 .. m
    BY DEF Walk
  <1>2. k = 2 => \E i \in f.counters .. m : f.state = now[i].phase_after
    <2>1. SUFFICES ASSUME k = 2
                   PROVE  \E i \in f.counters .. m : f.state = now[i].phase_after
      OBVIOUS
    <2>2. f.counters \in 0 .. n
      BY <2>1 DEF Walk
    <2>3. PICK i \in f.counters .. n : f.state = past[i].phase_after
      BY <2>1 DEF Walk
    <2>4. i \in 0 .. n /\ i \in f.counters .. m
      BY <2>2
    <2> QED BY <2>3, <2>4
  <1>3. k >= 3 => /\ f.events \in f.counters .. m
                  /\ \E i \in f.counters .. f.events : f.state = now[i].phase_after
    <2>1. SUFFICES ASSUME k >= 3
                   PROVE  /\ f.events \in f.counters .. m
                          /\ \E i \in f.counters .. f.events : f.state = now[i].phase_after
      OBVIOUS
    <2>2. f.counters \in 0 .. n /\ f.events \in f.counters .. n
      BY <2>1 DEF Walk
    <2>3. PICK i \in f.counters .. f.events : f.state = past[i].phase_after
      BY <2>1 DEF Walk
    <2>4. i \in 0 .. n
      BY <2>2
    <2> QED BY <2>2, <2>3, <2>4
  <1>4. k >= 4 => f.chain_head \in f.events .. m
    <2>1. k >= 4 => f.counters \in 0 .. n /\ f.events \in f.counters .. n
                    /\ f.chain_head \in f.events .. n
      BY DEF Walk
    <2> QED BY <2>1
  <1>5. k >= 5 => \E i \in f.chain_head .. m :
                    /\ f.uncertainty.resolved = now[i].uncertainty_resolved_after
                    /\ f.uncertainty.corrections_consumed = now[i].corrections_consumed_after
    <2>1. SUFFICES ASSUME k >= 5
                   PROVE  \E i \in f.chain_head .. m :
                    /\ f.uncertainty.resolved = now[i].uncertainty_resolved_after
                    /\ f.uncertainty.corrections_consumed = now[i].corrections_consumed_after
      OBVIOUS
    <2>2. /\ f.counters \in 0 .. n /\ f.events \in f.counters .. n
          /\ f.chain_head \in f.events .. n
      BY <2>1 DEF Walk
    <2>3. PICK i \in f.chain_head .. n :
                    /\ f.uncertainty.resolved = past[i].uncertainty_resolved_after
                    /\ f.uncertainty.corrections_consumed = past[i].corrections_consumed_after
      BY <2>1 DEF Walk
    <2>4. i \in 0 .. n /\ i \in f.chain_head .. m
      BY <2>2
    <2> QED BY <2>3, <2>4
  <1> QED BY <1>1, <1>2, <1>3, <1>4, <1>5 DEF Walk

\* A step of the ledger keeps its records and only moves the monitor on.
LEMMA LedgerMovesOn ==
    ASSUME LInv, [Next]_vars
    PROVE  /\ next_seq \in Nat /\ next_seq' \in Nat /\ next_seq <= next_seq'
           /\ \A i \in 0 .. next_seq : Past'[i] = Past[i]
           /\ /\ state.uncertainty_resolved \in Nat /\ state'.uncertainty_resolved \in Nat
              /\ state.peak_uncertainty \in Nat /\ state'.peak_uncertainty \in Nat
              /\ state.corrections_consumed \in Nat /\ state'.corrections_consumed \in Nat
           /\ state'.uncertainty_resolved >= state.uncertainty_resolved
           /\ state'.peak_uncertainty >= state.peak_uncertainty
           /\ state'.corrections_consumed >= state.corrections_consumed
PROOF
  <1>0. LInv'
    BY LedgerStep
  <1>1. \A s : Sound(s) => /\ s.uncertainty_resolved \in Nat /\ s.peak_uncertainty \in Nat
                           /\ s.corrections_consumed \in Nat
    BY WidthAssumption DEF Sound, ContainmentState, U64
  <1>2. Sound(state) /\ Sound(state') /\ next_seq \in Nat /\ next_seq' \in Nat
    BY <1>0 DEF LInv, Recording
  <1>3. CASE \E elapsed \in Readings : SetElapsed(elapsed)
    <2>1. PICK elapsed \in Readings : SetElapsed(elapsed)
      BY <1>3
    <2>2. /\ state'.uncertainty_resolved = state.uncertainty_resolved
          /\ state'.peak_uncertainty = state.peak_uncertainty
          /\ state'.corrections_consumed = state.corrections_consumed
      BY <1>2, <2>1 DEF SetElapsed, WithElapsed, Sound, ContainmentState
    <2>3. Past' = Past /\ next_seq' = next_seq
      BY <2>1 DEF SetElapsed, Past, After, Before
    <2> QED BY <1>1, <1>2, <2>2, <2>3
  <1>4. CASE \E ev \in Events : AdmitEvent(ev)
    <2>1. PICK ev \in Events : AdmitEvent(ev)
      BY <1>4
    <2>2. ev \in Event /\ AnchorOnChain(state)
      BY LedgerAssumption DEF LInv
    <2>3. Precedes(state, state')
      BY <1>2, <2>1, <2>2, StepSound DEF AdmitEvent, Commit
    <2>4. next_seq' = next_seq + 1 /\ chain_digest' = Append(chain_digest, LedgerRecord(ev))
      BY <2>1 DEF AdmitEvent
    <2>5. PICK S : chain_digest \in Seq(S) /\ Len(chain_digest) = next_seq
      BY DEF LInv, Recording
    <2>6. \A i \in 1 .. next_seq : chain_digest'[i] = chain_digest[i]
      BY <1>2, <2>4, <2>5
    <2>7. \A i \in 0 .. next_seq : Past'[i] = Past[i]
      <3>1. TAKE i \in 0 .. next_seq
      <3>2. i \in 0 .. next_seq' /\ (i + 1) - 1 = i
        BY <1>2, <2>4
      <3>3. /\ Past'[i] = IF i + 1 = 1 THEN Recorded(NewState) ELSE chain_digest'[i].after
            /\ Past[i] = IF i + 1 = 1 THEN Recorded(NewState) ELSE chain_digest[i].after
        BY <3>2 DEF Past, After, Before
      <3>4. i + 1 = 1 \/ i \in 1 .. next_seq
        BY <1>2
      <3> QED BY <2>6, <3>3, <3>4
    <2> QED BY <1>1, <1>2, <2>3, <2>4, <2>7 DEF Precedes
  <1>5. CASE UNCHANGED vars
    BY <1>1, <1>2, <1>5 DEF vars, Past, After, Before
  <1> QED BY <1>3, <1>4, <1>5 DEF Next

\* The state held now is the one that the last record left.
LEMMA NowIsOnRecord ==
    ASSUME LInv
    PROVE  /\ next_seq \in Nat /\ Past[next_seq] = Recorded(state)
           /\ admitted + denied = next_seq /\ Len(chain_digest) = next_seq
PROOF
  <1>1. /\ next_seq \in Nat /\ Len(chain_digest) = next_seq
        /\ Recorded(state) = Before(next_seq + 1) /\ admitted + denied = next_seq
    BY DEF LInv, Recording, HistoryIsComplete
  <1>2. next_seq \in 0 .. next_seq
    BY <1>1
  <1> QED BY <1>1, <1>2 DEF Past, After

\* Whatever the ledger does behind a handler's back leaves its figures true.
LEMMA LedgerKeepsReader ==
    ASSUME LInv, ReaderInv, [Next]_vars, reader' = reader
    PROVE  ReaderInv'
PROOF
  <1>0. /\ next_seq \in Nat /\ next_seq' \in Nat /\ next_seq <= next_seq'
        /\ \A i \in 0 .. next_seq : Past'[i] = Past[i]
        /\ state.uncertainty_resolved \in Nat /\ state'.uncertainty_resolved \in Nat
        /\ state.peak_uncertainty \in Nat /\ state'.peak_uncertainty \in Nat
        /\ state.corrections_consumed \in Nat /\ state'.corrections_consumed \in Nat
        /\ state'.uncertainty_resolved >= state.uncertainty_resolved
        /\ state'.peak_uncertainty >= state.peak_uncertainty
        /\ state'.corrections_consumed >= state.corrections_consumed
    BY LedgerMovesOn
  <1> DEFINE f == reader.figures   record == reader.record
  <1>1. reader.kind = "status" => \E k \in 0 .. 5 : Walk(f, k, next_seq', Past')
    <2>1. SUFFICES ASSUME reader.kind = "status"
                   PROVE  \E k \in 0 .. 5 : Walk(f, k, next_seq', Past')
      OBVIOUS
    <2>2. PICK k \in 0 .. 5 : Walk(f, k, next_seq, Past)
      BY <2>1 DEF ReaderInv
    <2>3. Walk(f, k, next_seq', Past')
      BY <1>0, <2>2, WalkGoesOn
    <2> QED BY <2>3
  <1>2. record # 0 => record \in 1 .. next_seq /\ Past'[record] = Past[record]
                      /\ record \in 1 .. next_seq'
    BY <1>0 DEF ReaderInv, OnRecord
  <1>3. OnRecord(f, record, next_seq', Past', state')
    <2>1. SUFFICES ASSUME record # 0
                   PROVE  Includes(Past[record], state'.uncertainty_resolved,
                                   state'.peak_uncertainty, state'.corrections_consumed)
      BY <1>2 DEF ReaderInv, OnRecord
    <2>2. Includes(Past[record], state.uncertainty_resolved, state.peak_uncertainty,
                   state.corrections_consumed)
      BY <2>1 DEF ReaderInv, OnRecord
    <2>3. \A x, a, b : x \in 0 .. a /\ a \in Nat /\ b \in Nat /\ b >= a => x \in 0 .. b
      OBVIOUS
    <2> QED BY <1>0, <2>2, <2>3 DEF Includes
  <1>4. reader.kind = "veto" => VetoFigure(f, record, Past', state')
    <2>1. SUFFICES ASSUME reader.kind = "veto", VetoFigure(f, record, Past, state)
                   PROVE  VetoFigure(f, record, Past', state')
      BY DEF ReaderInv
    <2>2. record = 0 => f.uncertainty.current <= state'.peak_uncertainty
      BY <1>0, <2>1 DEF VetoFigure
    <2> QED BY <1>2, <2>1, <2>2 DEF VetoFigure
  <1> QED BY <1>1, <1>3, <1>4 DEF ReaderInv

\* One more figure is read, of now, and the others stay.
LEMMA ReadAddsFigure ==
    ASSUME NEW kind, NEW name, NEW record, Read(kind, name, record)
    PROVE  /\ reader' = [kind |-> kind, figures |-> reader'.figures, record |-> record]
           /\ DOMAIN reader'.figures = DOMAIN reader.figures \cup {name}
           /\ reader'.figures[name] = Figure(name)
           /\ \A x \in DOMAIN reader.figures : x # name => reader'.figures[x] = reader.figures[x]
  BY DEF Read

LEMMA StatusReadKeepsReader ==
    ASSUME LInv, ReaderInv, StatusRead
    PROVE  ReaderInv'
PROOF
  <1> DEFINE f == reader.figures   g == reader'.figures   n == next_seq
  <1>1. PICK k \in 0 .. 5 : Walk(f, k, n, Past)
    <2>1. CASE reader.kind = "status"
      BY <2>1 DEF ReaderInv
    <2>2. CASE reader.kind = "none"
      <3>1. DOMAIN f = {}
        BY <2>2 DEF ReaderInv, NoReader
      <3>2. Walk(f, 0, n, Past)
        BY <3>1, StatusReads DEF Walk
      <3> QED BY <3>2
    <2> QED BY <2>1, <2>2 DEF StatusRead
  <1>2. FiguresRead = k
    BY <1>1, StatusReads DEF FiguresRead, Walk
  <1>3. k \in 0 .. 4 /\ Read("status", StatusOrder[k + 1], 0)
    BY <1>2, StatusReads DEF StatusRead
  <1>4. /\ DOMAIN g = DOMAIN f \cup {StatusOrder[k + 1]}
        /\ g[StatusOrder[k + 1]] = Figure(StatusOrder[k + 1])
        /\ \A x \in DOMAIN f : x # StatusOrder[k + 1] => g[x] = f[x]
        /\ reader' = [kind |-> "status", figures |-> g, record |-> 0]
    BY <1>3, ReadAddsFigure
  <1>5. UNCHANGED vars /\ next_seq' = n /\ Past' = Past
    BY DEF StatusRead, vars, Past, After, Before
  <1>6. /\ n \in Nat /\ Past[n] = Recorded(state)
        /\ admitted + denied = n /\ Len(chain_digest) = n
    BY NowIsOnRecord
  <1> HIDE DEF g, f, n
  <1>7. Walk(g, k + 1, n, Past)
    <2>0. DOMAIN f = StatusSoFar(k)
      BY <1>1 DEF Walk
    <2>1. CASE k = 0
      <3>1. StatusOrder[k + 1] = "counters" /\ Figure("counters") = n
        BY <1>6, <2>1 DEF StatusOrder, Figure
      <3>2. DOMAIN g = StatusSoFar(1) /\ g.counters = n
        BY <1>4, <2>0, <2>1, <3>1, StatusReads
      <3> QED BY <1>6, <2>1, <3>2 DEF Walk
    <2>2. CASE k = 1
      <3>1. StatusOrder[k + 1] = "state" /\ Figure("state") = state.phase
        BY <2>2 DEF StatusOrder, Figure
      <3>2. DOMAIN g = StatusSoFar(2) /\ g.state = state.phase /\ g.counters = f.counters
        BY <1>4, <2>0, <2>2, <3>1, StatusReads
      <3>3. f.counters \in 0 .. n
        BY <1>1, <2>2 DEF Walk
      <3>4. n \in g.counters .. n /\ g.state = Past[n].phase_after
        BY <1>6, <3>2, <3>3 DEF Recorded
      <3> QED BY <2>2, <3>2, <3>3, <3>4 DEF Walk
    <2>3. CASE k = 2
      <3>1. StatusOrder[k + 1] = "events" /\ Figure("events") = n
        BY <2>3 DEF StatusOrder, Figure, n
      <3>2. DOMAIN g = StatusSoFar(3) /\ g.events = n
            /\ g.counters = f.counters /\ g.state = f.state
        BY <1>4, <2>0, <2>3, <3>1, StatusReads
      <3>3. f.counters \in 0 .. n /\ \E i \in f.counters .. n : f.state = Past[i].phase_after
        BY <1>1, <2>3 DEF Walk
      <3>4. g.counters \in 0 .. n /\ g.events \in g.counters .. n
            /\ \E i \in g.counters .. g.events : g.state = Past[i].phase_after
        BY <1>6, <3>2, <3>3
      <3> QED BY <2>3, <3>2, <3>4 DEF Walk
    <2>4. CASE k = 3
      <3>1. StatusOrder[k + 1] = "chain_head" /\ Figure("chain_head") = n
        BY <1>6, <2>4 DEF StatusOrder, Figure
      <3>2. DOMAIN g = StatusSoFar(4) /\ g.chain_head = n
            /\ g.counters = f.counters /\ g.state = f.state /\ g.events = f.events
        BY <1>4, <2>0, <2>4, <3>1, StatusReads
      <3>3. /\ f.counters \in 0 .. n /\ f.events \in f.counters .. n
            /\ \E i \in f.counters .. f.events : f.state = Past[i].phase_after
        BY <1>1, <2>4 DEF Walk
      <3>4. g.chain_head \in g.events .. n
        BY <1>6, <3>2, <3>3
      <3> QED BY <2>4, <3>2, <3>3, <3>4 DEF Walk
    <2>5. CASE k = 4
      <3>1. StatusOrder[k + 1] = "uncertainty" /\ Figure("uncertainty") = Trajectory
        BY <2>5 DEF StatusOrder, Figure
      <3>2. DOMAIN g = StatusSoFar(5) /\ g.uncertainty = Trajectory
            /\ g.counters = f.counters /\ g.state = f.state /\ g.events = f.events
            /\ g.chain_head = f.chain_head
        BY <1>4, <2>0, <2>5, <3>1, StatusReads
      <3>3. /\ f.counters \in 0 .. n /\ f.events \in f.counters .. n
            /\ \E i \in f.counters .. f.events : f.state = Past[i].phase_after
            /\ f.chain_head \in f.events .. n
        BY <1>1, <2>5 DEF Walk
      <3>4. /\ n \in g.chain_head .. n
            /\ g.uncertainty.resolved = Past[n].uncertainty_resolved_after
            /\ g.uncertainty.corrections_consumed = Past[n].corrections_consumed_after
        BY <1>6, <3>2, <3>3 DEF Recorded, Trajectory
      <3> QED BY <2>5, <3>2, <3>3, <3>4 DEF Walk
    <2> QED BY <1>3, <2>1, <2>2, <2>3, <2>4, <2>5
  <1>8. "answer" \notin DOMAIN g
    <2>1. \A j \in 0 .. 5 : "answer" \notin StatusSoFar(j)
      <3>1. \A j \in 0 .. 5 : j = 0 \/ j = 1 \/ j = 2 \/ j = 3 \/ j = 4 \/ j = 5
        OBVIOUS
      <3> QED BY <3>1, StatusReads
    <2> QED BY <1>3, <1>7, <2>1 DEF Walk
  <1>9. k + 1 \in 0 .. 5
    BY <1>3
  <1> QED BY <1>4, <1>5, <1>7, <1>8, <1>9 DEF ReaderInv, OnRecord, g, n

\* What is read of the monitor's uncertainty.
LEMMA TrajectoryNow ==
    ASSUME LInv
    PROVE  /\ Trajectory.resolved = state.uncertainty_resolved
           /\ Trajectory.peak = state.peak_uncertainty
           /\ Trajectory.corrections_consumed = state.corrections_consumed
           /\ Trajectory.current \in 0 .. state.peak_uncertainty
PROOF
  <1>1. /\ state.uncertainty_incurred \in Nat /\ state.uncertainty_resolved \in Nat
        /\ state.peak_uncertainty \in Nat
        /\ NetUncertainty(state) <= state.peak_uncertainty
    BY WidthAssumption DEF LInv, Sound, ContainmentState, U64
  <1>2. Trajectory.current = NetUncertainty(state)
    BY DEF Trajectory, NetUncertainty, SaturatingSub
  <1>3. NetUncertainty(state) \in Nat
    BY <1>1 DEF NetUncertainty, SaturatingSub
  <1> QED BY <1>1, <1>2, <1>3 DEF Trajectory

LEMMA VetoReadKeepsReader ==
    ASSUME LInv, ReaderInv, VetoRead
    PROVE  ReaderInv'
PROOF
  <1>1. reader = NoReader /\ Read("veto", "uncertainty", 0) /\ UNCHANGED vars
    BY DEF VetoRead
  <1>2. DOMAIN reader.figures = {}
    BY <1>1 DEF NoReader
  <1>3. /\ DOMAIN reader'.figures = {"uncertainty"}
        /\ reader'.figures.uncertainty = Trajectory
        /\ reader' = [kind |-> "veto", figures |-> reader'.figures, record |-> 0]
    BY <1>1, <1>2, ReadAddsFigure DEF Figure
  <1>4. state' = state /\ next_seq' = next_seq
    BY <1>1 DEF vars
  <1>5. VetoFigure(reader'.figures, 0, Past', state')
    BY <1>3, <1>4, TrajectoryNow DEF VetoFigure
  <1>6. OnRecord(reader'.figures, 0, next_seq', Past', state')
    BY DEF OnRecord
  <1> QED BY <1>3, <1>5, <1>6 DEF ReaderInv

\* The event goes on record: what was read before is below its peak, and what it left
\* is the state held now.
LEMMA GoesOnRecord ==
    ASSUME LInv, NEW ev \in Events, AdmitEvent(ev)
    PROVE  /\ next_seq' \in 1 .. next_seq' /\ next_seq' # 0
           /\ Includes(Past'[next_seq'], state'.uncertainty_resolved,
                       state'.peak_uncertainty, state'.corrections_consumed)
           /\ state.peak_uncertainty \in Nat
           /\ Past'[next_seq'].peak_uncertainty_after \in Nat
           /\ Past'[next_seq'].peak_uncertainty_after >= state.peak_uncertainty
PROOF
  <1>1. [Next]_vars
    BY DEF Next
  <1>2. LInv'
    BY <1>1, LedgerStep
  <1>3. next_seq \in Nat /\ next_seq' = next_seq + 1
    BY DEF LInv, Recording, AdmitEvent
  <1>4. Past'[next_seq'] = Recorded(state')
    <2>1. next_seq' \in 0 .. next_seq' /\ Recorded(state') = Before(next_seq + 1)'
      BY <1>2, <1>3 DEF LInv, Recording, HistoryIsComplete
    <2> QED BY <2>1 DEF Past, After
  <1>5. /\ state.peak_uncertainty \in Nat
        /\ state'.uncertainty_resolved \in Nat /\ state'.peak_uncertainty \in Nat
        /\ state'.corrections_consumed \in Nat
        /\ state'.peak_uncertainty >= state.peak_uncertainty
    BY <1>1, LedgerMovesOn
  <1>6. /\ Past'[next_seq'].uncertainty_resolved_after = state'.uncertainty_resolved
        /\ Past'[next_seq'].peak_uncertainty_after = state'.peak_uncertainty
        /\ Past'[next_seq'].corrections_consumed_after = state'.corrections_consumed
    BY <1>4 DEF Recorded
  <1> QED BY <1>3, <1>5, <1>6 DEF Includes

LEMMA VetoAdmitKeepsReader ==
    ASSUME LInv, ReaderInv, VetoAdmit
    PROVE  ReaderInv'
PROOF
  <1> DEFINE ev == [type |-> "RequestHumanVeto"]
  <1>1. ev \in Events /\ AdmitEvent(ev)
    BY ReadersAssumption DEF VetoAdmit
  <1>2. reader.kind = "veto" /\ reader.record = 0 /\ "answer" \notin DOMAIN reader.figures
    BY DEF VetoAdmit, ReaderInv
  <1> HIDE DEF ev
  <1>3. CASE reader' = NoReader
    BY <1>3 DEF ReaderInv, NoReader, OnRecord
  <1>4. CASE reader' = [reader EXCEPT !.record = next_seq']
    <2>1. reader' = [kind |-> "veto", figures |-> reader.figures, record |-> next_seq']
      BY <1>2, <1>4 DEF ReaderInv
    <2>2. /\ "uncertainty" \in DOMAIN reader.figures
          /\ reader.figures.uncertainty.current \in 0 .. state.peak_uncertainty
      BY <1>2 DEF ReaderInv, VetoFigure
    <2>3. /\ next_seq' \in 1 .. next_seq' /\ next_seq' # 0
          /\ Includes(Past'[next_seq'], state'.uncertainty_resolved,
                      state'.peak_uncertainty, state'.corrections_consumed)
          /\ state.peak_uncertainty \in Nat
          /\ Past'[next_seq'].peak_uncertainty_after \in Nat
          /\ Past'[next_seq'].peak_uncertainty_after >= state.peak_uncertainty
      BY <1>1, GoesOnRecord
    <2>4. VetoFigure(reader.figures, next_seq', Past', state')
      BY <2>2, <2>3 DEF VetoFigure
    <2>5. OnRecord(reader.figures, next_seq', next_seq', Past', state')
      BY <1>2, <2>3 DEF OnRecord
    <2> QED BY <1>2, <2>1, <2>3, <2>4, <2>5 DEF ReaderInv
  <1> QED BY <1>3, <1>4 DEF VetoAdmit

LEMMA CorrectionAdmitKeepsReader ==
    ASSUME LInv, ReaderInv, NEW ev \in Events, CorrectionAdmit(ev)
    PROVE  ReaderInv'
PROOF
  <1>1. AdmitEvent(ev) /\ reader' = [NoReader EXCEPT !.kind = "correction", !.record = next_seq']
    BY DEF CorrectionAdmit
  <1>2. reader' = [kind |-> "correction", figures |-> << >>, record |-> next_seq']
    BY <1>1 DEF NoReader
  <1>3. DOMAIN reader'.figures = {}
    BY <1>2
  <1>4. /\ next_seq' \in 1 .. next_seq' /\ next_seq' # 0
        /\ Includes(Past'[next_seq'], state'.uncertainty_resolved,
                    state'.peak_uncertainty, state'.corrections_consumed)
    BY <1>1, GoesOnRecord
  <1>5. OnRecord(reader'.figures, next_seq', next_seq', Past', state')
    BY <1>3, <1>4 DEF OnRecord
  <1> QED BY <1>2, <1>3, <1>4, <1>5 DEF ReaderInv

LEMMA AnswerReadKeepsReader ==
    ASSUME LInv, ReaderInv, AnswerRead
    PROVE  ReaderInv'
PROOF
  <1> DEFINE f == reader.figures   g == reader'.figures   record == reader.record
  <1>1. /\ record # 0 /\ "answer" \notin DOMAIN f /\ Read(reader.kind, "answer", record)
        /\ UNCHANGED vars
    BY DEF AnswerRead
  <1>2. /\ reader' = [kind |-> reader.kind, figures |-> g, record |-> record]
        /\ DOMAIN g = DOMAIN f \cup {"answer"} /\ g["answer"] = Figure("answer")
        /\ \A x \in DOMAIN f : x # "answer" => g[x] = f[x]
    BY <1>1, ReadAddsFigure
  <1>3. g.answer = Trajectory
    BY <1>2 DEF Figure
  <1>4. state' = state /\ next_seq' = next_seq /\ Past' = Past
    BY <1>1 DEF vars, Past, After, Before
  <1>5. OnRecord(g, record, next_seq, Past, state)
    BY <1>3, TrajectoryNow DEF ReaderInv, OnRecord
  <1>6. reader.kind = "veto" => VetoFigure(g, record, Past, state)
    BY <1>1, <1>2 DEF ReaderInv, VetoFigure
  <1>7. reader.kind \in {"veto", "correction"}
    BY <1>1 DEF ReaderInv, NoReader
  <1>8. reader.kind = "correction" => record # 0 /\ "uncertainty" \notin DOMAIN g
    BY <1>1, <1>2 DEF ReaderInv
  <1> HIDE DEF g
  <1> QED BY <1>1, <1>2, <1>4, <1>5, <1>6, <1>7, <1>8 DEF ReaderInv, g

\* Between the reads of a handler anything may be arbitrated; what it has read so far
\* stays a walk along the records.
THEOREM ReadersInvariant == ReadersSpec => []ReaderInv
PROOF
  <1>1. ReadersInit => ReaderInv
    BY DEF ReadersInit, ReaderInv, NoReader, OnRecord
  <1>2. LInv /\ ReaderInv /\ [ReadersNext]_readerVars => ReaderInv'
    <2> SUFFICES ASSUME LInv, ReaderInv, [ReadersNext]_readerVars
                 PROVE  ReaderInv'
      OBVIOUS
    <2>1. CASE [Next]_vars /\ UNCHANGED reader
      BY <2>1, LedgerKeepsReader
    <2>2. CASE Respond
      <3>1. reader' = NoReader
        BY <2>2 DEF Respond
      <3> QED BY <3>1 DEF ReaderInv, NoReader, OnRecord
    <2>3. CASE UNCHANGED readerVars
      BY <2>1, <2>3 DEF readerVars
    <2> QED BY <2>1, <2>2, <2>3, StatusReadKeepsReader, VetoReadKeepsReader,
               VetoAdmitKeepsReader, AnswerReadKeepsReader, CorrectionAdmitKeepsReader
            DEF ReadersNext
  <1>3. ReadersSpec => []LInv
    BY ReadersImplementLedger, LedgerInvariant, PTL
  <1> QED BY <1>1, <1>2, <1>3, PTL DEF ReadersSpec

\* Whatever comes in between, a handler's answer is a walk along the ledger: figures
\* in the order of the reads, and answers that include the caller's own record
\* (status_handler, request_human_veto, apply_human_correction).
THEOREM ReportsFollow == ReadersSpec => []ReportsFollowTheLedger
PROOF
  <1>1. LInv /\ ReaderInv => ReportsFollowTheLedger
    <2> SUFFICES ASSUME LInv, ReaderInv, Answered
                 PROVE  ReportsFollowTheLedger
      BY DEF ReportsFollowTheLedger
    <2> DEFINE f == reader.figures   n == next_seq
    <2>0. n \in Nat /\ \A i \in 0 .. n : Past[i] = After(i)
      BY NowIsOnRecord DEF Past
    <2>1. ASSUME reader.kind = "status"
          PROVE  /\ f.counters <= f.events /\ f.events <= f.chain_head
                 /\ \E i \in f.counters .. f.events : f.state = After(i).phase_after
                 /\ \E i \in f.chain_head .. n :
                       /\ f.uncertainty.resolved = After(i).uncertainty_resolved_after
                       /\ f.uncertainty.corrections_consumed
                            = After(i).corrections_consumed_after
      <3>1. PICK k \in 0 .. 5 : Walk(f, k, n, Past)
        BY <2>1 DEF ReaderInv
      <3>2. "answer" \notin DOMAIN f
        BY <2>1 DEF ReaderInv
      <3>3. FiguresRead = 5
        BY <3>2, StatusReads DEF Answered
      <3>4. k = 5
        BY <3>1, <3>3, StatusReads DEF FiguresRead, Walk
      <3>5. /\ f.counters \in 0 .. n /\ f.events \in f.counters .. n
            /\ f.chain_head \in f.events .. n
        BY <3>1, <3>4 DEF Walk
      <3>6. PICK i \in f.counters .. f.events : f.state = Past[i].phase_after
        BY <3>1, <3>4 DEF Walk
      <3>7. PICK j \in f.chain_head .. n :
               /\ f.uncertainty.resolved = Past[j].uncertainty_resolved_after
               /\ f.uncertainty.corrections_consumed = Past[j].corrections_consumed_after
        BY <3>1, <3>4 DEF Walk
      <3>8. i \in 0 .. n /\ j \in 0 .. n
        BY <2>0, <3>5
      <3>9. f.counters <= f.events /\ f.events <= f.chain_head
        BY <2>0, <3>5
      <3> HIDE DEF f, n
      <3> QED BY <2>0, <3>6, <3>7, <3>8, <3>9
    <2>2. ASSUME reader.kind \in {"veto", "correction"}
          PROVE  /\ reader.record # 0 /\ "answer" \in DOMAIN f
                 /\ Past[reader.record] = After(reader.record)
      <3>1. "answer" \in DOMAIN f
        BY <2>2 DEF Answered
      <3>2. reader.record # 0 /\ reader.record \in 1 .. n
        BY <3>1 DEF ReaderInv, OnRecord
      <3> QED BY <2>0, <3>1, <3>2
    <2>3. ASSUME reader.kind = "veto"
          PROVE  f.uncertainty.current <= After(reader.record).peak_uncertainty_after
      BY <2>2, <2>3 DEF ReaderInv, VetoFigure
    <2>4. ASSUME reader.kind \in {"veto", "correction"}
          PROVE  /\ f.answer.resolved >= After(reader.record).uncertainty_resolved_after
                 /\ f.answer.peak >= After(reader.record).peak_uncertainty_after
                 /\ f.answer.corrections_consumed
                      >= After(reader.record).corrections_consumed_after
      BY <2>2, <2>4 DEF ReaderInv, OnRecord, Includes
    <2> QED BY <2>1, <2>3, <2>4 DEF ReportsFollowTheLedger
  <1>2. ReadersSpec => []LInv
    BY ReadersImplementLedger, LedgerInvariant, PTL
  <1> QED BY <1>1, <1>2, ReadersInvariant, PTL


\* The startup check passes in the state the agent starts from, whatever its tokens.
THEOREM StartupCheckSucceeds == ReadersSpec => []StartupCheckPasses
PROOF
  <1>1. StartupCheckPasses
    BY StartupCheckHolds DEF StartupCheckPasses
  <1> QED BY <1>1, PTL
=============================================================================
