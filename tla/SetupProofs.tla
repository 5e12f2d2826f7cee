----------------------------- MODULE SetupProofs -----------------------------
(***************************************************************************)
(* The trusted setup: the ceremony, its files, and the transcripts that    *)
(* provers are set up from, for any group, any number of participants,     *)
(* desks and files, and contributions handed in at any time.               *)
(***************************************************************************)
EXTENDS Ceremony, CeremonyFiles, TrustedSetup, WellFoundedInduction, SequenceTheorems, TLAPS

\* What a participant may have computed, and from what.
Challenged1(c) ==
    \E challenge, tau :
        /\ challenge.contribution_index \in Nat /\ tau \in Secrets
        /\ c = Contribution1(challenge, tau)
Challenged2(c) ==
    \E p, index : index \in Nat /\ c = Contribution2([phase1 |-> p, contribution_index |-> index])

\* Every contribution that counts was recorded, in the coordinator's parameters as in
\* the keys; an outbox holds what was computed from some challenge, maybe not the
\* current one.
CInv ==
    /\ transcript \in [phase1 : Nat, phase2 : Nat]
    /\ phase1 # None => phase1[1].contribution_index \in 0 .. transcript.phase1
    /\ phase2 # None =>
          /\ phase2 = << [phase1 |-> phase2[1].phase1,
                          contribution_index |-> phase2[1].contribution_index] >>
          /\ phase2[1].contribution_index \in 0 .. transcript.phase2
          /\ phase2[1].phase1.contribution_index \in 1 .. transcript.phase1
    /\ \A p \in Participant :
          /\ outbox1[p] # None => Challenged1(outbox1[p][1])
          /\ outbox2[p] # None => Challenged2(outbox2[p][1])
    /\ outbox1 = [p \in Participant |-> outbox1[p]]
    /\ outbox2 = [p \in Participant |-> outbox2[p]]
    /\ KeysAreAccountedFor

-----------------------------------------------------------------------------
(* The coordinator.                                                        *)

\* An accepted contribution to phase 1 is the next one, by somebody's exponent.
LEMMA NextContribution1 ==
    ASSUME NEW c, Challenged1(c), NEW previous, Verify1(c, previous)
    PROVE  /\ c.new_parameters.contribution_index = previous.contribution_index + 1
           /\ previous.contribution_index \in Nat
           /\ \E tau \in Secrets :
                 /\ c.new_parameters.tau_powers_g1 = Scale(previous.tau_powers_g1, tau)
                 /\ c.new_parameters.tau_powers_g2 = Scale(previous.tau_powers_g2, tau)
PROOF
  <1>1. PICK challenge, tau : /\ challenge.contribution_index \in Nat /\ tau \in Secrets
                              /\ c = Contribution1(challenge, tau)
    BY DEF Challenged1
  <1>2. /\ c.parent_challenge = ChallengeHash(challenge)
        /\ c.new_parameters.contribution_index = challenge.contribution_index + 1
        /\ c.new_parameters.tau_powers_g1 = Scale(challenge.tau_powers_g1, tau)
        /\ c.new_parameters.tau_powers_g2 = Scale(challenge.tau_powers_g2, tau)
    BY <1>1 DEF Contribution1
  <1>3. ChallengeHash(challenge) = ChallengeHash(previous)
    BY <1>2 DEF Verify1
  <1>4. /\ challenge.contribution_index = previous.contribution_index
        /\ challenge.tau_powers_g1 = previous.tau_powers_g1
        /\ challenge.tau_powers_g2 = previous.tau_powers_g2
    BY <1>3 DEF ChallengeHash
  <1> QED BY <1>1, <1>2, <1>4

\* An accepted contribution to phase 2 is the next one, on top of a phase 1 of the
\* same index.
LEMMA NextContribution2 ==
    ASSUME NEW c, Challenged2(c), NEW previous, Verify2(c, previous)
    PROVE  /\ c.new_parameters
                = [phase1 |-> c.new_parameters.phase1,
                   contribution_index |-> c.new_parameters.contribution_index]
           /\ c.new_parameters.contribution_index = previous.contribution_index + 1
           /\ ChallengeHash(c.new_parameters.phase1) = ChallengeHash(previous.phase1)
           /\ c.new_parameters.phase1.contribution_index = previous.phase1.contribution_index
PROOF
  <1>1. PICK p, index :
           index \in Nat /\ c = Contribution2([phase1 |-> p, contribution_index |-> index])
    BY DEF Challenged2
  <1>2. /\ c.parent_challenge = [index |-> index, phase1 |-> ChallengeHash(p)]
        /\ c.new_parameters = [phase1 |-> p, contribution_index |-> index + 1]
    BY <1>1 DEF Contribution2, ChallengeHash2
  <1>3. c.parent_challenge = [index |-> previous.contribution_index,
                              phase1 |-> ChallengeHash(previous.phase1)]
    BY DEF Verify2, ChallengeHash2
  <1>4. index = previous.contribution_index /\ ChallengeHash(p) = ChallengeHash(previous.phase1)
    BY <1>2, <1>3
  <1>5. p.contribution_index = previous.phase1.contribution_index
    BY <1>4 DEF ChallengeHash
  <1> QED BY <1>2, <1>4, <1>5

LEMMA InitCInv == CeremonyInit => CInv
  BY DEF CeremonyInit, CInv, KeysAreAccountedFor

LEMMA CeremonyStep ==
    ASSUME CInv, [CeremonyNext]_ceremonyVars
    PROVE  CInv'
PROOF
  <1>0. /\ transcript \in [phase1 : Nat, phase2 : Nat]
        /\ \A x : << x >> # None /\ << x >>[1] = x
    BY DEF CInv, None
  <1>1. CASE InitializePhase1
    <2>1. phase1' = << InitParameters >> /\ InitParameters.contribution_index = 0
      BY <1>1 DEF InitializePhase1, InitParameters
    <2> QED BY <1>0, <1>1, <2>1 DEF InitializePhase1, CInv, KeysAreAccountedFor
  <1>2. CASE StartPhase2
    <2>1. /\ phase1 # None /\ phase1' = None
          /\ phase2' = IF phase1[1].contribution_index = 0 THEN phase2
                       ELSE << [phase1 |-> phase1[1], contribution_index |-> 0] >>
          /\ UNCHANGED << transcript, outbox1, outbox2, keys >>
      BY <1>2 DEF StartPhase2
    <2>2. CASE phase1[1].contribution_index = 0
      BY <2>1, <2>2 DEF CInv, KeysAreAccountedFor
    <2>3. CASE phase1[1].contribution_index # 0
      <3>1. /\ phase2' = << [phase1 |-> phase1[1], contribution_index |-> 0] >>
            /\ phase2'[1].phase1 = phase1[1] /\ phase2'[1].contribution_index = 0
        BY <2>1, <2>3
      <3>2. phase1[1].contribution_index \in 1 .. transcript.phase1
        BY <1>0, <2>1, <2>3 DEF CInv
      <3> QED BY <1>0, <2>1, <3>1, <3>2 DEF CInv, KeysAreAccountedFor
    <2> QED BY <2>2, <2>3
  <1>3. ASSUME NEW p \in Participant, Contribute1(p)
        PROVE  CInv'
    <2>1. PICK tau \in Secrets :
             outbox1' = [outbox1 EXCEPT ![p] = << Contribution1(phase1[1], tau) >>]
      BY <1>3 DEF Contribute1
    <2>2. phase1 # None /\ UNCHANGED << phase1, phase2, transcript, outbox2, keys >>
      BY <1>3 DEF Contribute1
    <2>3. Challenged1(Contribution1(phase1[1], tau))
      BY <1>0, <2>2 DEF Challenged1, CInv
    <2> QED BY <1>0, <2>1, <2>2, <2>3 DEF CInv, KeysAreAccountedFor
  <1>4. ASSUME NEW p \in Participant, VerifyAndApplyPhase1(p)
        PROVE  CInv'
    <2>1. /\ transcript' = [transcript EXCEPT !.phase1 = @ + 1]
          /\ phase1' = << outbox1[p][1].new_parameters >>
          /\ phase1 # None /\ outbox1[p] # None /\ Verify1(outbox1[p][1], phase1[1])
          /\ UNCHANGED << phase2, outbox1, outbox2, keys >>
      BY <1>4 DEF VerifyAndApplyPhase1
    <2>2. Challenged1(outbox1[p][1])
      BY <2>1 DEF CInv
    <2>3. phase1'[1].contribution_index = phase1[1].contribution_index + 1
      BY <1>0, <2>1, <2>2, NextContribution1
    <2>4. /\ transcript' \in [phase1 : Nat, phase2 : Nat]
          /\ transcript'.phase1 = transcript.phase1 + 1 /\ transcript'.phase2 = transcript.phase2
      BY <1>0, <2>1
    <2>5. phase1'[1].contribution_index \in 0 .. transcript'.phase1
      BY <1>0, <2>1, <2>3, <2>4 DEF CInv
    <2>6. 1 .. transcript.phase1 \subseteq 1 .. transcript'.phase1
      BY <1>0, <2>4
    <2> QED BY <2>1, <2>4, <2>5, <2>6 DEF CInv, KeysAreAccountedFor
  <1>5. ASSUME NEW p \in Participant, Contribute2(p)
        PROVE  CInv'
    <2>1. /\ phase2 # None /\ outbox2' = [outbox2 EXCEPT ![p] = << Contribution2(phase2[1]) >>]
          /\ UNCHANGED << phase1, phase2, transcript, outbox1, keys >>
      BY <1>5 DEF Contribute2
    <2>2. /\ phase2[1] = [phase1 |-> phase2[1].phase1,
                          contribution_index |-> phase2[1].contribution_index]
          /\ phase2[1].contribution_index \in Nat
      BY <1>0, <2>1 DEF CInv
    <2>3. Challenged2(Contribution2(phase2[1]))
      BY <2>2 DEF Challenged2
    <2> QED BY <1>0, <2>1, <2>3 DEF CInv, KeysAreAccountedFor
  <1>6. ASSUME NEW p \in Participant, VerifyAndApplyPhase2(p)
        PROVE  CInv'
    <2>1. /\ transcript' = [transcript EXCEPT !.phase2 = @ + 1]
          /\ phase2' = << outbox2[p][1].new_parameters >>
          /\ phase2 # None /\ outbox2[p] # None /\ Verify2(outbox2[p][1], phase2[1])
          /\ UNCHANGED << phase1, outbox1, outbox2, keys >>
      BY <1>6 DEF VerifyAndApplyPhase2
    <2>2. Challenged2(outbox2[p][1])
      BY <2>1 DEF CInv
    <2> DEFINE new == outbox2[p][1].new_parameters
    <2>3. /\ new = [phase1 |-> new.phase1, contribution_index |-> new.contribution_index]
          /\ new.contribution_index = phase2[1].contribution_index + 1
          /\ new.phase1.contribution_index = phase2[1].phase1.contribution_index
      BY <2>1, <2>2, NextContribution2
    <2>4. /\ transcript' \in [phase1 : Nat, phase2 : Nat]
          /\ transcript'.phase2 = transcript.phase2 + 1 /\ transcript'.phase1 = transcript.phase1
      BY <1>0, <2>1
    <2>5. phase2' = << new >> /\ phase2'[1] = new
      BY <2>1
    <2> HIDE DEF new
    <2>6. /\ new.contribution_index \in 0 .. transcript'.phase2
          /\ new.phase1.contribution_index \in 1 .. transcript'.phase1
      BY <1>0, <2>1, <2>3, <2>4 DEF CInv
    <2>7. 1 .. transcript.phase2 \subseteq 1 .. transcript'.phase2
      BY <1>0, <2>4
    <2> QED BY <2>1, <2>3, <2>4, <2>5, <2>6, <2>7 DEF CInv, KeysAreAccountedFor
  <1>7. CASE Finalize
    <2>1. /\ keys' = IF phase2 # None /\ phase2[1].contribution_index > 0 THEN phase2 ELSE None
          /\ UNCHANGED << phase1, phase2, transcript, outbox1, outbox2 >>
      BY <1>7 DEF Finalize
    <2>2. KeysAreAccountedFor'
      BY <1>0, <2>1 DEF CInv, KeysAreAccountedFor
    <2> QED BY <2>1, <2>2 DEF CInv
  <1>8. CASE UNCHANGED ceremonyVars
    BY <1>8 DEF ceremonyVars, CInv, KeysAreAccountedFor
  <1> QED BY <1>1, <1>2, <1>3, <1>4, <1>5, <1>6, <1>7, <1>8 DEF CeremonyNext

\* The coordinator's steps, whatever is handed in and when.
THEOREM CeremonyInvariant == CeremonySpec => []CInv
PROOF
  <1>1. CeremonyInit => CInv
    BY InitCInv
  <1>2. CInv /\ [CeremonyNext]_ceremonyVars => CInv'
    BY CeremonyStep
  <1> QED BY <1>1, <1>2, PTL DEF CeremonySpec

\* Keys come out of a ceremony only with a contribution to each phase, and every
\* contribution in them was verified and recorded (finalize).
THEOREM KeysAreAccounted == CeremonySpec => []KeysAreAccountedFor
PROOF
  <1>1. CInv => KeysAreAccountedFor
    BY DEF CInv
  <1> QED BY <1>1, CeremonyInvariant, PTL

\* While phase 1 is open its accumulator moves by one participant's exponent at a
\* time, and its index by one (verify_and_apply_phase1).
THEOREM Phase1Advances == CeremonySpec => Phase1MovesForward
PROOF
  <1> DEFINE Forward ==
        phase1 # None /\ phase1' \notin {None, phase1} =>
            /\ phase1'[1].contribution_index = phase1[1].contribution_index + 1
            /\ \E tau \in Secrets :
                  phase1'[1].tau_powers_g1 = Scale(phase1[1].tau_powers_g1, tau)
  <1>1. ASSUME CInv, CeremonyNext
        PROVE  Forward
    <2>1. SUFFICES ASSUME phase1 # None, phase1' # None, phase1' # phase1
                   PROVE  Forward
      BY DEF Forward
    <2>2. ~ InitializePhase1 /\ ~ StartPhase2 /\ ~ Finalize
      BY <2>1 DEF InitializePhase1, StartPhase2, Finalize
    <2>3. \A p \in Participant : ~ Contribute1(p) /\ ~ Contribute2(p) /\ ~ VerifyAndApplyPhase2(p)
      BY <2>1 DEF Contribute1, Contribute2, VerifyAndApplyPhase2
    <2>4. PICK p \in Participant : VerifyAndApplyPhase1(p)
      BY <1>1, <2>2, <2>3, Zenon DEF CeremonyNext
    <2>5. /\ phase1'[1] = outbox1[p][1].new_parameters
          /\ outbox1[p] # None /\ Verify1(outbox1[p][1], phase1[1])
      BY <2>4 DEF VerifyAndApplyPhase1
    <2>6. Challenged1(outbox1[p][1])
      BY <1>1, <2>5 DEF CInv
    <2> QED BY <2>5, <2>6, NextContribution1
  <1> HIDE DEF Forward
  <1>2. CInv /\ [CeremonyNext]_ceremonyVars => [Forward]_ceremonyVars
    BY <1>1
  <1> USE DEF Forward
  <1> QED BY <1>2, CeremonyInvariant, PTL DEF CeremonySpec, Phase1MovesForward

-----------------------------------------------------------------------------
(* The powers of tau.                                                      *)

LEMMA NatByInduction ==
    ASSUME NEW T \in SUBSET Nat, 0 \in T, \A n \in T : n + 1 \in T
    PROVE  T = Nat
PROOF
  <1>1. IsWellFoundedOn({ss \in Nat \X Nat : ss[1] < ss[2]}, Nat)
    BY NatLessThanWellFounded DEF OpToRel
  <1> DEFINE R == {ss \in Nat \X Nat : ss[1] < ss[2]}
  <1> HIDE DEF R
  <1>2. SUFFICES ASSUME Nat \ T # {} PROVE FALSE
    OBVIOUS
  <1>3. PICK x \in Nat \ T : \A y \in Nat \ T : ~ (<< y, x >> \in R)
    BY <1>1, <1>2, WFMin DEF R
  <1>4. x # 0 /\ x - 1 \in Nat
    BY <1>3
  <1>5. << x - 1, x >> \in R
    BY <1>4, <1>3 DEF R
  <1> QED BY <1>3, <1>4, <1>5

LEMMA MulMono == \A a, b, c \in Nat : a < b => a * c + c <= b * c
PROOF
  <1> SUFFICES ASSUME NEW a \in Nat, NEW b \in Nat, NEW c \in Nat, a < b
               PROVE a * c + c <= b * c
    OBVIOUS
  <1>1. PICK d \in Nat : b = a + 1 + d
    <2>1. b - a - 1 \in Nat /\ b = a + 1 + (b - a - 1) OBVIOUS
    <2> QED BY <2>1
  <1>2. b * c = a * c + c + d * c
    BY <1>1
  <1>3. d * c \in Nat /\ a * c \in Nat /\ b * c \in Nat OBVIOUS
  <1> QED BY <1>2, <1>3

LEMMA Remainder ==
    ASSUME NEW o \in Nat \ {0}, NEW q \in Nat, NEW r \in 0 .. o - 1
    PROVE  (q * o + r) % o = r
PROOF
  <1> DEFINE a == q * o + r   p == a \div o   s == a % o
  <1>1. a \in Nat /\ p \in Nat /\ s \in 0 .. o - 1 /\ a = o * p + s
    OBVIOUS
  <1>2. q * o \in Nat /\ p * o \in Nat /\ o * p = p * o
    BY <1>1
  <1>3. CASE q < p
    <2>1. q * o + o <= p * o BY <1>3, <1>1, MulMono
    <2> QED BY <2>1, <1>1, <1>2
  <1>4. CASE p < q
    <2>1. p * o + o <= q * o BY <1>4, <1>1, MulMono
    <2> QED BY <2>1, <1>1, <1>2
  <1>5. CASE p = q
    BY <1>5, <1>1, <1>2
  <1> QED BY <1>3, <1>4, <1>5, <1>1

LEMMA DropMultiple ==
    ASSUME NEW o \in Nat \ {0}, NEW q \in Nat, NEW x \in Nat
    PROVE  (q * o + x) % o = x % o
PROOF
  <1> DEFINE p == x \div o   r == x % o
  <1>1. p \in Nat /\ r \in 0 .. o - 1 /\ x = p * o + r
    OBVIOUS
  <1>2. q * o + x = (q + p) * o + r
    BY <1>1
  <1> HIDE DEF p
  <1>3. q + p \in Nat BY <1>1
  <1>4. ((q + p) * o + r) % o = r
    BY <1>1, <1>3, Remainder
  <1> QED BY <1>2, <1>4

LEMMA ModMul ==
    ASSUME NEW o \in Nat \ {0}, NEW x \in Nat, NEW y \in Nat
    PROVE  ((x % o) * y) % o = (x * y) % o
PROOF
  <1> DEFINE p == x \div o   r == x % o
  <1>1. p \in Nat /\ r \in 0 .. o - 1 /\ x = p * o + r
    OBVIOUS
  <1> HIDE DEF p, r
  <1>2. x * y = (p * y) * o + r * y
    BY <1>1
  <1>3. p * y \in Nat /\ r * y \in Nat BY <1>1
  <1>4. ((p * y) * o + r * y) % o = (r * y) % o
    BY <1>3, DropMultiple
  <1> QED BY <1>2, <1>4 DEF r
LEMMA ModIn == \A x \in Nat, o \in Nat \ {0} : x % o \in 0 .. o - 1
  OBVIOUS

LEMMA ModMul2 ==
    ASSUME NEW o \in Nat \ {0}, NEW x \in Nat, NEW y \in Nat
    PROVE  ((x % o) * (y % o)) % o = (x * y) % o
PROOF
  <1>1. x % o \in Nat /\ y % o \in Nat BY ModIn
  <1>2. ((x % o) * (y % o)) % o = (x * (y % o)) % o
    BY <1>1, ModMul
  <1>3. x * (y % o) = (y % o) * x /\ x * y = y * x
    BY <1>1
  <1>4. ((y % o) * x) % o = (y * x) % o
    BY ModMul
  <1> QED BY <1>2, <1>3, <1>4

PowersTo(f, tau, n) ==
    f = [k \in 1 .. n |-> IF k = 1 THEN 1 % Order ELSE (f[k - 1] * tau) % Order]

LEMMA PowersExist ==
    ASSUME NEW tau \in Nat, NEW n \in Nat
    PROVE  \E f : PowersTo(f, tau, n)
PROOF
  <1> DEFINE T == {m \in Nat : \E f : PowersTo(f, tau, m)}
  <1>1. 0 \in T
    <2>1. PowersTo([k \in 1 .. 0 |-> 0], tau, 0)
      BY DEF PowersTo
    <2> QED BY <2>1
  <1>2. ASSUME NEW m \in T PROVE m + 1 \in T
    <2>1. PICK f : PowersTo(f, tau, m)
      OBVIOUS
    <2> DEFINE g == [k \in 1 .. m + 1 |->
                        IF k = 1 THEN 1 % Order ELSE (f[k - 1] * tau) % Order]
    <2>2. ASSUME NEW k \in 1 .. m + 1
          PROVE  g[k] = IF k = 1 THEN 1 % Order ELSE (f[k - 1] * tau) % Order
      OBVIOUS
    <2>3. ASSUME NEW k \in 1 .. m
          PROVE  f[k] = IF k = 1 THEN 1 % Order ELSE (f[k - 1] * tau) % Order
      BY <2>1, Zenon DEF PowersTo
    <2>4. \A k \in 1 .. m : k \in 1 .. m + 1
      OBVIOUS
    <2>5. \A k \in 1 .. m : g[k] = f[k]
      BY <2>2, <2>3, <2>4, Zenon
    <2>6. \A k \in 1 .. m + 1 : k = 1 \/ k - 1 \in 1 .. m
      OBVIOUS
    <2>7. \A k \in 1 .. m + 1 : k = 1 \/ g[k - 1] = f[k - 1]
      BY <2>5, <2>6, Zenon
    <2>8. g = [k \in 1 .. m + 1 |-> g[k]]
      OBVIOUS
    <2> HIDE DEF g
    <2>9. \A k \in 1 .. m + 1 : g[k] = IF k = 1 THEN 1 % Order ELSE (g[k - 1] * tau) % Order
      BY <2>2, <2>7, Zenon
    <2>3a. PowersTo(g, tau, m + 1)
      BY <2>8, <2>9, Zenon DEF PowersTo
    <2> QED BY <2>3a
  <1> HIDE DEF T
  <1>3. T = Nat
    BY <1>1, <1>2, NatByInduction DEF T
  <1> QED BY <1>3 DEF T

LEMMA PowersDefined ==
    ASSUME NEW tau \in Nat
    PROVE  PowersTo(PowersOf(tau), tau, NumPowers)
PROOF
  <1>1. PICK f : PowersTo(f, tau, NumPowers)
    BY PowersExist, PowersAssumption
  <1>2. PowersOf(tau) = CHOOSE p : PowersTo(p, tau, NumPowers)
    BY DEF PowersOf, PowersTo, Index
  <1> QED BY <1>1, <1>2

LEMMA PowersStep ==
    ASSUME NEW tau \in Nat
    PROVE  /\ PowersOf(tau) = [k \in Index |-> PowersOf(tau)[k]]
           /\ PowersOf(tau)[1] = 1 % Order
           /\ \A k \in Index : k + 1 \in Index =>
                 PowersOf(tau)[k + 1] = (PowersOf(tau)[k] * tau) % Order
PROOF
  <1> DEFINE f == PowersOf(tau)
  <1>1. f = [k \in 1 .. NumPowers |-> IF k = 1 THEN 1 % Order ELSE (f[k - 1] * tau) % Order]
    BY PowersDefined, Zenon DEF PowersTo
  <1> HIDE DEF f
  <1>2. ASSUME NEW k \in 1 .. NumPowers
        PROVE  f[k] = IF k = 1 THEN 1 % Order ELSE (f[k - 1] * tau) % Order
    BY <1>1, Zenon
  <1>3. 1 \in 1 .. NumPowers
    BY PowersAssumption
  <1>4. f[1] = 1 % Order
    BY <1>2, <1>3
  <1>5. f = [k \in Index |-> f[k]]
    BY <1>1, Zenon DEF Index
  <1>6. ASSUME NEW k \in Index, k + 1 \in Index
        PROVE  f[k + 1] = (f[k] * tau) % Order
    <2>1. k + 1 # 1 /\ (k + 1) - 1 = k /\ k + 1 \in 1 .. NumPowers
      BY <1>6, PowersAssumption DEF Index
    <2>2. f[k + 1] = IF k + 1 = 1 THEN 1 % Order ELSE (f[(k + 1) - 1] * tau) % Order
      BY <2>1, <1>2, Zenon
    <2> QED BY <2>1, <2>2, Zenon
  <1> QED BY <1>4, <1>5, <1>6, Zenon DEF f

LEMMA IndexInduction ==
    ASSUME NEW S \in SUBSET Index, 1 \in S, \A k \in S : k + 1 \in Index => k + 1 \in S
    PROVE  S = Index
PROOF
  <1> DEFINE T == {n \in Nat : n + 1 \in Index => n + 1 \in S}
  <1>1. 0 \in T
    OBVIOUS
  <1>2. ASSUME NEW n \in T PROVE n + 1 \in T
    BY PowersAssumption DEF Index
  <1> HIDE DEF T
  <1>3. T = Nat
    BY <1>1, <1>2, NatByInduction DEF T
  <1>4. \A k \in Index : k - 1 \in Nat /\ (k - 1) + 1 = k
    BY PowersAssumption DEF Index
  <1> QED BY <1>3, <1>4 DEF T

LEMMA PowersAreNumbers ==
    ASSUME NEW tau \in Nat
    PROVE  PowersOf(tau) \in [Index -> 0 .. Order - 1]
PROOF
  <1> DEFINE f == PowersOf(tau)
             S == {k \in Index : f[k] \in 0 .. Order - 1}
  <1>1. 1 \in S
    <2>1. f[1] = 1 % Order /\ 1 \in Index
      BY PowersStep, PowersAssumption DEF Index
    <2>2. 1 % Order \in 0 .. Order - 1
      BY PowersAssumption, ModIn
    <2> HIDE DEF f
    <2> QED BY <2>1, <2>2
  <1>2. ASSUME NEW k \in S, k + 1 \in Index PROVE k + 1 \in S
    <2>1. f[k + 1] = (f[k] * tau) % Order
      BY <1>2, PowersStep
    <2> HIDE DEF f
    <2>2. f[k] \in Nat /\ f[k] * tau \in Nat
      BY PowersAssumption
    <2> QED BY <1>2, <2>1, <2>2, PowersAssumption, ModIn
  <1> HIDE DEF S
  <1>3. S = Index
    BY <1>1, <1>2, IndexInduction DEF S
  <1> QED BY <1>3, PowersStep DEF S

LEMMA ProductOfProducts ==
    ASSUME NEW o \in Nat \ {0}, NEW x \in Nat, NEW y \in Nat, NEW a \in Nat, NEW b \in Nat
    PROVE  (((x * a) % o) * ((y * b) % o)) % o = (((x * y) % o) * ((a * b) % o)) % o
PROOF
  <1>1. /\ x * a \in Nat /\ y * b \in Nat /\ x * y \in Nat /\ a * b \in Nat
        /\ (x * a) * (y * b) = (x * y) * (a * b)
    OBVIOUS
  <1>2. (((x * a) % o) * ((y * b) % o)) % o = ((x * a) * (y * b)) % o
    BY <1>1, ModMul2
  <1>3. (((x * y) % o) * ((a * b) % o)) % o = ((x * y) * (a * b)) % o
    BY <1>1, ModMul2
  <1> QED BY <1>1, <1>2, <1>3

LEMMA ScaledPowers ==
    ASSUME NEW a \in Nat, NEW b \in Nat
    PROVE  Scale(PowersOf(a), b) = PowersOf((a * b) % Order)
PROOF
  <1> DEFINE f == PowersOf(a)   g == PowersOf(b)   c == (a * b) % Order   h == PowersOf(c)
             S == {k \in Index : (f[k] * g[k]) % Order = h[k]}
  <1>0. a * b \in Nat /\ c \in Nat
    BY PowersAssumption, ModIn
  <1> HIDE DEF c
  <1>1. 1 \in S
    <2>1. f[1] = 1 % Order /\ g[1] = 1 % Order /\ h[1] = 1 % Order /\ 1 \in Index
      BY <1>0, PowersStep, PowersAssumption DEF Index
    <2>2. ((1 % Order) * (1 % Order)) % Order = (1 * 1) % Order
      BY PowersAssumption, ModMul2
    <2> QED BY <2>1, <2>2
  <1>2. ASSUME NEW k \in S, k + 1 \in Index PROVE k + 1 \in S
    <2>1. f[k + 1] = (f[k] * a) % Order /\ g[k + 1] = (g[k] * b) % Order
          /\ h[k + 1] = (h[k] * c) % Order
      BY <1>0, <1>2, PowersStep
    <2>2. f[k] \in Nat /\ g[k] \in Nat
      BY PowersAreNumbers, PowersAssumption
    <2> HIDE DEF f, g, h
    <2>3. h[k] = (f[k] * g[k]) % Order
      BY <1>2
    <2>4. (((f[k] * a) % Order) * ((g[k] * b) % Order)) % Order
             = (((f[k] * g[k]) % Order) * ((a * b) % Order)) % Order
      BY <2>2, PowersAssumption, ProductOfProducts
    <2>5. (f[k + 1] * g[k + 1]) % Order = h[k + 1]
      BY <2>1, <2>3, <2>4, Zenon DEF c
    <2> QED BY <1>2, <2>5
  <1>3. S = Index
    <2> HIDE DEF S
    <2> QED BY <1>1, <1>2, IndexInduction DEF S
  <1>4. \A k \in Index : (f[k] * g[k]) % Order = h[k]
    BY <1>3
  <1>5. h = [k \in Index |-> h[k]]
    BY <1>0, PowersStep
  <1> HIDE DEF f, g, h, S
  <1>6. [k \in Index |-> (f[k] * g[k]) % Order] = h
    BY <1>4, <1>5
  <1> QED BY <1>6 DEF f, g, h, c, Scale

\* The product of two exponents that the group does not take to zero is another.
LEMMA ScaledArePowers ==
    ASSUME NEW p, ArePowers(p), NEW new, NEW tau \in Secrets,
           new.tau_powers_g1 = Scale(p.tau_powers_g1, tau),
           new.tau_powers_g2 = Scale(p.tau_powers_g2, tau)
    PROVE  ArePowers(new)
PROOF
  <1>1. PICK a \in 1 .. Order - 1 :
           p.tau_powers_g1 = PowersOf(a) /\ p.tau_powers_g2 = PowersOf(a)
    BY DEF ArePowers
  <1>2. /\ Order \in Nat \ {0} /\ tau \in 1 .. Order - 1
        /\ a \in Nat /\ tau \in Nat /\ a * tau \in Nat
    BY PowersAssumption
  <1>3. (a * tau) % Order # 0
    BY <1>2, PowersAssumption
  <1>4. (a * tau) % Order \in 0 .. Order - 1
    BY <1>2, ModIn
  <1>5. (a * tau) % Order \in 1 .. Order - 1
    BY <1>2, <1>3, <1>4
  <1>6. Scale(PowersOf(a), tau) = PowersOf((a * tau) % Order)
    BY <1>2, ScaledPowers
  <1> QED BY <1>1, <1>5, <1>6 DEF ArePowers

LEMMA SameHashArePowers ==
    ASSUME NEW p, ArePowers(p), NEW q, ChallengeHash(q) = ChallengeHash(p)
    PROVE  ArePowers(q)
PROOF
  <1>1. q.tau_powers_g1 = p.tau_powers_g1 /\ q.tau_powers_g2 = p.tau_powers_g2
    BY DEF ChallengeHash
  <1> QED BY <1>1 DEF ArePowers

LEMMA PowersStayPowers ==
    ASSUME CInv, AccumulatorsArePowers, [CeremonyNext]_ceremonyVars
    PROVE  AccumulatorsArePowers'
PROOF
  <1>0. \A x : << x >> # None /\ << x >>[1] = x
    BY DEF None
  <1>1. CASE InitializePhase1
    <2>1. phase1' = << InitParameters >> /\ UNCHANGED phase2
      BY <1>1 DEF InitializePhase1
    <2>2. 1 \in 1 .. Order - 1
      BY PowersAssumption
    <2>3. ArePowers(InitParameters)
      BY <2>2 DEF ArePowers, InitParameters
    <2> QED BY <1>0, <2>1, <2>3 DEF AccumulatorsArePowers
  <1>2. CASE StartPhase2
    <2>1. /\ phase1 # None /\ phase1' = None
          /\ phase2' = IF phase1[1].contribution_index = 0 THEN phase2
                       ELSE << [phase1 |-> phase1[1], contribution_index |-> 0] >>
      BY <1>2 DEF StartPhase2
    <2>2. CASE phase2' = phase2
      BY <2>1, <2>2 DEF AccumulatorsArePowers
    <2>3. CASE phase2' = << [phase1 |-> phase1[1], contribution_index |-> 0] >>
      <3>1. phase2'[1].phase1 = phase1[1]
        BY <2>3
      <3> QED BY <2>1, <3>1 DEF AccumulatorsArePowers
    <2> QED BY <2>1, <2>2, <2>3
  <1>3. ASSUME NEW p \in Participant, VerifyAndApplyPhase1(p)
        PROVE  AccumulatorsArePowers'
    <2>1. /\ phase1' = << outbox1[p][1].new_parameters >> /\ UNCHANGED phase2
          /\ phase1 # None /\ outbox1[p] # None /\ Verify1(outbox1[p][1], phase1[1])
      BY <1>3 DEF VerifyAndApplyPhase1
    <2>2. Challenged1(outbox1[p][1])
      BY <2>1 DEF CInv
    <2> DEFINE new == outbox1[p][1].new_parameters
    <2>3. PICK tau \in Secrets :
             /\ new.tau_powers_g1 = Scale(phase1[1].tau_powers_g1, tau)
             /\ new.tau_powers_g2 = Scale(phase1[1].tau_powers_g2, tau)
      BY <2>1, <2>2, NextContribution1
    <2>4. ArePowers(phase1[1])
      BY <2>1 DEF AccumulatorsArePowers
    <2>5. phase1'[1] = new
      BY <2>1
    <2> HIDE DEF new
    <2>6. ArePowers(new)
      BY <2>3, <2>4, ScaledArePowers
    <2> QED BY <2>1, <2>5, <2>6 DEF AccumulatorsArePowers
  <1>4. ASSUME NEW p \in Participant, VerifyAndApplyPhase2(p)
        PROVE  AccumulatorsArePowers'
    <2>1. /\ phase2' = << outbox2[p][1].new_parameters >> /\ UNCHANGED phase1
          /\ phase2 # None /\ outbox2[p] # None /\ Verify2(outbox2[p][1], phase2[1])
      BY <1>4 DEF VerifyAndApplyPhase2
    <2>2. Challenged2(outbox2[p][1])
      BY <2>1 DEF CInv
    <2>3. ArePowers(phase2[1].phase1)
      BY <2>1 DEF AccumulatorsArePowers
    <2>4. ArePowers(outbox2[p][1].new_parameters.phase1)
      BY <2>1, <2>2, <2>3, NextContribution2, SameHashArePowers
    <2>5. phase2'[1] = outbox2[p][1].new_parameters
      BY <2>1
    <2> QED BY <2>1, <2>4, <2>5 DEF AccumulatorsArePowers
  <1>5. CASE UNCHANGED << phase1, phase2 >>
    BY <1>5 DEF AccumulatorsArePowers
  <1>6. CASE Finalize \/ UNCHANGED ceremonyVars
    BY <1>5, <1>6 DEF Finalize, ceremonyVars
  <1>7. ASSUME NEW p \in Participant, Contribute1(p) \/ Contribute2(p)
        PROVE  AccumulatorsArePowers'
    BY <1>5, <1>7 DEF Contribute1, Contribute2
  <1> QED BY <1>1, <1>2, <1>3, <1>4, <1>6, <1>7 DEF CeremonyNext

\* The accumulators of a ceremony are powers of one exponent in both groups, after
\* any number of contributions: verify's one pairing check, of the first power, is
\* enough because the challenge hash binds the rest.
THEOREM AccumulatorsStayPowers == CeremonySpec => []AccumulatorsArePowers
PROOF
  <1>1. CeremonyInit => AccumulatorsArePowers
    BY DEF CeremonyInit, AccumulatorsArePowers
  <1>2. CInv /\ AccumulatorsArePowers /\ [CeremonyNext]_ceremonyVars => AccumulatorsArePowers'
    BY PowersStayPowers
  <1> QED BY <1>1, <1>2, CeremonyInvariant, PTL DEF CeremonySpec

-----------------------------------------------------------------------------
(* The command-line tool.                                                  *)

\* A contribution that the rebuilt coordinator accepts is the first one.
LEMMA FirstContribution ==
    ASSUME NEW state, NEW tau,
           Verify1(Contribution1(state.parameters, tau), Rebuilt(state).phase1)
    PROVE  Contribution1(state.parameters, tau).new_parameters.contribution_index = 1
PROOF
  <1>1. /\ Contribution1(state.parameters, tau).parent_challenge = ChallengeHash(state.parameters)
        /\ Contribution1(state.parameters, tau).new_parameters.contribution_index
              = state.parameters.contribution_index + 1
    BY DEF Contribution1
  <1>2. Rebuilt(state).phase1 = InitParameters
    BY DEF Rebuilt
  <1>3. ChallengeHash(state.parameters) = ChallengeHash(InitParameters)
    BY <1>1, <1>2 DEF Verify1
  <1>4. state.parameters.contribution_index = InitParameters.contribution_index
    BY <1>3 DEF ChallengeHash
  <1>5. state.parameters.contribution_index = 0
    BY <1>4 DEF InitParameters
  <1> QED BY <1>1, <1>5

Names(state) ==
    state.phase = "phase1" => Len(state.contributors) = state.parameters.contribution_index

LEMMA StoreKeepsNames ==
    ASSUME NEW f, NEW state, Names(state), FilesNameTheirContributors,
           files' = [files EXCEPT ![f] = state]
    PROVE  FilesNameTheirContributors'
  BY DEF FilesNameTheirContributors, Names

\* Whichever files commands are run on, and however they are cut short, a file that
\* loads names everybody whose contribution is in it.
THEOREM FilesAreSigned == FilesSpec => []FilesNameTheirContributors
PROOF
  <1>1. FilesInit => FilesNameTheirContributors
    BY DEF FilesInit, FilesNameTheirContributors, Missing
  <1>2. FilesNameTheirContributors /\ [FilesNext]_fileVars => FilesNameTheirContributors'
    <2> SUFFICES ASSUME FilesNameTheirContributors, [FilesNext]_fileVars
                 PROVE  FilesNameTheirContributors'
      OBVIOUS
    <2>1. ASSUME NEW f \in File, CmdInit(f)
          PROVE  FilesNameTheirContributors'
      <3>1. Names(CeremonyState(InitParameters, << >>))
        BY EmptySeq DEF Names, CeremonyState, InitParameters
      <3> QED BY <2>1, <3>1, StoreKeepsNames DEF CmdInit, Store
    <2>2. ASSUME NEW f \in File, NEW g \in File, NEW c \in Contributor, CmdContribute(f, g, c)
          PROVE  FilesNameTheirContributors'
      <3>1. CASE Refuse
        BY <3>1 DEF Refuse, FilesNameTheirContributors
      <3>2. CASE ~ Refuse
        <4>1. PICK tau \in Secrets :
                /\ Verify1(Contribution1(files[f].parameters, tau), Rebuilt(files[f]).phase1)
                /\ Store(g, CeremonyState(Contribution1(files[f].parameters, tau).new_parameters,
                                          Append(Rebuilt(files[f]).transcript, c)))
          BY <2>2, <3>2 DEF CmdContribute
        <4>2. Contribution1(files[f].parameters, tau).new_parameters.contribution_index = 1
          BY <4>1, FirstContribution
        <4>3. Len(Append(Rebuilt(files[f]).transcript, c)) = 1
          BY DEF Rebuilt
        <4>4. Names(CeremonyState(Contribution1(files[f].parameters, tau).new_parameters,
                                  Append(Rebuilt(files[f]).transcript, c)))
          BY <4>2, <4>3 DEF Names, CeremonyState
        <4> QED BY <4>1, <4>4, StoreKeepsNames DEF Store
      <3> QED BY <3>1, <3>2
    <2>3. ASSUME NEW f \in File, Crash(f)
          PROVE  FilesNameTheirContributors'
      <3>1. Names(Torn)
        BY DEF Names, Torn
      <3> QED BY <2>3, <3>1, StoreKeepsNames DEF Crash
    <2>4. CASE UNCHANGED files
      BY <2>4 DEF FilesNameTheirContributors
    <2>5. ASSUME NEW f \in File, CmdTransition(f) \/ CmdFinalize(f) \/ NotLoaded(f)
          PROVE  FilesNameTheirContributors'
      BY <2>4, <2>5 DEF CmdTransition, CmdFinalize, NotLoaded, Refuse
    <2> QED BY <2>1, <2>2, <2>3, <2>4, <2>5 DEF FilesNext, fileVars
  <1> QED BY <1>1, <1>2, PTL DEF FilesSpec

-----------------------------------------------------------------------------
(* The setup transcripts.                                                  *)

\* A transcript's history: how it came to be, one contribution at a time.
History(h, n) ==
    /\ h[0] = NewTranscript
    /\ \A k \in 0 .. n - 1 : \E c \in Contribution : h[k + 1] = Contribute(h[k], c)
Collected(t) == \E n \in Nat : \E h : History(h, n) /\ h[n] = t

LEMMA CollectedGrows ==
    ASSUME NEW t, Collected(t), NEW c \in Contribution
    PROVE  Collected(Contribute(t, c))
PROOF
  <1>0. PICK n \in Nat : \E h : History(h, n) /\ h[n] = t
    BY DEF Collected
  <1>1. PICK h : History(h, n) /\ h[n] = t
    BY <1>0
  <1> DEFINE new == Contribute(t, c)
             g == [k \in 0 .. n + 1 |-> IF k <= n THEN h[k] ELSE new]
  <1> HIDE DEF new
  <1>2. g[0] = h[0] /\ g[n] = t /\ g[n + 1] = new
    BY <1>1
  <1>3. ASSUME NEW k \in 0 .. n
        PROVE  \E d \in Contribution : g[k + 1] = Contribute(g[k], d)
    <2>1. CASE k = n
      <3>1. g[k + 1] = Contribute(g[k], c)
        BY <1>2, <2>1 DEF new
      <3> QED BY <3>1
    <2>2. CASE k < n
      <3>1. g[k] = h[k] /\ g[k + 1] = h[k + 1] /\ k \in 0 .. n - 1
        BY <2>2
      <3> HIDE DEF g
      <3> QED BY <1>1, <3>1 DEF History
    <2> QED BY <2>1, <2>2
  <1> HIDE DEF g
  <1>4. (n + 1) - 1 = n /\ n + 1 \in Nat
    OBVIOUS
  <1>5. History(g, n + 1)
    BY <1>1, <1>2, <1>3, <1>4 DEF History
  <1> QED BY <1>2, <1>4, <1>5 DEF Collected, new

LEMMA HeadOfContribution ==
    ASSUME NEW t, NEW c
    PROVE  /\ Contribute(t, c).head = Chain(t.head, Commitment(c))
           /\ Contribute(t, c).head # GENESIS
  BY DEF Contribute, Chain, GENESIS

LEMMA SameContribution ==
    ASSUME NEW t, NEW c, NEW d, Contribute(t, c).head = Contribute(t, d).head
    PROVE  Contribute(t, c) = Contribute(t, d)
PROOF
  <1>1. Commitment(c) = Commitment(d)
    BY HeadOfContribution DEF Chain
  <1>2. c.contributor = d.contributor /\ c.entropy = d.entropy
    BY <1>1 DEF Commitment
  <1> QED BY <1>1, <1>2 DEF Contribute

\* The head says everything: by induction on the number of contributions.
LEMMA HeadsIdentify ==
    ASSUME NEW t, Collected(t), NEW u, Collected(u), t.head = u.head
    PROVE  t = u
PROOF
  <1> DEFINE T == {n \in Nat : \A g, h : \A m \in Nat :
                      History(g, n) /\ History(h, m) /\ g[n].head = h[m].head => g[n] = h[m]}
  <1>0. \A h : \A m \in Nat : History(h, m) /\ m # 0 =>
           \E c \in Contribution : h[m] = Contribute(h[m - 1], c) /\ History(h, m - 1)
    <2> SUFFICES ASSUME NEW h, NEW m \in Nat, History(h, m), m # 0
                 PROVE  \E c \in Contribution :
                           h[m] = Contribute(h[m - 1], c) /\ History(h, m - 1)
      OBVIOUS
    <2>1. m - 1 \in 0 .. m - 1 /\ (m - 1) + 1 = m
          /\ \A k \in 0 .. (m - 1) - 1 : k \in 0 .. m - 1
      OBVIOUS
    <2> QED BY <2>1 DEF History
  <1>1. 0 \in T
    <2> SUFFICES ASSUME NEW g, NEW h, NEW m \in Nat,
                        History(g, 0), History(h, m), g[0].head = h[m].head
                 PROVE  g[0] = h[m]
      OBVIOUS
    <2>1. g[0] = NewTranscript /\ h[0] = NewTranscript
      BY DEF History
    <2>2. h[m].head = GENESIS
      BY <2>1 DEF NewTranscript
    <2>3. m = 0
      BY <1>0, <2>2, HeadOfContribution
    <2> QED BY <2>1, <2>3
  <1>2. ASSUME NEW n \in T PROVE n + 1 \in T
    <2> SUFFICES ASSUME NEW g, NEW h, NEW m \in Nat,
                        History(g, n + 1), History(h, m), g[n + 1].head = h[m].head
                 PROVE  g[n + 1] = h[m]
      OBVIOUS
    <2>0. n + 1 \in Nat /\ n + 1 # 0 /\ (n + 1) - 1 = n
      OBVIOUS
    <2>1. PICK c \in Contribution : g[n + 1] = Contribute(g[n], c) /\ History(g, n)
      BY <1>0, <2>0
    <2>2. m # 0
      <3>1. SUFFICES ASSUME m = 0 PROVE FALSE
        OBVIOUS
      <3>2. h[m].head = GENESIS
        BY <3>1 DEF History, NewTranscript
      <3> QED BY <2>1, <3>2, HeadOfContribution
    <2>3. PICK d \in Contribution : h[m] = Contribute(h[m - 1], d) /\ History(h, m - 1)
      BY <1>0, <2>2
    <2>4. g[n].head = h[m - 1].head
      BY <2>1, <2>3, HeadOfContribution DEF Chain
    <2>5. g[n] = h[m - 1]
      <3>1. m - 1 \in Nat
        BY <2>2
      <3> QED BY <1>2, <2>1, <2>3, <2>4, <3>1
    <2> QED BY <2>1, <2>3, <2>5, SameContribution
  <1> HIDE DEF T
  <1>3. T = Nat
    BY <1>1, <1>2, NatByInduction DEF T
  <1>4a. PICK n \in Nat : \E g : History(g, n) /\ g[n] = t
    BY DEF Collected
  <1>4. PICK g : History(g, n) /\ g[n] = t
    BY <1>4a
  <1>5a. PICK m \in Nat : \E h : History(h, m) /\ h[m] = u
    BY DEF Collected
  <1>5. PICK h : History(h, m) /\ h[m] = u
    BY <1>5a
  <1> QED BY <1>3, <1>4, <1>5 DEF T

\* What else a transcript keeps: its chain verifies, and its seed holds its head.
Seeded(t) ==
    \/ t.head = GENESIS /\ t.seed_accumulator = {}
    \/ \E x : t.seed_accumulator = {<< "chronos-setup-accumulator-v1", x, t.head >>}
Sound(t) ==
    /\ t = [records |-> t.records, head |-> t.head, seed_accumulator |-> t.seed_accumulator]
    /\ \E S : t.records \in Seq(S)
    /\ VerifyChain(t)
    /\ Seeded(t)

LEMMA NewIsSound == Sound(NewTranscript) /\ Collected(NewTranscript)
PROOF
  <1> DEFINE t == NewTranscript
  <1>1. /\ t.records = << >> /\ t.head = GENESIS /\ t.seed_accumulator = {}
        /\ t = [records |-> t.records, head |-> t.head, seed_accumulator |-> t.seed_accumulator]
    BY DEF NewTranscript
  <1>2. t.records \in Seq({}) /\ Len(t.records) = 0 /\ DOMAIN t.records = {}
    BY <1>1, EmptySeq
  <1>3. VerifyChain(t)
    BY <1>1, <1>2 DEF VerifyChain, HeadAfter
  <1>4. History([k \in {0} |-> NewTranscript], 0)
    BY DEF History
  <1>5. Collected(NewTranscript)
    BY <1>4 DEF Collected, History
  <1> QED BY <1>1, <1>2, <1>3, <1>5 DEF Sound, Seeded

LEMMA ContributeKeepsSound ==
    ASSUME NEW t, Sound(t), NEW c
    PROVE  Sound(Contribute(t, c))
PROOF
  <1> DEFINE u == Contribute(t, c)
             head == Chain(t.head, Commitment(c))
             x == [contributor |-> c.contributor, commitment |-> Commitment(c), head |-> head]
  <1>1. /\ u = [records |-> Append(t.records, x), head |-> head,
               seed_accumulator |-> {<< "chronos-setup-accumulator-v1",
                                        Xor(t.seed_accumulator, c.entropy), head >>}]
        /\ x.head = head /\ x.commitment = Commitment(c)
    BY DEF Contribute
  <1> HIDE DEF x, u
  <1>2. PICK S : t.records \in Seq(S)
    BY DEF Sound
  <1>3. t.records \in Seq(S \cup {x}) /\ x \in S \cup {x}
    BY <1>2
  <1> DEFINE n == Len(t.records)
  <1>4. /\ n \in Nat
        /\ Append(t.records, x) \in Seq(S \cup {x}) /\ Len(Append(t.records, x)) = n + 1
        /\ DOMAIN Append(t.records, x) = 1 .. n + 1
        /\ Append(t.records, x)[n + 1] = x
        /\ \A i \in 1 .. n : Append(t.records, x)[i] = t.records[i]
        /\ DOMAIN t.records = 1 .. n
    BY <1>3
  <1> HIDE DEF n
  <1>5. u.head = head /\ u.records = Append(t.records, x)
    BY <1>1
  <1> DEFINE r == Append(t.records, x)
  <1> HIDE DEF r
  <1>6. ASSUME NEW i \in 0 .. n
        PROVE  HeadAfter(r, i) = HeadAfter(t.records, i)
    BY <1>4 DEF HeadAfter, r
  <1>7. ASSUME NEW i \in 1 .. n + 1
        PROVE  r[i].head = Chain(HeadAfter(r, i - 1), r[i].commitment)
    <2>1. i - 1 \in 0 .. n
      BY <1>4
    <2>2. CASE i = n + 1
      <3>1. i - 1 = n
        BY <1>4, <2>2
      <3>2. HeadAfter(r, n) = t.head
        BY <1>4, <1>6 DEF Sound, VerifyChain, n
      <3>3. r[i] = x
        BY <1>4, <2>2 DEF r
      <3> QED BY <1>1, <3>1, <3>2, <3>3
    <2>3. CASE i # n + 1
      <3>1. i \in 1 .. n /\ r[i] = t.records[i]
        BY <1>4, <2>3 DEF r
      <3>2. t.records[i].head = Chain(HeadAfter(t.records, i - 1), t.records[i].commitment)
        BY <1>4, <3>1 DEF Sound, VerifyChain
      <3> QED BY <1>6, <2>1, <3>1, <3>2
    <2> QED BY <2>2, <2>3
  <1>8. head = HeadAfter(r, n + 1)
    BY <1>1, <1>4 DEF HeadAfter, r
  <1>9. VerifyChain(u)
    BY <1>4, <1>5, <1>7, <1>8 DEF VerifyChain, r
  <1>10. Seeded(u)
    BY <1>1 DEF Seeded
  <1>11. /\ u = [records |-> u.records, head |-> u.head, seed_accumulator |-> u.seed_accumulator]
         /\ u.records \in Seq(S \cup {x})
    BY <1>1, <1>4
  <1> QED BY <1>9, <1>10, <1>11 DEF Sound, u

\* One head, one seed; and records verify against their own head only.
LEMMA HeadsAndSeeds ==
    ASSUME NEW a, Sound(a), Collected(a), NEW b, Sound(b), Collected(b)
    PROVE  /\ a.head = b.head <=> SetupRng(a) = SetupRng(b)
           /\ VerifyChain([a EXCEPT !.head = b.head]) <=> a = b
PROOF
  <1>1. a.head = b.head => a = b
    BY HeadsIdentify
  <1>2. ASSUME a.seed_accumulator = b.seed_accumulator PROVE a.head = b.head
    <2>1. Seeded(a) /\ Seeded(b)
      BY DEF Sound
    <2>2. CASE a.seed_accumulator = {}
      BY <1>2, <2>1, <2>2 DEF Seeded
    <2>3. CASE a.seed_accumulator # {}
      <3>1. PICK x : a.seed_accumulator = {<< "chronos-setup-accumulator-v1", x, a.head >>}
        BY <2>1, <2>3 DEF Seeded
      <3>2. PICK y : b.seed_accumulator = {<< "chronos-setup-accumulator-v1", y, b.head >>}
        BY <1>2, <2>1, <2>3 DEF Seeded
      <3>3. << "chronos-setup-accumulator-v1", x, a.head >>
               = << "chronos-setup-accumulator-v1", y, b.head >>
        BY <1>2, <3>1, <3>2
      <3> QED BY <3>3
    <2> QED BY <2>2, <2>3
  <1>3. /\ [a EXCEPT !.head = b.head].records = a.records
        /\ [a EXCEPT !.head = b.head].head = b.head
    BY DEF Sound
  <1>4. ASSUME VerifyChain([a EXCEPT !.head = b.head]) PROVE a = b
    <2>1. a.head = HeadAfter(a.records, Len(a.records))
      BY DEF Sound, VerifyChain
    <2>2. b.head = HeadAfter(a.records, Len(a.records))
      BY <1>3, <1>4 DEF VerifyChain
    <2> QED BY <1>1, <2>1, <2>2
  <1>5. ASSUME a = b PROVE VerifyChain([a EXCEPT !.head = b.head])
    <2>1. VerifyChain(a)
      BY DEF Sound
    <2> QED BY <1>3, <1>5, <2>1 DEF VerifyChain
  <1> QED BY <1>1, <1>2, <1>4, <1>5 DEF SetupRng

SInv ==
    /\ transcripts = [d \in Desk |-> transcripts[d]]
    /\ \A d \in Desk : Sound(transcripts[d]) /\ Collected(transcripts[d])
    /\ prover.pk = prover.pvk

THEOREM SetupInvariant == SetupSpec => []SInv
PROOF
  <1>1. SetupInit => SInv
    BY NewIsSound DEF SetupInit, SInv, Blank
  <1>2. SInv /\ [SetupNext]_setupVars => SInv'
    <2> SUFFICES ASSUME SInv, [SetupNext]_setupVars PROVE SInv'
      OBVIOUS
    <2>1. ASSUME NEW d \in Desk, NEW c \in Contribution, Collect(d, c)
          PROVE  SInv'
      <3>1. /\ transcripts' = [transcripts EXCEPT ![d] = Contribute(transcripts[d], c)]
            /\ UNCHANGED prover
        BY <2>1 DEF Collect
      <3>2. Sound(Contribute(transcripts[d], c)) /\ Collected(Contribute(transcripts[d], c))
        BY ContributeKeepsSound, CollectedGrows DEF SInv
      <3> QED BY <3>1, <3>2 DEF SInv
    <2>2. CASE UNCHANGED transcripts /\ prover'.pk = prover'.pvk
      BY <2>2 DEF SInv
    <2>3. ASSUME NEW d \in Desk,
                 SetUpErasure(d) \/ SetUpIdentity(d) \/ LoadCeremonyKeys(transcripts[d].head)
          PROVE  SInv'
      BY <2>2, <2>3 DEF SInv, SetUpErasure, SetUpIdentity, LoadCeremonyKeys
    <2>4. CASE Save \/ PublishVk \/ Load
      BY <2>2, <2>4 DEF SInv, Save, PublishVk, Load
    <2>5. CASE \E y, m : MakeIdentityProof(y, m)
      BY <2>2, <2>5 DEF SInv, MakeIdentityProof
    <2>6. CASE UNCHANGED setupVars
      BY <2>2, <2>6 DEF SInv, setupVars
    <2> QED BY <2>1, <2>3, <2>4, <2>5, <2>6 DEF SetupNext
  <1> QED BY <1>1, <1>2, PTL DEF SetupSpec

\* The published head stands for the setup: one head, one seed, whatever the order
\* and however often contributions came in; and a prover checks with the key it
\* proves with (SetupTranscript, load_ceremony_keys).
THEOREM SetupsAreAuditable == SetupSpec => []SetupIsAuditable
PROOF
  <1>1. SInv => SetupIsAuditable
    <2> SUFFICES ASSUME SInv PROVE SetupIsAuditable
      OBVIOUS
    <2>1. DOMAIN transcripts = Desk
      BY DEF SInv
    <2>2. \A d, e \in Desk :
             /\ transcripts[d].head = transcripts[e].head
                   <=> SetupRng(transcripts[d]) = SetupRng(transcripts[e])
             /\ VerifyChain([transcripts[d] EXCEPT !.head = transcripts[e].head])
                   <=> transcripts[d] = transcripts[e]
      BY HeadsAndSeeds DEF SInv
    <2> QED BY <2>1, <2>2 DEF SInv, SetupIsAuditable
  <1> QED BY <1>1, SetupInvariant, PTL

-----------------------------------------------------------------------------
(* The identity circuit.                                                   *)

LEMMA FunctionsAreSequences ==
    ASSUME NEW S, NEW n \in Nat, NEW f \in [1 .. n -> S]
    PROVE  f \in Seq(S) /\ Len(f) = n
  OBVIOUS

\* Every byte has its place in a limb.
LEMMA PlaceOfByte ==
    ASSUME NEW b \in Nat \ {0}, NEW n \in Nat, NEW i \in 1 .. n
    PROVE  \E limb \in 1 .. (n + b - 1) \div b, j \in 1 .. b : (limb - 1) * b + j = i
PROOF
  <1> DEFINE q == (i - 1) \div b   r == (i - 1) % b
             p == (n + b - 1) \div b   s == (n + b - 1) % b
  <1>1. /\ i - 1 \in Nat /\ q \in Nat /\ r \in 0 .. b - 1 /\ i - 1 = q * b + r
        /\ n + b - 1 \in Nat /\ p \in Nat /\ s \in 0 .. b - 1 /\ n + b - 1 = p * b + s
    OBVIOUS
  <1> HIDE DEF q, r, p, s
  <1>2. q * b \in Nat /\ p * b \in Nat
    BY <1>1
  <1>3. q < p
    <2>1. SUFFICES ASSUME p < q + 1 PROVE FALSE
      BY <1>1
    <2>2. p * b + b <= (q + 1) * b
      <3>1. q + 1 \in Nat
        BY <1>1
      <3> QED BY <1>1, <2>1, <3>1, MulMono
    <2>3. (q + 1) * b = q * b + b
      BY <1>1
    <2> QED BY <1>1, <1>2, <2>2, <2>3
  <1>4. q + 1 \in 1 .. p /\ r + 1 \in 1 .. b /\ (q + 1) - 1 = q
    BY <1>1, <1>3
  <1>5. q * b + (r + 1) = i
    BY <1>1, <1>2
  <1> QED BY <1>4, <1>5 DEF p

Limbs(n) == (n + BYTES_PER_LIMB - 1) \div BYTES_PER_LIMB

LEMMA PackedBytes ==
    ASSUME NEW n \in Nat, NEW bytes \in [1 .. n -> Byte]
    PROVE  /\ PackBytes(bytes) \in Seq([1 .. BYTES_PER_LIMB -> Byte \cup {0}])
           /\ Len(PackBytes(bytes)) = Limbs(n)
           /\ \A limb \in 1 .. Limbs(n), j \in 1 .. BYTES_PER_LIMB :
                 (limb - 1) * BYTES_PER_LIMB + j \in 1 .. n =>
                     PackBytes(bytes)[limb][j] = bytes[(limb - 1) * BYTES_PER_LIMB + j]
PROOF
  <1>1. Len(bytes) = n
    BY FunctionsAreSequences
  <1>2. Limbs(n) \in Nat
    BY CircuitAssumption DEF Limbs
  <1> DEFINE Limb(limb) ==
        [j \in 1 .. BYTES_PER_LIMB |->
            IF (limb - 1) * BYTES_PER_LIMB + j <= n
            THEN bytes[(limb - 1) * BYTES_PER_LIMB + j] ELSE 0]
  <1>3. PackBytes(bytes) = [limb \in 1 .. Limbs(n) |-> Limb(limb)]
    BY <1>1 DEF PackBytes, Limbs
  <1>4. ASSUME NEW limb \in 1 .. Limbs(n)
        PROVE  Limb(limb) \in [1 .. BYTES_PER_LIMB -> Byte \cup {0}]
    <2>1. ASSUME NEW j \in 1 .. BYTES_PER_LIMB
          PROVE  (limb - 1) * BYTES_PER_LIMB + j \in Nat \ {0}
      <3>1. limb - 1 \in Nat /\ BYTES_PER_LIMB \in Nat
        BY <1>2, CircuitAssumption
      <3>2. (limb - 1) * BYTES_PER_LIMB \in Nat
        BY <3>1
      <3> QED BY <3>2
    <2> QED BY <2>1
  <1>5. ASSUME NEW limb \in 1 .. Limbs(n), NEW j \in 1 .. BYTES_PER_LIMB,
               (limb - 1) * BYTES_PER_LIMB + j \in 1 .. n
        PROVE  Limb(limb)[j] = bytes[(limb - 1) * BYTES_PER_LIMB + j]
    BY <1>5
  <1> HIDE DEF Limb
  <1>6. PackBytes(bytes) \in [1 .. Limbs(n) -> [1 .. BYTES_PER_LIMB -> Byte \cup {0}]]
    BY <1>3, <1>4
  <1> QED BY <1>2, <1>3, <1>5, <1>6, FunctionsAreSequences

LEMMA PackingIsInjective ==
    ASSUME NEW n \in Nat, NEW a \in [1 .. n -> Byte], NEW c \in [1 .. n -> Byte],
           PackBytes(a) = PackBytes(c)
    PROVE  a = c
PROOF
  <1>1. ASSUME NEW i \in 1 .. n PROVE a[i] = c[i]
    <2>1. PICK limb \in 1 .. Limbs(n), j \in 1 .. BYTES_PER_LIMB :
             (limb - 1) * BYTES_PER_LIMB + j = i
      BY CircuitAssumption, PlaceOfByte DEF Limbs
    <2>2. PackBytes(a)[limb][j] = a[i] /\ PackBytes(c)[limb][j] = c[i]
      BY <2>1, PackedBytes
    <2> QED BY <2>2
  <1> QED BY <1>1

LEMMA SplitConcatenation ==
    ASSUME NEW S, NEW a \in Seq(S), NEW b \in Seq(S), NEW c \in Seq(S), NEW d \in Seq(S),
           Len(a) = Len(c), a \o b = c \o d
    PROVE  a = c /\ b = d
PROOF
  <1>1. \A e \in Seq(S) : Len(e) \in Nat
    BY LenProperties
  <1>2. ASSUME NEW i \in 1 .. Len(a)
        PROVE  a[i] = c[i]
    <2>1. i \in 1 .. Len(a) + Len(b) /\ i \in 1 .. Len(c) + Len(d) /\ i <= Len(a)
      <3>1. \A la, lb, ld \in Nat : i \in 1 .. la => i \in 1 .. la + lb /\ i \in 1 .. la + ld /\ i <= la
        OBVIOUS
      <3> QED BY <1>1, <3>1
    <2>2. (a \o b)[i] = a[i] /\ (c \o d)[i] = c[i]
      BY <2>1, ConcatProperties
    <2> QED BY <2>2
  <1>3. a = c
    BY <1>2, SeqEqual
  <1> QED BY <1>3, ConcatSimplifications

\* The root says which bytes it is of, when their widths are known.
LEMMA RootIdentifies ==
    ASSUME NEW n \in Nat, NEW y \in [1 .. n -> Byte],
           NEW k \in Nat, NEW z \in [1 .. k -> Byte],
           NEW m \in [1 .. MISSION_BYTES -> Byte], NEW w \in [1 .. MISSION_BYTES -> Byte],
           IdentityRoot(y, m) = IdentityRoot(z, w)
    PROVE  y = z /\ m = w
PROOF
  <1>1. Len(y) = n /\ Len(z) = k
    BY FunctionsAreSequences
  <1>2. n = k /\ PackBytes(y) \o PackBytes(m) = PackBytes(z) \o PackBytes(w)
    BY <1>1 DEF IdentityRoot
  <1> DEFINE S == [1 .. BYTES_PER_LIMB -> Byte \cup {0}]
  <1> HIDE DEF S
  <1>3. /\ PackBytes(y) \in Seq(S) /\ Len(PackBytes(y)) = Limbs(n)
        /\ PackBytes(z) \in Seq(S) /\ Len(PackBytes(z)) = Limbs(k)
        /\ PackBytes(m) \in Seq(S) /\ PackBytes(w) \in Seq(S)
    BY PackedBytes, SetupAssumption DEF S
  <1>4. PackBytes(y) = PackBytes(z) /\ PackBytes(m) = PackBytes(w)
    BY <1>2, <1>3, SplitConcatenation
  <1>5. z \in [1 .. n -> Byte]
    BY <1>2
  <1> QED BY <1>4, <1>5, PackingIsInjective, SetupAssumption

Digests == [1 .. MISSION_BYTES -> Byte]

\* A proof that was made is of a y of the circuit's width.
ProofInv ==
    id_proof # Unknown =>
        \E key : \E y \in [1 .. Y_BYTES -> Byte], m \in Digests :
            id_proof = << ProveIdentity(key, y, m) >>

LEMMA ProofVerifiesAgainst ==
    ASSUME NEW key, NEW y \in [1 .. Y_BYTES -> Byte], NEW m \in Digests,
           NEW other, NEW n \in Nat, NEW z \in [1 .. n -> Byte], NEW w \in Digests
    PROVE  VerifyIdentity(other, ProveIdentity(key, y, m), IdentityRoot(z, w))
           <=> key = other /\ [y |-> y, mission_digest |-> m] = [y |-> z, mission_digest |-> w]
PROOF
  <1>1. Len(y) = Y_BYTES
    BY FunctionsAreSequences, CircuitAssumption
  <1>2. VerifyIdentity(other, ProveIdentity(key, y, m), IdentityRoot(z, w))
        <=> key = other /\ IdentityRoot(z, w) = IdentityRoot(y, m)
    BY <1>1 DEF VerifyIdentity, ProveIdentity, SatisfiesCircuit
  <1>3. IdentityRoot(z, w) = IdentityRoot(y, m) <=> z = y /\ w = m
    BY RootIdentifies, CircuitAssumption DEF Digests
  <1>4. [y |-> y, mission_digest |-> m] = [y |-> z, mission_digest |-> w] <=> y = z /\ m = w
    OBVIOUS
  <1> QED BY <1>2, <1>3, <1>4

\* An identity proof verifies against the root of the bytes it was made of and no
\* other root, nor under another key (prove_identity, verify_identity, pack_bytes).
THEOREM IdentitiesAreBound == SetupSpec => []IdentityIsBound
PROOF
  <1>1. SetupInit => ProofInv
    BY DEF SetupInit, ProofInv
  <1>2. ProofInv /\ [SetupNext]_setupVars => ProofInv'
    <2> SUFFICES ASSUME ProofInv, [SetupNext]_setupVars PROVE ProofInv'
      OBVIOUS
    <2>1. ASSUME NEW y \in Bytes({Y_BYTES}), NEW m \in Bytes({MISSION_BYTES}),
                 MakeIdentityProof(y, m)
          PROVE  ProofInv'
      <3>1. id_proof' = << ProveIdentity(identity[1], y, m) >>
        BY <2>1 DEF MakeIdentityProof
      <3>2. y \in [1 .. Y_BYTES -> Byte] /\ m \in Digests
        BY DEF Bytes, Digests
      <3> QED BY <3>1, <3>2 DEF ProofInv
    <2>2. CASE UNCHANGED id_proof
      BY <2>2 DEF ProofInv
    <2>3. ASSUME NEW d \in Desk,
                 \/ \E c \in Contribution : Collect(d, c)
                 \/ SetUpErasure(d) \/ SetUpIdentity(d) \/ LoadCeremonyKeys(transcripts[d].head)
          PROVE  ProofInv'
      BY <2>2, <2>3 DEF Collect, SetUpErasure, SetUpIdentity, LoadCeremonyKeys
    <2>4. CASE Save \/ PublishVk \/ Load \/ UNCHANGED setupVars
      BY <2>2, <2>4 DEF Save, PublishVk, Load, setupVars
    <2> QED BY <2>1, <2>3, <2>4 DEF SetupNext
  <1>3. ProofInv => IdentityIsBound
    <2> SUFFICES ASSUME ProofInv, id_proof # Unknown,
                        NEW z \in Bytes(0 .. Y_BYTES + 1), NEW w \in Bytes({MISSION_BYTES})
                 PROVE  VerifyIdentity(identity[1], id_proof[1], IdentityRoot(z, w))
                        <=> /\ id_proof[1].key = identity[1]
                            /\ id_proof[1].witness = [y |-> z, mission_digest |-> w]
      BY DEF IdentityIsBound
    <2>1. PICK key : \E y \in [1 .. Y_BYTES -> Byte], m \in Digests :
                        id_proof = << ProveIdentity(key, y, m) >>
      BY DEF ProofInv
    <2>2. PICK y \in [1 .. Y_BYTES -> Byte], m \in Digests :
             id_proof = << ProveIdentity(key, y, m) >>
      BY <2>1
    <2>3. PICK n \in Nat : z \in [1 .. n -> Byte]
      BY CircuitAssumption DEF Bytes
    <2>4. w \in Digests
      BY DEF Bytes, Digests
    <2>5. /\ id_proof[1] = ProveIdentity(key, y, m)
          /\ id_proof[1].key = key /\ id_proof[1].witness = [y |-> y, mission_digest |-> m]
      BY <2>2 DEF ProveIdentity
    <2> QED BY <2>3, <2>4, <2>5, ProofVerifiesAgainst
  <1> QED BY <1>1, <1>2, <1>3, PTL DEF SetupSpec

=============================================================================
