--------------------------- MODULE RegistryProofs ---------------------------
(***************************************************************************)
(* The registry's invariants for any number of missions, senders and       *)
(* inputs, and the verifier's arithmetic for any pair of groups and any    *)
(* words: what the deployed contracts accept is what ark-groth16 does.     *)
(***************************************************************************)
EXTENDS OnChain, FiniteSetTheorems, WellFoundedInduction, TLAPS

\* The records are finitely many, so that counting them means something.
Inv ==
    /\ TypeOK
    /\ RecordsAreProved
    /\ IsFiniteSet(Attested)
    /\ CountIsExact
    /\ LogEnumeratesRecords

\* Recording a mission that is not attested adds it, and only it, to the attested.
LEMMA RecordAttests ==
    ASSUME TypeOK,
           NEW m \in MissionId, NEW sender \in Sender, NEW input \in Input, NEW now \in Time,
           attestations[m].attestedAt = 0,
           Record(m, sender, input, now)
    PROVE  /\ TypeOK'
           /\ m \notin Attested
           /\ Attested' = Attested \cup {m}
           /\ attestations'[m].input = input
           /\ \A k \in MissionId \ {m} : attestations'[k] = attestations[k]
<1>1. now # 0 /\ now \in Nat
  BY RegistryAssumption
<1>2. attestations'[m] = [attestedAt |-> now, attester |-> sender, input |-> input]
  BY DEF TypeOK, Record
<1>3. \A k \in MissionId \ {m} : attestations'[k] = attestations[k]
  BY DEF TypeOK, Record
<1>4. attestations' \in [MissionId -> Attestation \cup {Unset}]
  BY DEF TypeOK, Record, Attestation
<1>5. log' \in Seq([missionId : MissionId, attester : Sender, attestedAt : Time])
  BY DEF TypeOK, Record
<1>6. attestationCount' \in Nat
  BY DEF TypeOK, Record
<1>7. m \notin Attested /\ Attested' = Attested \cup {m}
  BY <1>1, <1>2, <1>3 DEF Attested
<1>. QED
  BY <1>2, <1>3, <1>4, <1>5, <1>6, <1>7 DEF TypeOK

\* attestErasure preserves the invariant.
LEMMA AttestErasureKeepsInv ==
    ASSUME Inv,
           NEW m \in MissionId \cup {Zero}, NEW sender \in Sender,
           NEW input \in Input, NEW proof \in Input, NEW now \in Time,
           AttestErasure(m, sender, input, proof, now)
    PROVE  Inv'
<1>1. /\ m \in MissionId
      /\ attestations[m].attestedAt = 0
      /\ input \in Provable
      /\ Record(m, sender, input, now)
  BY DEF AttestErasure, VerifyProof
<1>2. /\ TypeOK'
      /\ m \notin Attested
      /\ Attested' = Attested \cup {m}
      /\ attestations'[m].input = input
      /\ \A k \in MissionId \ {m} : attestations'[k] = attestations[k]
  BY <1>1, RecordAttests DEF Inv
<1>3. RecordsAreProved'
  <2>. SUFFICES ASSUME NEW k \in Attested' PROVE attestations'[k].input \in Provable
    BY DEF RecordsAreProved
  <2>1. CASE k = m
    BY <1>1, <1>2, <2>1
  <2>2. CASE k # m
    BY <1>2, <2>2 DEF Inv, RecordsAreProved, Attested
  <2>. QED
    BY <2>1, <2>2
<1>4. IsFiniteSet(Attested') /\ Cardinality(Attested') = Cardinality(Attested) + 1
  BY <1>2, FS_AddElement DEF Inv
<1>5. CountIsExact'
  BY <1>1, <1>4 DEF Inv, CountIsExact, Record
<1>6. LogEnumeratesRecords'
  <2>. DEFINE e == [missionId |-> m, attester |-> sender, attestedAt |-> now]
  <2>1. /\ Len(log') = Len(log) + 1
        /\ Len(log) \in Nat
        /\ \A i \in 1 .. Len(log) : log'[i] = log[i]
        /\ log'[Len(log) + 1] = e
    BY <1>1 DEF Inv, TypeOK, Record
  <2>2. {log'[i].missionId : i \in 1 .. Len(log')}
           = {log[i].missionId : i \in 1 .. Len(log)} \cup {m}
    <3>1. 1 .. Len(log') = 1 .. Len(log) \cup {Len(log) + 1}
      BY <2>1
    <3>2. log'[Len(log) + 1].missionId = m
      BY <2>1
    <3>. QED
      BY <2>1, <3>1, <3>2
  <2>3. Len(log') = attestationCount'
    BY <1>1, <2>1 DEF Inv, LogEnumeratesRecords, Record
  <2>. QED
    BY <1>2, <2>2, <2>3 DEF Inv, LogEnumeratesRecords
<1>. QED
  BY <1>2, <1>3, <1>4, <1>5, <1>6 DEF Inv

\* The invariant is inductive: it holds at deployment and every transaction, sent
\* by anybody with anything, preserves it.
THEOREM RegistryInvariant == Spec => []Inv
<1>1. Init => Inv
  <2>. SUFFICES ASSUME Init PROVE Inv
    OBVIOUS
  <2>1. Attested = {}
    BY DEF Init, Attested, Unset
  <2>2. TypeOK
    BY DEF Init, TypeOK
  <2>3. IsFiniteSet(Attested) /\ Cardinality(Attested) = 0
    BY <2>1, FS_EmptySet
  <2>4. LogEnumeratesRecords
    BY <2>1 DEF Init, LogEnumeratesRecords
  <2>. QED
    BY <2>1, <2>2, <2>3, <2>4 DEF Init, Inv, RecordsAreProved, CountIsExact
<1>2. Inv /\ [Next]_vars => Inv'
  <2>. SUFFICES ASSUME Inv, [Next]_vars PROVE Inv'
    OBVIOUS
  <2>1. CASE UNCHANGED vars
    BY <2>1 DEF Inv, TypeOK, RecordsAreProved, CountIsExact, LogEnumeratesRecords, Attested, vars
  <2>2. CASE Next
    <3>1. PICK m \in MissionId \cup {Zero}, sender \in Sender, input \in Input, proof \in Input,
               now \in Time : AttestErasure(m, sender, input, proof, now) \/ Revert(m, input, proof)
      BY <2>2 DEF Next
    <3>2. CASE Revert(m, input, proof)
      BY <2>1, <3>2 DEF Revert
    <3>. QED
      BY <3>1, <3>2, AttestErasureKeepsInv
  <2>. QED
    BY <2>1, <2>2
<1>. QED
  BY <1>1, <1>2, PTL DEF Spec

\* The counter is the number of missions on record, in every reachable state.
THEOREM CountCorrect == Spec => []CountIsExact
<1>1. Inv => CountIsExact
  BY DEF Inv
<1>. QED
  BY <1>1, RegistryInvariant, PTL

\* A record, once made, is never changed: no sender, proof or block can replace it.
THEOREM Permanence == Spec => AttestationIsPermanent
<1>1. TypeOK /\ [Next]_vars => \A m \in Attested : attestations'[m] = attestations[m]
  <2>. SUFFICES ASSUME TypeOK, [Next]_vars, NEW k \in Attested
                PROVE  attestations'[k] = attestations[k]
    OBVIOUS
  <2>1. CASE attestations' = attestations
    BY <2>1
  <2>2. CASE attestations' # attestations
    <3>1. PICK m \in MissionId \cup {Zero}, sender \in Sender, input \in Input, proof \in Input,
               now \in Time : AttestErasure(m, sender, input, proof, now)
      BY <2>2 DEF Next, Revert, vars
    <3>2. k # m /\ k \in MissionId
      BY <3>1 DEF AttestErasure, Attested
    <3>. QED
      BY <3>1, <3>2 DEF AttestErasure, Record, TypeOK
  <2>. QED
    BY <2>1, <2>2
<1>2. Inv => TypeOK
  BY DEF Inv
<1>. QED
  BY <1>1, <1>2, RegistryInvariant, PTL DEF Spec, AttestationIsPermanent

-----------------------------------------------------------------------------
(* Arithmetic modulo the order of the groups.                              *)

LEMMA NatByInduction ==
    ASSUME NEW T \in SUBSET Nat, 0 \in T, \A k \in T : k + 1 \in T
    PROVE  T = Nat
PROOF
  <1> DEFINE L == {ss \in Nat \X Nat : ss[1] < ss[2]}
  <1>1. IsWellFoundedOn(L, Nat)
    BY NatLessThanWellFounded DEF OpToRel
  <1> HIDE DEF L
  <1>2. SUFFICES ASSUME Nat \ T # {} PROVE FALSE
    OBVIOUS
  <1>3. PICK x \in Nat \ T : \A z \in Nat \ T : ~ (<< z, x >> \in L)
    BY <1>1, <1>2, WFMin DEF L
  <1>4. x # 0 /\ x - 1 \in Nat
    BY <1>3
  <1>5. << x - 1, x >> \in L
    BY <1>4, <1>3 DEF L
  <1> QED BY <1>3, <1>4, <1>5

LEMMA MulMono == \A a, b, c \in Nat : a < b => a * c + c <= b * c
PROOF
  <1> SUFFICES ASSUME NEW a \in Nat, NEW b \in Nat, NEW c \in Nat, a < b
               PROVE  a * c + c <= b * c
    OBVIOUS
  <1>1. PICK d \in Nat : b = a + 1 + d
    <2>1. b - a - 1 \in Nat /\ b = a + 1 + (b - a - 1)
      OBVIOUS
    <2> QED BY <2>1
  <1>2. b * c = a * c + c + d * c
    BY <1>1
  <1>3. d * c \in Nat /\ a * c \in Nat /\ b * c \in Nat
    OBVIOUS
  <1> QED BY <1>2, <1>3

LEMMA Quotient ==
    ASSUME NEW m \in Nat \ {0}, NEW x \in Nat
    PROVE  \E q \in Nat, s \in 0 .. m - 1 : x = q * m + s /\ x % m = s
PROOF
  <1> DEFINE q == x \div m   s == x % m
  <1>1. q \in Nat /\ s \in 0 .. m - 1 /\ x = m * q + s
    OBVIOUS
  <1> HIDE DEF q
  <1>2. x = q * m + s
    BY <1>1
  <1> QED BY <1>1, <1>2

LEMMA Remainder ==
    ASSUME NEW m \in Nat \ {0}, NEW q \in Nat, NEW s \in 0 .. m - 1
    PROVE  (q * m + s) % m = s
PROOF
  <1> DEFINE x == q * m + s
  <1>1. x \in Nat
    OBVIOUS
  <1>2. PICK p \in Nat, u \in 0 .. m - 1 : x = p * m + u /\ x % m = u
    BY <1>1, Quotient
  <1>3. q * m \in Nat /\ p * m \in Nat
    BY <1>2
  <1>4. CASE q < p
    <2>1. q * m + m <= p * m
      BY <1>4, MulMono
    <2> QED BY <2>1, <1>2, <1>3
  <1>5. CASE p < q
    <2>1. p * m + m <= q * m
      BY <1>5, MulMono
    <2> QED BY <2>1, <1>2, <1>3
  <1>6. CASE p = q
    BY <1>2, <1>3, <1>6
  <1> QED BY <1>4, <1>5, <1>6

\* Two numbers leave one remainder exactly if they differ by a multiple.
LEMMA Congruence ==
    ASSUME NEW m \in Nat \ {0}, NEW x \in Nat, NEW z \in Nat
    PROVE  x % m = z % m <=> \E t \in Int : x = z + t * m
PROOF
  <1>1. PICK p \in Nat, u \in 0 .. m - 1 : x = p * m + u /\ x % m = u
    BY Quotient
  <1>2. PICK q \in Nat, v \in 0 .. m - 1 : z = q * m + v /\ z % m = v
    BY Quotient
  <1>3. ASSUME x % m = z % m
        PROVE  \E t \in Int : x = z + t * m
    <2>1. (p - q) * m = p * m - q * m /\ p - q \in Int
      OBVIOUS
    <2>2. p * m \in Nat /\ q * m \in Nat
      OBVIOUS
    <2>3. x = z + (p - q) * m
      BY <1>1, <1>2, <1>3, <2>1, <2>2
    <2> QED BY <2>1, <2>3
  <1>4. ASSUME NEW t \in Int, x = z + t * m
        PROVE  x % m = z % m
    <2> DEFINE w == q + t
    <2>1. w * m = q * m + t * m /\ q * m \in Nat /\ t * m \in Int /\ w \in Int
      OBVIOUS
    <2>2. x = w * m + v
      BY <1>2, <1>4, <2>1
    <2> HIDE DEF w
    <2>3. w \in Nat
      <3>1. SUFFICES ASSUME w < 0 PROVE FALSE
        BY <2>1
      <3> DEFINE c == -w - 1
      <3>2. c \in Nat /\ w = -(c + 1)
        BY <2>1, <3>1
      <3> HIDE DEF c
      <3>3. w * m = -(c * m) - m /\ c * m \in Nat
        BY <3>2
      <3> QED BY <2>2, <3>3
    <2>4. x % m = v
      BY <2>2, <2>3, Remainder
    <2> QED BY <1>2, <2>4
  <1> QED BY <1>3, <1>4

LEMMA Small ==
    ASSUME NEW m \in Nat \ {0}, NEW x \in 0 .. m - 1
    PROVE  x % m = x
PROOF
  <1>1. (0 * m + x) % m = x
    BY Remainder
  <1> QED BY <1>1

LEMMA ModAdd ==
    ASSUME NEW m \in Nat \ {0}, NEW x \in Nat, NEW z \in Nat
    PROVE  ((x % m) + (z % m)) % m = (x + z) % m
PROOF
  <1>1. PICK p \in Nat, u \in 0 .. m - 1 : x = p * m + u /\ x % m = u
    BY Quotient
  <1>2. PICK q \in Nat, v \in 0 .. m - 1 : z = q * m + v /\ z % m = v
    BY Quotient
  <1>3. (p + q) * m = p * m + q * m /\ p * m \in Nat /\ q * m \in Nat /\ p + q \in Int
    OBVIOUS
  <1> DEFINE xz == x + z   uv == u + v   t == p + q
  <1>4. xz \in Nat /\ uv \in Nat /\ t \in Int /\ xz = uv + t * m
    BY <1>1, <1>2, <1>3
  <1>5. xz % m = uv % m
    <2> HIDE DEF xz, uv, t
    <2> QED BY <1>4, Congruence
  <1> QED BY <1>1, <1>2, <1>5

\* The verifier's pairings cancel exactly if ark-groth16's equation holds: A is negated
\* on one side instead of standing on the other, and the prepared inputs are reduced.
Balanced(m, d, b, x, gamma, ab, cd) ==
    (d * b + ab + (x % m) * gamma + cd) % m = 0
        <=> ((IF d = 0 THEN 0 ELSE m - d) * b) % m = (ab + x * gamma + cd) % m

LEMMA Balance ==
    ASSUME NEW m \in Nat \ {0}, NEW d \in 0 .. m - 1, NEW b \in Nat, NEW x \in Nat,
           NEW gamma \in Nat, NEW ab \in Nat, NEW cd \in Nat
    PROVE  Balanced(m, d, b, x, gamma, ab, cd)
PROOF
  <1> DEFINE a == IF d = 0 THEN 0 ELSE m - d
             db == d * b   mb == m * b   p == a * b
             e == IF d = 0 THEN 0 ELSE b
  <1>1. PICK q \in Nat, s \in 0 .. m - 1 : x = q * m + s /\ x % m = s
    BY Quotient
  <1> DEFINE sg == s * gamma   xg == x * gamma   qg == q * gamma
  <1>2. xg = qg * m + sg /\ sg \in Nat /\ xg \in Nat /\ qg \in Nat /\ qg * m \in Nat
    BY <1>1
  <1>3. a \in Nat /\ p \in Nat /\ db \in Nat /\ e \in Nat /\ p = e * m - db
    <2>1. CASE d = 0
      BY <2>1
    <2>2. CASE d # 0
      <3>1. (m - d) * b = b * m - d * b /\ m - d \in Nat
        BY <2>2
      <3> QED BY <2>2, <3>1
    <2> QED BY <2>1, <2>2
  <1> DEFINE sum == db + ab + sg + cd   out == ab + xg + cd
  <1> HIDE DEF db, p, e, sg, xg, qg, a
  <1>4. sum \in Nat /\ out \in Nat
    BY <1>2, <1>3
  <1>5. out = sum + p + (qg - e) * m
    <2>1. (qg - e) * m = qg * m - e * m /\ e * m \in Nat
      BY <1>2, <1>3
    <2> QED BY <1>2, <1>3, <2>1
  <1> HIDE DEF sum, out
  <1>6. sum % m = 0 <=> \E t \in Int : sum = t * m
    <2>1. 0 % m = 0
      BY Small
    <2> DEFINE zero == 0
    <2>2. zero \in Nat /\ zero % m = 0 /\ \A t \in Int : zero + t * m = t * m
      BY <2>1
    <2> HIDE DEF zero
    <2>3. sum % m = zero % m <=> \E t \in Int : sum = zero + t * m
      BY <1>4, <2>2, Congruence
    <2> QED BY <2>2, <2>3
  <1>7. out % m = p % m <=> \E t \in Int : out = p + t * m
    BY <1>3, <1>4, Congruence
  <1>8. ASSUME NEW t \in Int, sum = t * m
        PROVE  \E w \in Int : out = p + w * m
    <2>1. (t + (qg - e)) * m = t * m + (qg - e) * m /\ t + (qg - e) \in Int
          /\ t * m \in Int /\ (qg - e) * m \in Int
      BY <1>2, <1>3
    <2>2. out = p + (t + (qg - e)) * m
      BY <1>3, <1>5, <1>8, <2>1
    <2> QED BY <2>1, <2>2
  <1>9. ASSUME NEW t \in Int, out = p + t * m
        PROVE  \E w \in Int : sum = w * m
    <2>1. (t - (qg - e)) * m = t * m - (qg - e) * m /\ t - (qg - e) \in Int
          /\ t * m \in Int /\ (qg - e) * m \in Int
      BY <1>2, <1>3
    <2>2. sum = (t - (qg - e)) * m
      BY <1>3, <1>4, <1>5, <1>9, <2>1
    <2> QED BY <2>1, <2>2
  <1>10. sum % m = 0 <=> out % m = p % m
    BY <1>6, <1>7, <1>8, <1>9
  <1> QED BY <1>1, <1>10 DEF Balanced, sum, out, db, p, sg, xg, a

-----------------------------------------------------------------------------
(* What the export writes is what the contract reads.                      *)

LEMMA WordsAreNumbers == \A f \in Nat : FqToWord(f) = f
PROOF
  <1> SUFFICES ASSUME NEW f \in Nat PROVE FqToWord(f) = f
    OBVIOUS
  <1>1. Digit \in Nat \ {0}
    BY CurveAssumption
  <1>2. f = Digit * (f \div Digit) + (f % Digit) /\ f \div Digit \in Nat
    BY <1>1
  <1> DEFINE q == f \div Digit   s == f % Digit
  <1>3. FqToWord(f) = q * Digit + s
    BY DEF FqToWord, EvmReads, BigEndian
  <1> HIDE DEF q, s
  <1>4. q * Digit = Digit * q
    BY <1>1, <1>2 DEF q
  <1> QED BY <1>2, <1>3, <1>4 DEF q, s

\* The coordinates of a point of the first group, and of its inverse.
LEMMA PointsOfG1 ==
    ASSUME NEW k \in 1 .. R - 1
    PROVE  /\ G1[k] = << G1[k][1], G1[k][2] >>
           /\ G1[k][1] \in 0 .. Q - 1 /\ G1[k][2] \in 0 .. Q - 1
           /\ G1[k] # << 0, 0 >>
           /\ R - k \in 1 .. R - 1
           /\ G1[R - k] = << G1[k][1], Q - G1[k][2] >>
           /\ Q \in Nat \ {0} /\ R \in Nat \ {0}
PROOF
  <1>1. G1[k] \in (0 .. Q - 1) \X (0 .. Q - 1)
    BY CurveAssumption
  <1>2. R - k \in 1 .. R - 1
    BY CurveAssumption
  <1>3. G1[k] # << 0, 0 >> /\ G1[R - k] = << G1[k][1], Q - G1[k][2] >>
    BY CurveAssumption
  <1> QED BY <1>1, <1>2, <1>3, CurveAssumption

LEMMA G1Words == \A k \in 1 .. R - 1 : G1ToWords(k) = G1[k]
PROOF
  <1> SUFFICES ASSUME NEW k \in 1 .. R - 1 PROVE G1ToWords(k) = G1[k]
    OBVIOUS
  <1>1. G1[k][1] \in Nat /\ G1[k][2] \in Nat
    BY PointsOfG1
  <1>2. G1ToWords(k) = << G1[k][1], G1[k][2] >>
    BY <1>1, WordsAreNumbers DEF G1ToWords
  <1> QED BY <1>2, PointsOfG1

LEMMA DecodesG1 == \A k \in 1 .. R - 1 : DecodeG1(G1[k]) = k
PROOF
  <1> SUFFICES ASSUME NEW k \in 1 .. R - 1 PROVE DecodeG1(G1[k]) = k
    OBVIOUS
  <1>1. G1[k] # << 0, 0 >>
    BY PointsOfG1
  <1>2. DOMAIN G1 = 1 .. R - 1
    BY CurveAssumption
  <1>3. \A l \in 1 .. R - 1 : G1[k] = G1[l] => k = l
    BY CurveAssumption
  <1>4. Decode(G1, G1[k]) = k
    BY <1>2, <1>3 DEF Decode
  <1> QED BY <1>1, <1>4 DEF DecodeG1

LEMMA DecodeG1Range ==
    ASSUME NEW p
    PROVE  /\ DecodeG1(p) \in 0 .. R - 1 \/ DecodeG1(p) = NotAPoint
           /\ DecodeG1(p) \in 1 .. R - 1 => p = G1[DecodeG1(p)]
           /\ DecodeG1(p) = 0 => p = << 0, 0 >>
PROOF
  <1>1. R \in Nat \ {0} /\ DOMAIN G1 = 1 .. R - 1
    BY CurveAssumption
  <1>2. CASE p = << 0, 0 >>
    BY <1>1, <1>2 DEF DecodeG1
  <1>3. CASE p # << 0, 0 >>
    <2>1. DecodeG1(p) = Decode(G1, p)
      BY <1>3 DEF DecodeG1
    <2>2. CASE \E k \in 1 .. R - 1 : p = G1[k]
      <3>1. PICK k \in 1 .. R - 1 : p = G1[k]
        BY <2>2
      <3>2. DecodeG1(p) = k
        BY <3>1, DecodesG1
      <3> QED BY <3>1, <3>2, <1>1
    <2>3. CASE ~ \E k \in 1 .. R - 1 : p = G1[k]
      <3>1. DecodeG1(p) = NotAPoint
        BY <1>1, <2>1, <2>3 DEF Decode
      <3> QED BY <3>1, <1>1 DEF NotAPoint
    <2> QED BY <2>2, <2>3
  <1> QED BY <1>2, <1>3

LEMMA EncodesG1 ==
    ASSUME NEW k \in 0 .. R - 1
    PROVE  DecodeG1(EncodeG1(k)) = k
PROOF
  <1>1. R \in Nat \ {0}
    BY CurveAssumption
  <1>2. CASE k = 0
    BY <1>2 DEF EncodeG1, Infinity, DecodeG1
  <1>3. CASE k # 0
    BY <1>1, <1>3, DecodesG1 DEF EncodeG1
  <1> QED BY <1>2, <1>3

LEMMA DecodesG2 == \A k \in 1 .. R - 1 : DecodeG2(G2ToWords(k)) = k
PROOF
  <1> SUFFICES ASSUME NEW k \in 1 .. R - 1 PROVE DecodeG2(G2ToWords(k)) = k
    OBVIOUS
  <1>1. /\ G2[k] \in [x : Coordinates, y : Coordinates]
        /\ G2[k] # [x |-> [c0 |-> 0, c1 |-> 0], y |-> [c0 |-> 0, c1 |-> 0]]
    BY CurveAssumption
  <1>2. DOMAIN G2 = 1 .. R - 1 /\ \A l \in 1 .. R - 1 : G2[k] = G2[l] => k = l
    BY CurveAssumption
  <1> DEFINE x0 == G2[k].x.c0   x1 == G2[k].x.c1   y0 == G2[k].y.c0   y1 == G2[k].y.c1
             p == G2ToWords(k)
  <1>3. /\ x0 \in Nat /\ x1 \in Nat /\ y0 \in Nat /\ y1 \in Nat
        /\ G2[k] = [x |-> [c0 |-> x0, c1 |-> x1], y |-> [c0 |-> y0, c1 |-> y1]]
    <2>1. G2[k].x \in Coordinates /\ G2[k].y \in Coordinates
          /\ G2[k] = [x |-> G2[k].x, y |-> G2[k].y]
      BY <1>1
    <2>2. \A z \in Coordinates : z.c0 \in Nat /\ z.c1 \in Nat /\ z = [c0 |-> z.c0, c1 |-> z.c1]
      BY CurveAssumption DEF Coordinates
    <2> QED BY <2>1, <2>2
  <1>4. p = << << x1, x0 >>, << y1, y0 >> >>
    BY <1>3, WordsAreNumbers DEF G2ToWords
  <1> HIDE DEF x0, x1, y0, y1, p
  <1>5. p # << << 0, 0 >>, << 0, 0 >> >>
    BY <1>1, <1>3, <1>4
  <1>6. [x |-> [c1 |-> p[1][1], c0 |-> p[1][2]], y |-> [c1 |-> p[2][1], c0 |-> p[2][2]]] = G2[k]
    BY <1>3, <1>4
  <1>7. DecodeG2(p) = Decode(G2, G2[k])
    BY <1>5, <1>6 DEF DecodeG2
  <1>8. Decode(G2, G2[k]) = k
    BY <1>2 DEF Decode
  <1> QED BY <1>7, <1>8 DEF p

LEMMA DecodeG2Range ==
    ASSUME NEW p
    PROVE  DecodeG2(p) \in 0 .. R - 1 \/ DecodeG2(p) = NotAPoint
PROOF
  <1>1. R \in Nat \ {0} /\ DOMAIN G2 = 1 .. R - 1
    BY CurveAssumption
  <1>2. \A q : Decode(G2, q) \in 1 .. R - 1 \/ Decode(G2, q) = NotAPoint
    BY <1>1 DEF Decode
  <1> QED BY <1>1, <1>2 DEF DecodeG2

\* A negated point decodes to the opposite one, whatever words held it.
LEMMA DecodesNegation ==
    ASSUME NEW a \in 1 .. R - 1
    PROVE  Negate(G1[a]) = G1[R - a] /\ DecodeG1(Negate(G1[a])) = R - a
PROOF
  <1> DEFINE x == G1[a][1]   y == G1[a][2]
  <1>1. /\ G1[a] = << x, y >> /\ y \in 0 .. Q - 1
        /\ G1[a] # << 0, 0 >>
        /\ R - a \in 1 .. R - 1
        /\ G1[R - a] = << x, Q - y >>
        /\ Q \in Nat \ {0}
    BY PointsOfG1
  <1> HIDE DEF x, y
  <1>2. y % Q = y
    BY <1>1, Small
  <1>3. Negate(G1[a]) = << x, Q - y >>
    BY <1>1, <1>2 DEF Negate, Infinity
  <1> QED BY <1>1, <1>3, DecodesG1

-----------------------------------------------------------------------------
(* The contract's sum over the inputs is ark-groth16's.                    *)

\* s and t are the values of the two sums on the way.
VkXRun(s, key, input, k) ==
    s = [j \in 0 .. k |-> IF j = 0 THEN key.ic[1]
                          ELSE Addition(s[j - 1], ScalarMul(key.ic[j + 1], input[j]))]
PreparedRun(t, vk, inputs, k) ==
    t = [j \in 0 .. k |-> IF j = 0 THEN vk.ic[1] ELSE t[j - 1] + vk.ic[j + 1] * inputs[j]]

LEMMA VkXRunExists ==
    ASSUME NEW key, NEW input, NEW k \in Nat
    PROVE  \E s : VkXRun(s, key, input, k)
PROOF
  <1> DEFINE T == {z \in Nat : \E s : VkXRun(s, key, input, z)}
             V(s, j) == IF j = 0 THEN key.ic[1]
                        ELSE Addition(s[j - 1], ScalarMul(key.ic[j + 1], input[j]))
  <1>0. \A s, z : VkXRun(s, key, input, z) <=> s = [j \in 0 .. z |-> V(s, j)]
    BY Zenon DEF VkXRun
  <1>a. \A s, h, j : h[j - 1] = s[j - 1] => V(h, j) = V(s, j)
    BY Zenon
  <1>b. \A s, h : V(h, 0) = V(s, 0)
    BY Zenon
  <1> HIDE DEF V
  <1>1. 0 \in T
    <2> DEFINE h == [j \in 0 .. 0 |-> V(0, 0)]
    <2>1. \A j \in 0 .. 0 : V(h, j) = V(0, 0)
      <3>1. \A j \in 0 .. 0 : j = 0
        OBVIOUS
      <3> QED BY <1>b, <3>1, Zenon
    <2>2. h = [j \in 0 .. 0 |-> V(h, j)]
      <3> HIDE DEF h
      <3> QED BY <2>1, Zenon DEF h
    <2> QED BY <1>0, <2>2
  <1>2. ASSUME NEW z \in T PROVE z + 1 \in T
    <2>1. PICK s : s = [j \in 0 .. z |-> V(s, j)]
      BY <1>0
    <2> DEFINE h == [j \in 0 .. z + 1 |-> V(s, j)]
    <2>2. \A j \in 0 .. z + 1 : h[j] = V(s, j)
      OBVIOUS
    <2>3. \A j \in 0 .. z : s[j] = V(s, j)
      BY <2>1, Zenon
    <2>4. \A j \in 0 .. z : j \in 0 .. z + 1
      OBVIOUS
    <2>5. \A j \in 0 .. z : h[j] = s[j]
      BY <2>2, <2>3, <2>4, Zenon
    <2>6. \A j \in 0 .. z + 1 : j = 0 \/ j - 1 \in 0 .. z
      OBVIOUS
    <2>7. ASSUME NEW j \in 0 .. z + 1
          PROVE  V(h, j) = V(s, j)
      <3>1. CASE j = 0
        BY <1>b, <3>1
      <3>2. CASE j - 1 \in 0 .. z
        BY <2>5, <1>a, <3>2, Zenon
      <3> QED BY <2>6, <3>1, <3>2, Zenon
    <2>8. h = [j \in 0 .. z + 1 |-> h[j]]
      OBVIOUS
    <2> HIDE DEF h
    <2>9. h = [j \in 0 .. z + 1 |-> V(h, j)]
      BY <2>2, <2>7, <2>8
    <2>10. z + 1 \in Nat /\ VkXRun(h, key, input, z + 1)
      BY <2>9, <1>0
    <2> QED BY <2>10
  <1> HIDE DEF T
  <1>3. T = Nat
    BY <1>1, <1>2, NatByInduction DEF T
  <1> QED BY <1>3 DEF T

LEMMA PreparedRunExists ==
    ASSUME NEW vk, NEW inputs, NEW k \in Nat
    PROVE  \E t : PreparedRun(t, vk, inputs, k)
PROOF
  <1> DEFINE T == {z \in Nat : \E t : PreparedRun(t, vk, inputs, z)}
             V(t, j) == IF j = 0 THEN vk.ic[1] ELSE t[j - 1] + vk.ic[j + 1] * inputs[j]
  <1>0. \A t, z : PreparedRun(t, vk, inputs, z) <=> t = [j \in 0 .. z |-> V(t, j)]
    BY Zenon DEF PreparedRun
  <1>a. \A t, h, j : h[j - 1] = t[j - 1] => V(h, j) = V(t, j)
    BY Zenon
  <1>b. \A t, h : V(h, 0) = V(t, 0)
    BY Zenon
  <1> HIDE DEF V
  <1>1. 0 \in T
    <2> DEFINE h == [j \in 0 .. 0 |-> V(0, 0)]
    <2>1. \A j \in 0 .. 0 : V(h, j) = V(0, 0)
      <3>1. \A j \in 0 .. 0 : j = 0
        OBVIOUS
      <3> QED BY <1>b, <3>1, Zenon
    <2>2. h = [j \in 0 .. 0 |-> V(h, j)]
      <3> HIDE DEF h
      <3> QED BY <2>1, Zenon DEF h
    <2> QED BY <1>0, <2>2
  <1>2. ASSUME NEW z \in T PROVE z + 1 \in T
    <2>1. PICK t : t = [j \in 0 .. z |-> V(t, j)]
      BY <1>0
    <2> DEFINE h == [j \in 0 .. z + 1 |-> V(t, j)]
    <2>2. \A j \in 0 .. z + 1 : h[j] = V(t, j)
      OBVIOUS
    <2>3. \A j \in 0 .. z : t[j] = V(t, j)
      BY <2>1, Zenon
    <2>4. \A j \in 0 .. z : j \in 0 .. z + 1
      OBVIOUS
    <2>5. \A j \in 0 .. z : h[j] = t[j]
      BY <2>2, <2>3, <2>4, Zenon
    <2>6. \A j \in 0 .. z + 1 : j = 0 \/ j - 1 \in 0 .. z
      OBVIOUS
    <2>7. ASSUME NEW j \in 0 .. z + 1
          PROVE  V(h, j) = V(t, j)
      <3>1. CASE j = 0
        BY <1>b, <3>1
      <3>2. CASE j - 1 \in 0 .. z
        BY <2>5, <1>a, <3>2, Zenon
      <3> QED BY <2>6, <3>1, <3>2, Zenon
    <2>8. h = [j \in 0 .. z + 1 |-> h[j]]
      OBVIOUS
    <2> HIDE DEF h
    <2>9. h = [j \in 0 .. z + 1 |-> V(h, j)]
      BY <2>2, <2>7, <2>8
    <2>10. z + 1 \in Nat /\ PreparedRun(h, vk, inputs, z + 1)
      BY <2>9, <1>0
    <2> QED BY <2>10
  <1> HIDE DEF T
  <1>3. T = Nat
    BY <1>1, <1>2, NatByInduction DEF T
  <1> QED BY <1>3 DEF T

\* One round of the loop: a scalar multiplication and an addition by the precompiles.
LEMMA OneRound ==
    ASSUME NEW p, NEW u \in Nat, DecodeG1(p) = u % R, NEW k \in 1 .. R - 1, NEW n \in Nat
    PROVE  DecodeG1(Addition(p, ScalarMul(G1[k], n))) = (u + k * n) % R
PROOF
  <1>0. R \in Nat \ {0} /\ k \in Nat
    BY CurveAssumption
  <1> DEFINE kn == k * n   v == kn % R   w == u % R   q == ScalarMul(G1[k], n)
             sum == (w + v) % R
  <1>1. kn \in Nat
    BY <1>0
  <1>2. v \in 0 .. R - 1 /\ w \in 0 .. R - 1
    <2> HIDE DEF kn
    <2> QED BY <1>0, <1>1
  <1>3. DecodeG1(G1[k]) = k /\ k # NotAPoint
    BY <1>0, DecodesG1 DEF NotAPoint
  <1>4. q = EncodeG1(v)
    BY <1>3, Zenon DEF ScalarMul
  <1> HIDE DEF kn, v, w, q
  <1>5. DecodeG1(q) = v
    BY <1>2, <1>4, EncodesG1
  <1>6. v # NotAPoint /\ w # NotAPoint
    BY <1>2 DEF NotAPoint
  <1>7. DecodeG1(p) = w
    BY DEF w
  <1>8. Addition(p, q) = EncodeG1((w + v) % R)
    BY <1>5, <1>6, <1>7, Zenon DEF Addition
  <1>9. w + v \in Nat
    BY <1>2
  <1>10. sum \in 0 .. R - 1
    BY <1>0, <1>9
  <1>11. DecodeG1(EncodeG1(sum)) = sum
    <2> HIDE DEF sum
    <2> QED BY <1>10, EncodesG1
  <1>12. sum = (u + kn) % R
    BY <1>0, <1>1, ModAdd DEF v, w
  <1> QED BY <1>8, <1>11, <1>12 DEF kn, q

\* What the two sums need of a key and its export.
Matching(vk, key) ==
    /\ vk.ic \in Seq(1 .. R - 1)
    /\ Len(vk.ic) = PUBLIC_INPUT_COUNT + 1
    /\ key.ic = [i \in DOMAIN vk.ic |-> G1[vk.ic[i]]]

LEMMA InputsAreSequences ==
    ASSUME NEW input \in [1 .. PUBLIC_INPUT_COUNT -> Nat]
    PROVE  input \in Seq(Nat) /\ Len(input) = PUBLIC_INPUT_COUNT
PROOF
  <1>1. PUBLIC_INPUT_COUNT \in Nat
    BY CurveAssumption
  <1> QED BY <1>1

LEMMA SumsAgree ==
    ASSUME NEW vk, NEW key, Matching(vk, key), NEW input \in [1 .. PUBLIC_INPUT_COUNT -> Nat]
    PROVE  /\ PreparedInputs(vk, input) \in Nat
           /\ DecodeG1(VkX(key, input)) = PreparedInputs(vk, input) % R
PROOF
  <1> DEFINE k == PUBLIC_INPUT_COUNT
             s == CHOOSE h : VkXRun(h, key, input, k)
             t == CHOOSE h : PreparedRun(h, vk, input, k)
  <1>0. k \in Nat /\ R \in Nat \ {0}
    BY CurveAssumption
  <1>1. VkXRun(s, key, input, k) /\ PreparedRun(t, vk, input, k)
    BY <1>0, VkXRunExists, PreparedRunExists
  <1>2. VkX(key, input) = s[k]
    BY DEF VkX, VkXRun
  <1>3. PreparedInputs(vk, input) = t[k]
    BY InputsAreSequences DEF PreparedInputs, PreparedRun
  <1> HIDE DEF s, t
  <1> DEFINE ic == vk.ic
  <1>4. \A j \in 1 .. k + 1 : ic[j] \in 1 .. R - 1 /\ key.ic[j] = G1[ic[j]]
    BY <1>0 DEF Matching
  <1>5. 1 \in 1 .. k + 1 /\ \A j \in 1 .. k : j + 1 \in 1 .. k + 1 /\ input[j] \in Nat
    BY <1>0
  <1> HIDE DEF k, ic
  <1>6. \A j \in 0 .. k : s[j] = IF j = 0 THEN key.ic[1]
                                 ELSE Addition(s[j - 1], ScalarMul(key.ic[j + 1], input[j]))
    BY <1>1, Zenon DEF VkXRun
  <1>7. \A j \in 0 .. k : t[j] = IF j = 0 THEN ic[1] ELSE t[j - 1] + ic[j + 1] * input[j]
    BY <1>1, Zenon DEF PreparedRun, ic
  <1>8. 0 \in 0 .. k /\ \A j \in 1 .. k : j \in 0 .. k /\ j # 0
    BY <1>0
  <1>9. s[0] = G1[ic[1]] /\ t[0] = ic[1]
    BY <1>4, <1>5, <1>6, <1>7, <1>8, Zenon
  <1>10. \A j \in 1 .. k : s[j] = Addition(s[j - 1], ScalarMul(G1[ic[j + 1]], input[j]))
    BY <1>4, <1>5, <1>6, <1>8, Zenon
  <1>11. \A j \in 1 .. k : t[j] = t[j - 1] + ic[j + 1] * input[j]
    BY <1>7, <1>8, Zenon
  <1> DEFINE T == {z \in Nat : z \in 0 .. k => t[z] \in Nat /\ DecodeG1(s[z]) = t[z] % R}
  <1>12. 0 \in T
    <2> DEFINE b == ic[1]
    <2>1. b \in 1 .. R - 1
      BY <1>4, <1>5
    <2> HIDE DEF b
    <2>2. b \in Nat /\ DecodeG1(G1[b]) = b /\ b % R = b
      BY <1>0, <2>1, DecodesG1, Small
    <2>3. s[0] = G1[b] /\ t[0] = b
      BY <1>9 DEF b
    <2>4. t[0] \in Nat /\ DecodeG1(s[0]) = t[0] % R
      BY <2>2, <2>3, Zenon
    <2> QED BY <2>4
  <1>13. ASSUME NEW z \in T PROVE z + 1 \in T
    <2>1. ASSUME z + 1 \in 0 .. k
          PROVE  t[z + 1] \in Nat /\ DecodeG1(s[z + 1]) = t[z + 1] % R
      <3>1. z \in 0 .. k /\ z + 1 \in 1 .. k /\ (z + 1) - 1 = z /\ z + 2 \in 1 .. k + 1
            /\ (z + 1) + 1 = z + 2
        BY <1>0, <2>1
      <3> DEFINE u == t[z]   p == s[z]   b == ic[z + 2]   n == input[z + 1]
      <3>2. u \in Nat /\ DecodeG1(p) = u % R
        BY <3>1
      <3>3. b \in 1 .. R - 1 /\ n \in Nat
        BY <1>4, <1>5, <3>1
      <3>4. s[z + 1] = Addition(p, ScalarMul(G1[b], n))
        BY <1>10, <3>1
      <3>5. t[z + 1] = u + b * n
        BY <1>11, <3>1
      <3> HIDE DEF u, p, b, n
      <3>6. DecodeG1(Addition(p, ScalarMul(G1[b], n))) = (u + b * n) % R
        BY <3>2, <3>3, OneRound
      <3>7. u + b * n \in Nat
        BY <3>2, <3>3, <1>0
      <3> QED BY <3>4, <3>5, <3>6, <3>7, Zenon
    <2>2. z + 1 \in Nat
      OBVIOUS
    <2> QED BY <2>1, <2>2
  <1> HIDE DEF T
  <1>14. T = Nat
    BY <1>12, <1>13, NatByInduction DEF T
  <1>15. k \in T /\ k \in 0 .. k
    BY <1>0, <1>14
  <1> QED BY <1>2, <1>3, <1>15 DEF T

-----------------------------------------------------------------------------
(* The verifier.                                                           *)

\* What the contract's constructor was given decodes to the key that was exported.
LEMMA ExportedKeyDecodes ==
    ASSUME NEW vk \in VerifyingKey, Deployable(vk)
    PROVE  /\ Matching(vk, ExportVerifyingKey(vk))
           /\ DecodeG1(ExportVerifyingKey(vk).alpha) = vk.alpha
           /\ DecodeG2(ExportVerifyingKey(vk).beta) = vk.beta
           /\ DecodeG2(ExportVerifyingKey(vk).gamma) = vk.gamma
           /\ DecodeG2(ExportVerifyingKey(vk).delta) = vk.delta
           /\ {vk.alpha, vk.beta, vk.gamma, vk.delta} \subseteq 1 .. R - 1
PROOF
  <1> DEFINE key == ExportVerifyingKey(vk)   ic == vk.ic
  <1>1. /\ {vk.alpha, vk.beta, vk.gamma, vk.delta} \subseteq 0 .. R - 1
        /\ ic \in Seq(0 .. R - 1)
    BY OnChainAssumption
  <1>2. /\ 0 \notin {vk.alpha, vk.beta, vk.gamma, vk.delta}
        /\ \A i \in 1 .. Len(ic) : ic[i] # 0
    BY DEF Deployable, KeyExportable
  <1>3. Len(key.ic) = PUBLIC_INPUT_COUNT + 1
    BY DEF Deployable, Constructible
  <1>0. R \in Nat /\ \A k \in 0 .. R - 1 : k # 0 => k \in 1 .. R - 1
    BY CurveAssumption
  <1>4. {vk.alpha, vk.beta, vk.gamma, vk.delta} \subseteq 1 .. R - 1
    BY <1>0, <1>1, <1>2, Zenon
  <1>5. /\ key.alpha = G1ToWords(vk.alpha) /\ key.beta = G2ToWords(vk.beta)
        /\ key.gamma = G2ToWords(vk.gamma) /\ key.delta = G2ToWords(vk.delta)
        /\ key.ic = [i \in DOMAIN ic |-> G1ToWords(ic[i])]
    BY DEF ExportVerifyingKey
  <1> HIDE DEF key, ic
  <1>6. DOMAIN ic = 1 .. Len(ic) /\ Len(ic) \in Nat
    BY <1>1
  <1>7. \A i \in 1 .. Len(ic) : ic[i] \in 1 .. R - 1
    <2>1. \A i \in 1 .. Len(ic) : ic[i] \in 0 .. R - 1
      <3> DEFINE S == 0 .. R - 1
      <3>1. ic \in Seq(S)
        BY <1>1
      <3> HIDE DEF S
      <3>2. \A i \in 1 .. Len(ic) : ic[i] \in S
        BY <3>1
      <3> QED BY <3>2 DEF S
    <2>2. ASSUME NEW i \in 1 .. Len(ic)
          PROVE  ic[i] \in 1 .. R - 1
      <3>1. ic[i] \in 0 .. R - 1 /\ ic[i] # 0
        BY <1>2, <2>1
      <3> QED BY <1>0, <3>1
    <2> QED BY <2>2
  <1>8. key.ic = [i \in DOMAIN ic |-> G1[ic[i]]]
    BY <1>5, <1>6, <1>7, G1Words
  <1>9. Len(key.ic) = Len(ic)
    BY <1>6, <1>8
  <1>10. ic \in Seq(1 .. R - 1)
    <2> DEFINE S == 1 .. R - 1   n == Len(ic)
    <2>1. ic = [i \in 1 .. n |-> ic[i]]
      BY <1>1, <1>6
    <2>2. n \in Nat /\ \A i \in 1 .. n : ic[i] \in S
      BY <1>6, <1>7
    <2> HIDE DEF S, n
    <2>3. ic \in [1 .. n -> S]
      BY <2>1, <2>2
    <2>4. ic \in Seq(S)
      BY <2>2, <2>3
    <2> QED BY <2>4 DEF S
  <1>11. Matching(vk, key)
    BY <1>3, <1>8, <1>9, <1>10 DEF Matching, ic
  <1>12. DecodeG1(key.alpha) = vk.alpha
    BY <1>4, <1>5, G1Words, DecodesG1
  <1>13. DecodeG2(key.beta) = vk.beta /\ DecodeG2(key.gamma) = vk.gamma
         /\ DecodeG2(key.delta) = vk.delta
    BY <1>4, <1>5, DecodesG2
  <1> QED BY <1>4, <1>11, <1>12, <1>13 DEF key

\* The deployed verifier accepts exactly what ark-groth16 accepts: whatever words are
\* sent, its pairings cancel if and only if the words are points that satisfy the
\* equation of the key that was exported.
THEOREM VerifierIsExact ==
    ASSUME NEW vk \in VerifyingKey, Deployable(vk), NEW words, NEW input \in Input
    PROVE  VerifyWords(ExportVerifyingKey(vk), words, input)
           <=> /\ InScalarField(input) /\ Readable(words)
               /\ NativeVerify(vk, PointsOf(words), input)
PROOF
  <1> DEFINE key == ExportVerifyingKey(vk)
             d == DecodeG1(Negate(words.a))   b == DecodeG2(words.b)   c == DecodeG1(words.c)
             x == PreparedInputs(vk, input)   pairs == Pairs(key, words, input)
             ab == vk.alpha * vk.beta   cd == c * vk.delta   vkx == DecodeG1(VkX(key, input))
  <1>1. R \in Nat \ {0} /\ input \in [1 .. PUBLIC_INPUT_COUNT -> Nat]
    BY CurveAssumption, OnChainAssumption
  <1>2. x \in Nat /\ vkx = x % R
    BY <1>1, ExportedKeyDecodes, SumsAgree
  <1>3. /\ DecodeG1(key.alpha) = vk.alpha /\ DecodeG2(key.beta) = vk.beta
        /\ DecodeG2(key.gamma) = vk.gamma /\ DecodeG2(key.delta) = vk.delta
        /\ {vk.alpha, vk.beta, vk.gamma, vk.delta} \subseteq 1 .. R - 1
    BY ExportedKeyDecodes
  <1>4. /\ d \in 0 .. R - 1 \/ d = NotAPoint
        /\ b \in 0 .. R - 1 \/ b = NotAPoint
        /\ c \in 0 .. R - 1 \/ c = NotAPoint
    BY DecodeG1Range, DecodeG2Range
  <1>5. /\ pairs[1][1] = Negate(words.a) /\ pairs[1][2] = words.b
        /\ pairs[2][1] = key.alpha /\ pairs[2][2] = key.beta
        /\ pairs[3][1] = VkX(key, input) /\ pairs[3][2] = key.gamma
        /\ pairs[4][1] = words.c /\ pairs[4][2] = key.delta
    BY DEF Pairs
  <1> HIDE DEF key, pairs
  <1>6. Readable(words) <=> d # NotAPoint /\ b # NotAPoint /\ c # NotAPoint
    BY DEF Readable
  <1>7. NativeVerify(vk, PointsOf(words), input)
           <=> (Opposite(d) * b) % R = (ab + x * vk.gamma + cd) % R
    BY DEF NativeVerify, PointsOf
  <1>8. PairingCheck4(pairs)
           <=> /\ d # NotAPoint /\ b # NotAPoint /\ c # NotAPoint
               /\ (d * b + ab + vkx * vk.gamma + cd) % R = 0
    <2> DEFINE ok(i) == DecodeG1(pairs[i][1]) # NotAPoint /\ DecodeG2(pairs[i][2]) # NotAPoint
    <2>1. vkx # NotAPoint
      <3> HIDE DEF vkx, x
      <3>1. x % R \in 0 .. R - 1
        BY <1>1, <1>2
      <3> QED BY <1>2, <3>1 DEF NotAPoint
    <2>2. vk.alpha # NotAPoint /\ vk.beta # NotAPoint /\ vk.gamma # NotAPoint /\ vk.delta # NotAPoint
      BY <1>1, <1>3 DEF NotAPoint
    <2>3. (\A i \in 1 .. 4 : ok(i)) <=> ok(1) /\ ok(2) /\ ok(3) /\ ok(4)
      <3> HIDE DEF ok
      <3>1. 1 .. 4 = {1, 2, 3, 4}
        OBVIOUS
      <3> QED BY <3>1
    <2>4. ok(1) <=> d # NotAPoint /\ b # NotAPoint
      BY <1>5, Zenon
    <2>5. ok(2)
      BY <1>3, <1>5, <2>2, Zenon
    <2>6. ok(3)
      BY <1>3, <1>5, <2>1, <2>2, Zenon
    <2>7. ok(4) <=> c # NotAPoint
      BY <1>3, <1>5, <2>2, Zenon
    <2>8. DecodeG1(pairs[1][1]) * DecodeG2(pairs[1][2]) + DecodeG1(pairs[2][1]) * DecodeG2(pairs[2][2])
             + DecodeG1(pairs[3][1]) * DecodeG2(pairs[3][2])
             + DecodeG1(pairs[4][1]) * DecodeG2(pairs[4][2])
           = d * b + ab + vkx * vk.gamma + cd
      BY <1>3, <1>5, Zenon
    <2>9. PairingCheck4(pairs)
             <=> (\A i \in 1 .. 4 : ok(i)) /\ (d * b + ab + vkx * vk.gamma + cd) % R = 0
      <3> DEFINE sum == d * b + ab + vkx * vk.gamma + cd
      <3>1. sum = DecodeG1(pairs[1][1]) * DecodeG2(pairs[1][2]) + DecodeG1(pairs[2][1]) * DecodeG2(pairs[2][2])
             + DecodeG1(pairs[3][1]) * DecodeG2(pairs[3][2])
             + DecodeG1(pairs[4][1]) * DecodeG2(pairs[4][2])
        BY <2>8
      <3> HIDE DEF sum
      <3>2. PairingCheck4(pairs) <=> (\A i \in 1 .. 4 : ok(i)) /\ sum % R = 0
        BY <3>1, Zenon DEF PairingCheck4
      <3> QED BY <3>2 DEF sum
    <2> HIDE DEF ok, ab, cd, vkx, d, b, c
    <2> QED BY <2>3, <2>4, <2>5, <2>6, <2>7, <2>9, Zenon
  <1>9. ASSUME d # NotAPoint, b # NotAPoint, c # NotAPoint
        PROVE  (d * b + ab + vkx * vk.gamma + cd) % R = 0
               <=> (Opposite(d) * b) % R = (ab + x * vk.gamma + cd) % R
    <2> DEFINE gamma == vk.gamma
    <2>1. d \in 0 .. R - 1 /\ b \in Nat /\ gamma \in Nat /\ ab \in Nat /\ cd \in Nat
      <3>1. d \in 0 .. R - 1 /\ b \in 0 .. R - 1 /\ c \in 0 .. R - 1
        BY <1>4, <1>9
      <3>2. vk.alpha \in Nat /\ vk.beta \in Nat /\ gamma \in Nat /\ vk.delta \in Nat
        BY <1>3
      <3>3. b \in Nat /\ c \in Nat
        BY <3>1
      <3> HIDE DEF c, b, d
      <3> QED BY <3>1, <3>2, <3>3
    <2> HIDE DEF d, b, x, gamma, ab, cd, vkx
    <2>1a. R \in Nat \ {0}
      BY <1>1
    <2>1b. x \in Nat
      BY <1>2
    <2>2. Balanced(R, d, b, x, gamma, ab, cd)
      BY <2>1a, <2>1b, <2>1, Balance
    <2> QED BY <1>2, <2>2, Zenon DEF Balanced, Opposite, gamma
  <1>10. VerifyWords(key, words, input) <=> InScalarField(input) /\ PairingCheck4(pairs)
    BY DEF VerifyWords, pairs
  <1> HIDE DEF d, b, c, x, ab, cd, vkx
  <1> QED BY <1>6, <1>7, <1>8, <1>9, <1>10, Zenon DEF key

\* What is deployed is the export of a key that has one.
OnChainInv ==
    deployed # << >> => \E vk \in VerifyingKey : deployed = << vk >> /\ Deployable(vk)

LEMMA OnChainInvariant == OnChainSpec => []OnChainInv
PROOF
  <1>1. OnChainInit => OnChainInv
    BY DEF OnChainInit, OnChainInv
  <1>2. OnChainInv /\ [OnChainNext]_<< vars, deployed >> => OnChainInv'
    <2> SUFFICES ASSUME OnChainInv, [OnChainNext]_<< vars, deployed >> PROVE OnChainInv'
      OBVIOUS
    <2>1. CASE deployed' = deployed
      BY <2>1 DEF OnChainInv
    <2>2. CASE \E vk \in VerifyingKey : Deploy(vk)
      BY <2>2 DEF OnChainInv, Deploy
    <2> QED BY <2>1, <2>2 DEF OnChainNext, Attest
  <1> QED BY <1>1, <1>2, PTL DEF OnChainSpec

\* Keys, proofs and inputs survive the export: what ark-groth16 verifies against the
\* deployed key, the contract accepts, for every key, proof and input.
THEOREM HonestProofsAreAccepted == OnChainSpec => []HonestProofIsAccepted
PROOF
  <1>1. OnChainInv => HonestProofIsAccepted
    <2> SUFFICES ASSUME NEW vk \in VerifyingKey, deployed = << vk >>, Deployable(vk),
                        NEW inputs \in Provable, NEW proof \in Proof,
                        NativeVerify(vk, proof, inputs), ProofExportable(proof)
                 PROVE  VerifyWords(ExportVerifyingKey(vk), ExportProof(proof),
                                    ErasurePublicInputs(inputs))
      BY DEF OnChainInv, HonestProofIsAccepted, Accepts
    <2> DEFINE a == proof.a   b == proof.b   c == proof.c   words == ExportProof(proof)
    <2>1. R \in Nat \ {0} /\ \A k \in 0 .. R - 1 : k # 0 => k \in 1 .. R - 1
      BY CurveAssumption
    <2>2. a \in 0 .. R - 1 /\ b \in 0 .. R - 1 /\ c \in 0 .. R - 1
      BY OnChainAssumption
    <2>3. a # 0 /\ b # 0 /\ c # 0
      BY DEF ProofExportable
    <2>4. a \in 1 .. R - 1 /\ b \in 1 .. R - 1 /\ c \in 1 .. R - 1
      BY <2>1, <2>2, <2>3
    <2>5. words.a = G1ToWords(a) /\ words.b = G2ToWords(b) /\ words.c = G1ToWords(c)
      BY DEF ExportProof
    <2> HIDE DEF a, b, c, words
    <2>6. /\ DecodeG1(Negate(words.a)) = R - a /\ DecodeG2(words.b) = b
          /\ DecodeG1(words.c) = c
      BY <2>4, <2>5, G1Words, DecodesG1, DecodesG2, DecodesNegation
    <2>7. Readable(words)
      BY <2>1, <2>4, <2>6 DEF Readable, NotAPoint
    <2>8. R - a # 0 /\ R - (R - a) = a
      BY <2>1, <2>4
    <2>9. /\ PointsOf(words).a = a /\ PointsOf(words).b = b /\ PointsOf(words).c = c
      BY <2>6, <2>8 DEF PointsOf, Opposite
    <2>10. inputs \in [1 .. PUBLIC_INPUT_COUNT -> 0 .. R - 1] /\ inputs \in Input
      BY OnChainAssumption, RegistryAssumption
    <2>11. DOMAIN inputs = 1 .. PUBLIC_INPUT_COUNT
           /\ \A i \in 1 .. PUBLIC_INPUT_COUNT : inputs[i] \in Nat /\ inputs[i] < R
      BY <2>1, <2>10
    <2>12. ErasurePublicInputs(inputs) = inputs
      <3>1. ErasurePublicInputs(inputs) = [i \in 1 .. PUBLIC_INPUT_COUNT |-> inputs[i]]
        BY <2>11, WordsAreNumbers DEF ErasurePublicInputs
      <3> QED BY <2>10, <3>1
    <2>13. InScalarField(inputs)
      BY <2>11 DEF InScalarField
    <2>14. NativeVerify(vk, PointsOf(words), inputs)
      BY <2>9, Zenon DEF NativeVerify, a, b, c
    <2>15. VerifyWords(ExportVerifyingKey(vk), words, inputs)
      BY <2>7, <2>10, <2>13, <2>14, VerifierIsExact
    <2> QED BY <2>12, <2>15 DEF words
  <1> QED BY <1>1, OnChainInvariant, PTL

\* The contracts, whatever is sent to them, put on record only inputs that were proved:
\* each transaction that they accept is one of the ideal registry's.
THEOREM DeployedImplementsRegistry == OnChainSpec => ImplementsRegistry
PROOF
  <1>1. OnChainInit => Init
    BY DEF OnChainInit
  <1>2. OnChainInv /\ [OnChainNext]_<< vars, deployed >> => [Next]_vars
    <2> SUFFICES ASSUME OnChainInv, [OnChainNext]_<< vars, deployed >> PROVE [Next]_vars
      OBVIOUS
    <2>1. CASE UNCHANGED vars
      BY <2>1
    <2>2. CASE \E m \in MissionId \cup {Zero}, sender \in Sender, input \in Input,
                  proof \in Calldata, now \in Time : Attest(m, sender, input, proof, now)
      <3>1. PICK m \in MissionId \cup {Zero}, sender \in Sender, input \in Input,
                 proof \in Calldata, now \in Time : Attest(m, sender, input, proof, now)
        BY <2>2
      <3>2. /\ deployed # << >> /\ m # Zero /\ attestations[m].attestedAt = 0
            /\ Accepts(proof, input) /\ Record(m, sender, input, now)
        BY <3>1 DEF Attest
      <3>3. PICK vk \in VerifyingKey : deployed = << vk >> /\ Deployable(vk)
        BY <3>2 DEF OnChainInv
      <3>4. VerifyWords(ExportVerifyingKey(vk), proof, input)
        BY <3>2, <3>3 DEF Accepts
      <3>5. /\ InScalarField(input) /\ Readable(proof)
            /\ NativeVerify(vk, PointsOf(proof), input)
        BY <3>3, <3>4, VerifierIsExact
      <3>6. input \in Provable
        BY <3>3, <3>5, SoundnessAssumption
      <3>7. AttestErasure(m, sender, input, input, now)
        BY <3>2, <3>6 DEF AttestErasure, VerifyProof
      <3> QED BY <3>7 DEF Next
    <2> QED BY <2>1, <2>2 DEF OnChainNext, Deploy, vars
  <1> QED BY <1>1, <1>2, OnChainInvariant, PTL DEF OnChainSpec, ImplementsRegistry, Spec

\* So that what holds of the ideal registry holds of the contracts.
THEOREM DeployedRecordsLast == OnChainSpec => []CountIsExact /\ AttestationIsPermanent
PROOF
  <1> QED BY DeployedImplementsRegistry, CountCorrect, Permanence DEF ImplementsRegistry
=============================================================================
