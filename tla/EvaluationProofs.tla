-------------------------- MODULE EvaluationProofs --------------------------
(***************************************************************************)
(* What a mission computes, and from what: the delay function and its      *)
(* proof, for any modulus, any base and any number of squarings; the hash  *)
(* chain kept beside it; the beacon's salt; and the encrypted evaluation,  *)
(* for any model and any width of a word.                                  *)
(***************************************************************************)
EXTENDS Wesolowski, Posw, MissionInputs, WellFoundedInduction, SequenceTheorems, TLAPS

-----------------------------------------------------------------------------
(* Arithmetic: induction, remainders, powers.                              *)

LEMMA NatByInduction ==
    ASSUME NEW T \in SUBSET Nat, 0 \in T, \A k \in T : k + 1 \in T
    PROVE  T = Nat
PROOF
  <1> DEFINE R == {ss \in Nat \X Nat : ss[1] < ss[2]}
  <1>1. IsWellFoundedOn(R, Nat)
    BY NatLessThanWellFounded DEF OpToRel
  <1> HIDE DEF R
  <1>2. SUFFICES ASSUME Nat \ T # {} PROVE FALSE
    OBVIOUS
  <1>3. PICK x \in Nat \ T : \A z \in Nat \ T : ~ (<< z, x >> \in R)
    BY <1>1, <1>2, WFMin DEF R
  <1>4. x # 0 /\ x - 1 \in Nat
    BY <1>3
  <1>5. << x - 1, x >> \in R
    BY <1>4, <1>3 DEF R
  <1> QED BY <1>3, <1>4, <1>5

LEMMA MulMono == \A a, b, c \in Nat : a < b => a * c + c <= b * c
PROOF
  <1> SUFFICES ASSUME NEW a \in Nat, NEW b \in Nat, NEW c \in Nat, a < b
               PROVE  a * c + c <= b * c
    OBVIOUS
  <1>1. PICK d \in Nat : b = a + 1 + d
    <2>1. b - a - 1 \in Nat /\ b = a + 1 + (b - a - 1)
      OBVIOUS
    <2> QED BY <2>1
  <1>2. b * c = a * c + c + d * c
    BY <1>1
  <1>3. d * c \in Nat /\ a * c \in Nat /\ b * c \in Nat
    OBVIOUS
  <1> QED BY <1>2, <1>3

LEMMA ModIn == \A x \in Nat, m \in Nat \ {0} : x % m \in 0 .. m - 1
  OBVIOUS

LEMMA Remainder ==
    ASSUME NEW m \in Nat \ {0}, NEW q \in Nat, NEW s \in 0 .. m - 1
    PROVE  (q * m + s) % m = s /\ (q * m + s) \div m = q
PROOF
  <1> DEFINE a == q * m + s   p == a \div m   u == a % m
  <1>1. a \in Nat /\ p \in Nat /\ u \in 0 .. m - 1 /\ a = m * p + u
    OBVIOUS
  <1>2. q * m \in Nat /\ p * m \in Nat /\ m * p = p * m
    BY <1>1
  <1>3. CASE q < p
    <2>1. q * m + m <= p * m
      BY <1>3, <1>1, MulMono
    <2> QED BY <2>1, <1>1, <1>2
  <1>4. CASE p < q
    <2>1. p * m + m <= q * m
      BY <1>4, <1>1, MulMono
    <2> QED BY <2>1, <1>1, <1>2
  <1>5. CASE p = q
    <2>1. u = s
      BY <1>5, <1>1, <1>2
    <2> QED BY <1>5, <2>1
  <1>6. p \in Nat /\ (q < p \/ p < q \/ p = q)
    BY <1>1
  <1> QED BY <1>3, <1>4, <1>5, <1>6

LEMMA DropMultiple ==
    ASSUME NEW m \in Nat \ {0}, NEW q \in Nat, NEW x \in Nat
    PROVE  (q * m + x) % m = x % m
PROOF
  <1> DEFINE p == x \div m   s == x % m
  <1>1. p \in Nat /\ s \in 0 .. m - 1 /\ x = p * m + s
    OBVIOUS
  <1>2. q * m + x = (q + p) * m + s
    BY <1>1
  <1> HIDE DEF p
  <1>3. q + p \in Nat
    BY <1>1
  <1>4. ((q + p) * m + s) % m = s
    BY <1>1, <1>3, Remainder
  <1> QED BY <1>2, <1>4

LEMMA ModMul ==
    ASSUME NEW m \in Nat \ {0}, NEW x \in Nat, NEW z \in Nat
    PROVE  ((x % m) * z) % m = (x * z) % m
PROOF
  <1> DEFINE p == x \div m   s == x % m
  <1>1. p \in Nat /\ s \in 0 .. m - 1 /\ x = p * m + s
    OBVIOUS
  <1> HIDE DEF p, s
  <1>2. x * z = (p * z) * m + s * z
    BY <1>1
  <1>3. p * z \in Nat /\ s * z \in Nat
    BY <1>1
  <1>4. ((p * z) * m + s * z) % m = (s * z) % m
    BY <1>3, DropMultiple
  <1> QED BY <1>2, <1>4 DEF s

LEMMA ModMul2 ==
    ASSUME NEW m \in Nat \ {0}, NEW x \in Nat, NEW z \in Nat
    PROVE  ((x % m) * (z % m)) % m = (x * z) % m
PROOF
  <1>1. x % m \in Nat /\ z % m \in Nat
    BY ModIn
  <1>2. ((x % m) * (z % m)) % m = (x * (z % m)) % m
    BY <1>1, ModMul
  <1>3. x * (z % m) = (z % m) * x /\ x * z = z * x
    BY <1>1
  <1>4. ((z % m) * x) % m = (z * x) % m
    BY ModMul
  <1> QED BY <1>2, <1>3, <1>4

LEMMA ModMul3 ==
    ASSUME NEW m \in Nat \ {0}, NEW x \in Nat, NEW w \in Nat
    PROVE  (((x % m) * (x % m)) * (w % m)) % m = ((x * x) * w) % m
PROOF
  <1>0. x * x \in Nat
    OBVIOUS
  <1>1. x % m \in Nat /\ w % m \in Nat
    BY ModIn
  <1>2. (x % m) * (x % m) \in Nat
    BY <1>1
  <1>3. (((x % m) * (x % m)) * (w % m)) % m
           = ((((x % m) * (x % m)) % m) * ((w % m) % m)) % m
    BY <1>1, <1>2, ModMul2
  <1>4. ((x % m) * (x % m)) % m = (x * x) % m
    BY ModMul2
  <1>5. (w % m) % m = w % m
    <2>1. w % m \in 0 .. m - 1
      BY ModIn
    <2> QED BY <2>1
  <1>6. (((x * x) % m) * (w % m)) % m = ((x * x) * w) % m
    BY <1>0, ModMul2
  <1> QED BY <1>3, <1>4, <1>5, <1>6, Zenon

\* b to the k, by k multiplications.
PowersUpTo(f, b, k) ==
    /\ f \in [0 .. k -> Nat]
    /\ f[0] = 1
    /\ \A j \in 0 .. k - 1 : f[j + 1] = f[j] * b
Pow(b, k) == (CHOOSE f : PowersUpTo(f, b, k))[k]

LEMMA PowersExist ==
    ASSUME NEW b \in Nat, NEW k \in Nat
    PROVE  \E f : PowersUpTo(f, b, k)
PROOF
  <1> DEFINE T == {m \in Nat : \E f : PowersUpTo(f, b, m)}
  <1>1. 0 \in T
    <2>1. PowersUpTo([j \in 0 .. 0 |-> 1], b, 0)
      BY DEF PowersUpTo
    <2> QED BY <2>1
  <1>2. ASSUME NEW m \in T PROVE m + 1 \in T
    <2>1. PICK f : PowersUpTo(f, b, m)
      OBVIOUS
    <2> DEFINE h == [j \in 0 .. m + 1 |-> IF j = m + 1 THEN f[m] * b ELSE f[j]]
    <2>2. f[m] * b \in Nat /\ \A j \in 0 .. m : f[j] \in Nat
      BY <2>1 DEF PowersUpTo
    <2>3. h \in [0 .. m + 1 -> Nat]
      BY <2>2
    <2>4. h[0] = 1 /\ \A j \in 0 .. m : h[j + 1] = h[j] * b
      BY <2>1 DEF PowersUpTo
    <2> HIDE DEF h
    <2>5. PowersUpTo(h, b, m + 1)
      BY <2>3, <2>4 DEF PowersUpTo
    <2> QED BY <2>5
  <1> HIDE DEF T
  <1>3. T = Nat
    BY <1>1, <1>2, NatByInduction DEF T
  <1> QED BY <1>3 DEF T

LEMMA PowersAgree ==
    ASSUME NEW b \in Nat, NEW k \in Nat, NEW f, PowersUpTo(f, b, k),
           NEW m \in Nat, NEW h, PowersUpTo(h, b, m)
    PROVE  \A j \in 0 .. k : j <= m => f[j] = h[j]
PROOF
  <1> DEFINE T == {j \in Nat : j <= k /\ j <= m => f[j] = h[j]}
  <1>1. 0 \in T
    BY DEF PowersUpTo
  <1>2. ASSUME NEW j \in T PROVE j + 1 \in T
    BY DEF PowersUpTo
  <1> HIDE DEF T
  <1>3. T = Nat
    BY <1>1, <1>2, NatByInduction DEF T
  <1> QED BY <1>3 DEF T

LEMMA PowerStep ==
    ASSUME NEW b \in Nat, NEW k \in Nat
    PROVE  /\ Pow(b, k) \in Nat
           /\ Pow(b, 0) = 1
           /\ Pow(b, k + 1) = Pow(b, k) * b
PROOF
  <1> DEFINE P(j) == CHOOSE f : PowersUpTo(f, b, j)
  <1>1. \A j \in Nat : PowersUpTo(P(j), b, j)
    BY PowersExist
  <1>2. \A j \in Nat : Pow(b, j) = P(j)[j]
    BY DEF Pow
  <1> HIDE DEF P
  <1>3. P(k)[k] \in Nat /\ P(0)[0] = 1 /\ P(k + 1)[k + 1] = P(k + 1)[k] * b
    BY <1>1 DEF PowersUpTo
  <1>4. P(k + 1)[k] = P(k)[k]
    BY <1>1, PowersAgree
  <1> QED BY <1>2, <1>3, <1>4

LEMMA PowersOfOne ==
    ASSUME NEW k \in Nat
    PROVE  Pow(1, k) = 1
PROOF
  <1> DEFINE T == {m \in Nat : Pow(1, m) = 1}
  <1>1. 0 \in T
    <2>1. Pow(1, 0) = 1
      BY PowerStep
    <2> QED BY <2>1
  <1>2. ASSUME NEW m \in T PROVE m + 1 \in T
    <2>1. Pow(1, m + 1) = Pow(1, m) * 1
      BY PowerStep
    <2> QED BY <2>1
  <1> HIDE DEF T
  <1>3. T = Nat
    BY <1>1, <1>2, NatByInduction DEF T
  <1> QED BY <1>3 DEF T

LEMMA PowerOfSum ==
    ASSUME NEW b \in Nat, NEW j \in Nat, NEW k \in Nat
    PROVE  Pow(b, j + k) = Pow(b, j) * Pow(b, k)
PROOF
  <1> DEFINE T == {m \in Nat : Pow(b, j + m) = Pow(b, j) * Pow(b, m)}
  <1>1. 0 \in T
    BY PowerStep
  <1>2. ASSUME NEW m \in T PROVE m + 1 \in T
    <2>1. /\ Pow(b, j) \in Nat /\ Pow(b, m) \in Nat
          /\ Pow(b, m + 1) = Pow(b, m) * b
          /\ Pow(b, (j + m) + 1) = Pow(b, j + m) * b
          /\ j + (m + 1) = (j + m) + 1
      BY PowerStep
    <2>2. (Pow(b, j) * Pow(b, m)) * b = Pow(b, j) * (Pow(b, m) * b)
      BY <2>1
    <2> QED BY <2>1, <2>2
  <1> HIDE DEF T
  <1>3. T = Nat
    BY <1>1, <1>2, NatByInduction DEF T
  <1> QED BY <1>3 DEF T

LEMMA PowerOfPower ==
    ASSUME NEW b \in Nat, NEW j \in Nat, NEW k \in Nat, NEW m \in Nat \ {0}
    PROVE  Pow(Pow(b, j) % m, k) % m = Pow(b, j * k) % m
PROOF
  <1> DEFINE x == Pow(b, j) % m
             T == {z \in Nat : Pow(x, z) % m = Pow(b, j * z) % m}
  <1>0. Pow(b, j) \in Nat /\ x \in Nat
    BY PowerStep, ModIn
  <1> HIDE DEF x
  <1>1. 0 \in T
    <2>1. Pow(x, 0) = 1 /\ Pow(b, 0) = 1 /\ j * 0 = 0
      BY <1>0, PowerStep
    <2> QED BY <2>1
  <1>2. ASSUME NEW z \in T PROVE z + 1 \in T
    <2>1. /\ Pow(x, z) \in Nat /\ Pow(x, z + 1) = Pow(x, z) * x
          /\ j * z \in Nat /\ j * (z + 1) = j * z + j
      BY <1>0, PowerStep
    <2>2. Pow(b, j * z) \in Nat /\ Pow(b, j * z + j) = Pow(b, j * z) * Pow(b, j)
      BY <2>1, PowerStep, PowerOfSum
    <2>3. (Pow(x, z) * x) % m = ((Pow(x, z) % m) * (x % m)) % m
      BY <1>0, <2>1, ModMul2
    <2>4. (Pow(b, j * z) * Pow(b, j)) % m = ((Pow(b, j * z) % m) * (Pow(b, j) % m)) % m
      BY <1>0, <2>2, ModMul2
    <2>5. x % m = x
      <3>1. x \in 0 .. m - 1
        BY <1>0, ModIn DEF x
      <3> QED BY <3>1
    <2>6. Pow(x, z) % m = Pow(b, j * z) % m
      OBVIOUS
    <2> HIDE DEF T
    <2>7. Pow(x, z + 1) % m = Pow(b, j * (z + 1)) % m
      BY <2>1, <2>2, <2>3, <2>4, <2>5, <2>6, Zenon DEF x
    <2> QED BY <2>7 DEF T
  <1> HIDE DEF T
  <1>3. T = Nat
    BY <1>1, <1>2, NatByInduction DEF T
  <1> QED BY <1>3 DEF T, x

\* Square and multiply computes the power: e and its half are one digit apart.
HalvingPowers(f, b, k, m) ==
    f = [e \in 0 .. k |->
            IF e = 0 THEN 1
            ELSE (f[e \div 2] * f[e \div 2] * (IF e % 2 = 1 THEN b % m ELSE 1)) % m]

LEMMA HalvingPowersExist ==
    ASSUME NEW b \in Nat, NEW k \in Nat, NEW m \in Nat \ {0}
    PROVE  \E f : HalvingPowers(f, b, k, m)
PROOF
  <1> DEFINE T == {z \in Nat : \E f : HalvingPowers(f, b, z, m)}
             Digit(f, e) == IF e = 0 THEN 1
                            ELSE (f[e \div 2] * f[e \div 2]
                                     * (IF e % 2 = 1 THEN b % m ELSE 1)) % m
  <1>0. \A f, z : HalvingPowers(f, b, z, m) <=> f = [e \in 0 .. z |-> Digit(f, e)]
    BY Zenon DEF HalvingPowers
  <1>a. \A f, h, e : h[e \div 2] = f[e \div 2] => Digit(h, e) = Digit(f, e)
    BY Zenon
  <1>b. \A f : Digit(f, 0) = 1
    BY Zenon
  <1> HIDE DEF Digit
  <1>1. 0 \in T
    <2> DEFINE h == [e \in 0 .. 0 |-> 1]
    <2>1. \A e \in 0 .. 0 : Digit(h, e) = 1
      BY <1>b
    <2>2. h = [e \in 0 .. 0 |-> Digit(h, e)]
      BY <2>1
    <2> QED BY <1>0, <2>2
  <1>2. ASSUME NEW z \in T PROVE z + 1 \in T
    <2>1. PICK f : f = [e \in 0 .. z |-> Digit(f, e)]
      BY <1>0
    <2> DEFINE h == [e \in 0 .. z + 1 |-> Digit(f, e)]
    <2>2. \A e \in 0 .. z + 1 : h[e] = Digit(f, e)
      OBVIOUS
    <2>3. \A e \in 0 .. z : f[e] = Digit(f, e)
      BY <2>1, Zenon
    <2>4. \A e \in 0 .. z : e \in 0 .. z + 1
      OBVIOUS
    <2>5. \A e \in 0 .. z : h[e] = f[e]
      BY <2>2, <2>3, <2>4, Zenon
    <2>6. \A e \in 0 .. z + 1 : e = 0 \/ e \div 2 \in 0 .. z
      OBVIOUS
    <2>7. \A e \in 0 .. z + 1 : Digit(h, e) = Digit(f, e)
      BY <2>5, <2>6, <1>a, <1>b, Zenon
    <2>8. h = [e \in 0 .. z + 1 |-> h[e]]
      OBVIOUS
    <2> HIDE DEF h
    <2>9. h = [e \in 0 .. z + 1 |-> Digit(h, e)]
      BY <2>2, <2>7, <2>8
    <2>10. z + 1 \in Nat /\ HalvingPowers(h, b, z + 1, m)
      BY <2>9, <1>0
    <2> QED BY <2>10
  <1> HIDE DEF T
  <1>3. T = Nat
    BY <1>1, <1>2, NatByInduction DEF T
  <1> QED BY <1>3 DEF T

\* pow_mod_u64 and modpow compute what they are named after, for every base, exponent
\* and modulus greater than one.
LEMMA PowModIsPower ==
    ASSUME NEW b \in Nat, NEW k \in Nat, NEW m \in Nat \ {0, 1}
    PROVE  PowMod(b, k, m) = Pow(b, k) % m
PROOF
  <1> DEFINE f == CHOOSE h : HalvingPowers(h, b, k, m)
             Right(e) == f[e] = Pow(b, e) % m
             T == {z \in Nat : \A e \in 0 .. z : e <= k => Right(e)}
  <1>1. HalvingPowers(f, b, k, m)
    BY HalvingPowersExist
  <1>2. PowMod(b, k, m) = f[k]
    BY DEF PowMod, HalvingPowers
  <1> HIDE DEF f
  <1>3. \A e \in 0 .. k :
            f[e] = IF e = 0 THEN 1
                   ELSE (f[e \div 2] * f[e \div 2] * (IF e % 2 = 1 THEN b % m ELSE 1)) % m
    BY <1>1, Zenon DEF HalvingPowers
  <1>4. Right(0)
    <2>1. f[0] = 1
      BY <1>3
    <2>2. Pow(b, 0) = 1
      BY PowerStep
    <2>3. 1 % m = 1
      <3>1. 1 \in 0 .. m - 1
        OBVIOUS
      <3> QED BY <3>1
    <2> QED BY <2>1, <2>2, <2>3
  <1>5. ASSUME NEW e \in 1 .. k, Right(e \div 2)
        PROVE  Right(e)
    <2> DEFINE d == e \div 2   u == e % 2   x == Pow(b, d)   w == IF u = 1 THEN b ELSE 1
    <2>1. d \in Nat /\ u \in 0 .. 1 /\ e = d + d + u
      OBVIOUS
    <2>2. f[e] = (f[d] * f[d] * (IF u = 1 THEN b % m ELSE 1)) % m
      <3>1. e \in 0 .. k /\ e # 0
        OBVIOUS
      <3> QED BY <1>3, <3>1, Zenon
    <2>3. f[d] = x % m
      BY <1>5
    <2> HIDE DEF d, u
    <2>4. x \in Nat /\ w \in Nat /\ x * x \in Nat /\ (x * x) * w \in Nat
      <3>1. x \in Nat
        BY <2>1, PowerStep
      <3>2. w \in Nat
        OBVIOUS
      <3> HIDE DEF x, w
      <3>3. x * x \in Nat
        BY <3>1
      <3> QED BY <3>1, <3>2, <3>3
    <2>5. Pow(b, e) = (x * x) * w
      <3>1. Pow(b, d + d) = x * x
        BY <2>1, PowerOfSum
      <3>2. CASE u = 1
        <4>1. d + d \in Nat /\ Pow(b, (d + d) + 1) = Pow(b, d + d) * b
          BY <2>1, PowerStep
        <4> QED BY <2>1, <3>1, <3>2, <4>1
      <3>3. CASE u = 0
        <4>1. e = d + d
          BY <2>1, <3>3
        <4> HIDE DEF x
        <4> QED BY <2>4, <3>1, <3>3, <4>1
      <3> QED BY <2>1, <3>2, <3>3
    <2>6. (IF u = 1 THEN b % m ELSE 1) = w % m
      BY <2>1
    <2> HIDE DEF x, w
    <2>7. (((x % m) * (x % m)) * (w % m)) % m = ((x * x) * w) % m
      BY <2>4, ModMul3
    <2>8. f[e] = Pow(b, e) % m
      BY <2>2, <2>3, <2>5, <2>6, <2>7, Zenon
    <2> QED BY <2>8
  <1> HIDE DEF Right
  <1>6. 0 \in T
    BY <1>4
  <1>7. ASSUME NEW z \in T PROVE z + 1 \in T
    <2>1. ASSUME z + 1 <= k
          PROVE  Right(z + 1)
      <3>1. z + 1 \in 1 .. k /\ (z + 1) \div 2 \in 0 .. z /\ (z + 1) \div 2 <= k
        BY <2>1
      <3> QED BY <3>1, <1>5
    <2> QED BY <2>1
  <1> HIDE DEF T
  <1>8. T = Nat
    BY <1>6, <1>7, NatByInduction DEF T
  <1>9. Right(k)
    <2>1. k \in T /\ k \in 0 .. k /\ k <= k
      BY <1>8
    <2> QED BY <2>1 DEF T
  <1> QED BY <1>2, <1>9 DEF Right

LEMMA LeastExists ==
    ASSUME NEW S \in SUBSET Nat, S # {}
    PROVE  \E c \in S : \A d \in S : c <= d
PROOF
  <1> SUFFICES ASSUME \A c \in S : \E d \in S : ~ (c <= d)
               PROVE  FALSE
    OBVIOUS
  <1> DEFINE T == {k \in Nat : \A c \in 0 .. k : c \notin S}
  <1>1. 0 \in T
    <2>1. 0 \notin S
      OBVIOUS
    <2> QED BY <2>1
  <1>2. ASSUME NEW k \in T PROVE k + 1 \in T
    <2>1. k + 1 \notin S
      <3> SUFFICES ASSUME k + 1 \in S PROVE FALSE
        OBVIOUS
      <3>1. PICK d \in S : ~ (k + 1 <= d)
        OBVIOUS
      <3>2. d \in 0 .. k
        BY <3>1
      <3> QED BY <3>2
    <2> QED BY <2>1
  <1> HIDE DEF T
  <1>3. T = Nat
    BY <1>1, <1>2, NatByInduction DEF T
  <1>4. PICK k : k \in S
    OBVIOUS
  <1>5. k \in T /\ k \in 0 .. k
    BY <1>3, <1>4
  <1> QED BY <1>4, <1>5 DEF T

-----------------------------------------------------------------------------
(* The delay function: the result, and the long division beside it.        *)

\* The challenge is an odd prime, whatever the hash.
LEMMA ChallengeIsPrime ==
    ASSUME NEW seed \in 0 .. U64Max
    PROVE  IsOddPrime(FiatShamirPrime(seed))
PROOF
  <1> DEFINE odd == IF seed % 2 = 1 THEN seed ELSE seed + 1
             first == IF odd < 3 THEN 3 ELSE odd
             found == {c \in first .. U64Max : c % 2 = 1 /\ IsPrime(c)}
             least == CHOOSE c \in found : \A d \in found : c <= d
  <1>1. FiatShamirPrime(seed) = IF found = {} THEN LargestPrime ELSE least
    BY DEF FiatShamirPrime
  <1>2. first \in Nat /\ 3 <= first
    BY DelayAssumption
  <1> HIDE DEF odd, first
  <1>3. CASE found = {}
    BY <1>1, <1>3, PrimalityAssumption
  <1>4. CASE found # {}
    <2>1. found \in SUBSET Nat
      BY <1>2, DelayAssumption
    <2>2. \E c \in found : \A d \in found : c <= d
      <3> HIDE DEF found
      <3> QED BY <1>4, <2>1, LeastExists
    <2>3. least \in found
      <3> HIDE DEF found
      <3> QED BY <2>2
    <2> HIDE DEF least
    <2>4. least \in 3 .. U64Max /\ least % 2 = 1 /\ IsPrime(least)
      BY <1>2, <2>3, DelayAssumption
    <2> QED BY <1>1, <1>4, <2>4, PrimalityAssumption
  <1> QED BY <1>3, <1>4

\* Long division of 2^k by l, in the exponent of b modulo m: rem is the remainder and
\* quot is b to the quotient.
Divided(b, m, l, k, quot, rem) ==
    /\ rem \in 0 .. l - 1
    /\ \E q \in Nat : Pow(2, k) = q * l + rem /\ quot = Pow(b, q) % m

LEMMA DivisionBegins ==
    ASSUME NEW b \in Nat, NEW m \in Nat \ {0, 1}, NEW l \in Nat \ {0, 1}
    PROVE  Divided(b, m, l, 0, 1 % m, 1 % l)
PROOF
  <1>1. Pow(2, 0) = 1 /\ Pow(b, 0) = 1
    <2>1. 0 \in Nat /\ 2 \in Nat
      OBVIOUS
    <2> QED BY <2>1, PowerStep
  <1>2. 1 % l = 1
    <2>1. 1 \in 0 .. l - 1
      OBVIOUS
    <2> QED BY <2>1
  <1>3. 1 \in 0 .. l - 1 /\ 1 = 0 * l + 1 /\ 0 \in Nat
    OBVIOUS
  <1> QED BY <1>1, <1>2, <1>3 DEF Divided

LEMMA DivisionStep ==
    ASSUME NEW b \in Nat, NEW m \in Nat \ {0, 1}, NEW l \in Nat \ {0, 1}, NEW k \in Nat,
           NEW x, NEW s, Divided(b, m, l, k, x, s)
    PROVE  Divided(b, m, l, k + 1,
                   (x * x * (IF (2 * s) \div l = 1 THEN b % m ELSE 1)) % m, (2 * s) % l)
PROOF
  <1>1. PICK q \in Nat : Pow(2, k) = q * l + s /\ x = Pow(b, q) % m
    BY DEF Divided
  <1>2. s \in 0 .. l - 1
    BY DEF Divided
  <1> DEFINE digit == (2 * s) \div l   rem == (2 * s) % l   z == Pow(b, q)
             w == IF digit = 1 THEN b ELSE 1
  <1>3. digit \in 0 .. 1 /\ rem \in 0 .. l - 1 /\ 2 * s = digit * l + rem
    <2>1. CASE 2 * s < l
      <3>1. digit = 0 /\ rem = 2 * s
        BY <1>2, <2>1
      <3> QED BY <3>1, <1>2, <2>1
    <2>2. CASE l <= 2 * s
      <3>1. digit = 1 /\ rem = 2 * s - l
        BY <1>2, <2>2
      <3> QED BY <3>1, <1>2, <2>2
    <2> QED BY <1>2, <2>1, <2>2
  <1> HIDE DEF digit, rem
  <1>4. q + q + digit \in Nat /\ q + q \in Nat
    BY <1>3
  <1>5. Pow(2, k + 1) = (q + q + digit) * l + rem
    <2>1. Pow(2, k + 1) = Pow(2, k) * 2
      BY PowerStep
    <2>2. (q * l + s) * 2 = (q * l + q * l) + 2 * s
      BY <1>2
    <2>3. (q + q + digit) * l + rem = (q * l + q * l) + (digit * l + rem)
      BY <1>3
    <2> QED BY <1>1, <1>3, <2>1, <2>2, <2>3
  <1>6. z \in Nat
    BY PowerStep
  <1>7. Pow(b, q + q + digit) = (z * z) * w
    <2>1. Pow(b, q + q) = z * z
      BY PowerOfSum
    <2>2. CASE digit = 1
      <3>1. Pow(b, (q + q) + 1) = Pow(b, q + q) * b
        BY <1>4, PowerStep
      <3> QED BY <2>1, <2>2, <3>1
    <2>3. CASE digit = 0
      <3>1. q + q + digit = q + q
        BY <2>3
      <3> HIDE DEF z
      <3> QED BY <1>6, <2>1, <2>3, <3>1
    <2> QED BY <1>3, <2>2, <2>3
  <1>8. (IF digit = 1 THEN b % m ELSE 1) = w % m
    <2>1. 1 % m = 1
      <3>1. 1 \in 0 .. m - 1
        OBVIOUS
      <3> QED BY <3>1
    <2> QED BY <1>3, <2>1
  <1>9. x = z % m
    BY <1>1
  <1>10. w \in Nat
    BY <1>3
  <1> HIDE DEF z, w
  <1>11. (((z % m) * (z % m)) * (w % m)) % m = ((z * z) * w) % m
    BY <1>6, <1>10, ModMul3
  <1> QED BY <1>3, <1>4, <1>5, <1>7, <1>8, <1>9, <1>11, Zenon DEF Divided, digit, rem

\* What the division ends with is what verify() looks for.
LEMMA DivisionVerifies ==
    ASSUME NEW b \in Nat, NEW m \in Nat \ {0, 1}, NEW l \in Nat \ {0, 1}, NEW k \in Nat,
           NEW x, NEW s, Divided(b, m, l, k, x, s)
    PROVE  (PowMod(x, l, m) * PowMod(b, PowMod(2, k, l), m)) % m = Pow(b, Pow(2, k)) % m
PROOF
  <1>1. PICK q \in Nat : Pow(2, k) = q * l + s /\ x = Pow(b, q) % m
    BY DEF Divided
  <1>2. s \in 0 .. l - 1 /\ s \in Nat /\ q * l \in Nat
    BY DEF Divided
  <1>3. PowMod(2, k, l) = s
    <2>1. PowMod(2, k, l) = Pow(2, k) % l
      BY PowModIsPower
    <2>2. (q * l + s) % l = s
      BY <1>2, Remainder
    <2> QED BY <1>1, <2>1, <2>2
  <1>4. PowMod(b, s, m) = Pow(b, s) % m /\ Pow(b, s) \in Nat
    BY <1>2, PowModIsPower, PowerStep
  <1>5. Pow(b, q) \in Nat /\ x \in Nat
    <2>1. Pow(b, q) \in Nat
      BY PowerStep
    <2>2. Pow(b, q) % m \in 0 .. m - 1
      BY <2>1, ModIn
    <2> QED BY <1>1, <2>1, <2>2
  <1>6. PowMod(x, l, m) = Pow(b, q * l) % m
    <2>1. PowMod(x, l, m) = Pow(x, l) % m
      BY <1>5, PowModIsPower
    <2> QED BY <1>1, <2>1, PowerOfPower
  <1>7. Pow(b, q * l) \in Nat
    BY <1>2, PowerStep
  <1>8. ((Pow(b, q * l) % m) * (Pow(b, s) % m)) % m = (Pow(b, q * l) * Pow(b, s)) % m
    BY <1>4, <1>7, ModMul2
  <1>9. Pow(b, q * l + s) = Pow(b, q * l) * Pow(b, s)
    BY <1>2, PowerOfSum
  <1> QED BY <1>1, <1>3, <1>4, <1>6, <1>8, <1>9, Zenon

\* The flag cannot have been up for longer than the squarings since the last look at it.
PromptInv ==
    /\ late \in 0 .. PollInterval
    /\ ~abort => late = 0
    /\ polled => i % PollInterval = 0 /\ i < t /\ late = 0
    /\ i % PollInterval # 0 => late <= i % PollInterval

\* The result so far is g to the 2^i, then to the 2^t; beside it the division.
ResultInv ==
    /\ t = 0 => y = g
    /\ pc = "square" => t > 0 /\ y = Pow(g, Pow(2, i)) % n
    /\ pc \in {"prove", "done"} /\ t > 0 => y = Pow(g, Pow(2, t)) % n
    /\ pc = "prove" => t > 0 /\ IsOddPrime(ell) /\ Divided(g, n, ell, i, pi, r)
    /\ pc = "done" /\ t > 0 => IsOddPrime(ell) /\ Divided(g, n, ell, t, pi, r)

DInv ==
    /\ g \in Base /\ g \in Nat /\ t \in Nat /\ i \in 0 .. t
    /\ pq \in Factors /\ n \in Nat \ {0, 1}
    /\ PromptInv
    /\ ResultInv

LEMMA DelayBegins == Init => DInv
PROOF
  <1> SUFFICES ASSUME Init PROVE DInv
    OBVIOUS
  <1>1. g \in Base /\ g \in Nat /\ t \in Nat /\ i \in 0 .. t /\ pq \in Factors
    BY DelayAssumption DEF Init
  <1>2. n \in Nat \ {0, 1}
    <2>1. pq[1] \in Nat \ {0, 1, 2} /\ pq[2] \in Nat \ {0, 1, 2}
      BY DelayAssumption DEF Init
    <2>2. \A x, z \in Nat \ {0, 1} : x * z \in Nat /\ x < x * z
      <3> SUFFICES ASSUME NEW x \in Nat \ {0, 1}, NEW z \in Nat \ {0, 1}
                   PROVE  x * z \in Nat /\ x < x * z
        OBVIOUS
      <3>1. 1 * x + x <= z * x
        BY MulMono
      <3> QED BY <3>1
    <2>3. pq[1] * pq[2] \in Nat /\ pq[1] < pq[1] * pq[2]
      BY <2>1, <2>2
    <2> QED BY <2>1, <2>3 DEF n
  <1>3. PromptInv
    BY DelayAssumption DEF Init, PromptInv
  <1>4. ResultInv
    <2>1. ASSUME t > 0
          PROVE  y = Pow(g, Pow(2, 0)) % n
      <3>1. Pow(2, 0) = 1 /\ Pow(g, 0) = 1 /\ Pow(g, 0 + 1) = Pow(g, 0) * g
        <4>1. 0 \in Nat /\ 2 \in Nat
          OBVIOUS
        <4> QED BY <1>1, <4>1, PowerStep
      <3>2. Pow(g, 1) = g
        BY <1>1, <3>1
      <3> QED BY <2>1, <3>1, <3>2 DEF Init
    <2> QED BY <2>1 DEF Init, ResultInv
  <1> QED BY <1>1, <1>2, <1>3, <1>4 DEF DInv

LEMMA PromptStep ==
    ASSUME DInv, Next
    PROVE  PromptInv'
PROOF
  <1> DEFINE p == PollInterval
  <1>0. p \in Nat \ {0} /\ i \in Nat /\ t \in Nat /\ i <= t /\ PromptInv /\ t' = t
    BY DelayAssumption DEF DInv, Next, RaiseAbort, Poll, Square, Challenge, ProveStep, Finish, inputs
  <1>1. CASE RaiseAbort
    BY <1>0, <1>1 DEF RaiseAbort, PromptInv, inputs
  <1>2. CASE Poll
    BY <1>0, <1>2 DEF Poll, MustPoll, PromptInv, inputs
  <1>3. CASE Square \/ ProveStep
    <2>1. /\ i' = i + 1 /\ ~polled' /\ i < t /\ abort' = abort
          /\ late' = IF abort THEN late + 1 ELSE late
          /\ i % p # 0 \/ polled
      BY <1>3 DEF Square, ProveStep, CountLate, MustPoll
    <2>2. (i + 1) % p = 0 \/ (i + 1) % p = (i % p) + 1
      <3> DEFINE q == i \div p   s == i % p
      <3>1. q \in Nat /\ s \in 0 .. p - 1 /\ i = q * p + s
        BY <1>0
      <3> HIDE DEF q, s
      <3>2. CASE s + 1 < p
        <4>1. s + 1 \in 0 .. p - 1 /\ i + 1 = q * p + (s + 1)
          BY <1>0, <3>1, <3>2
        <4>2. (i + 1) % p = s + 1
          BY <1>0, <3>1, <4>1, Remainder
        <4> QED BY <4>2 DEF s
      <3>3. CASE s + 1 = p
        <4>1. i + 1 = (q + 1) * p + 0 /\ q + 1 \in Nat /\ 0 \in 0 .. p - 1
          BY <1>0, <3>1, <3>3
        <4>2. (i + 1) % p = 0
          BY <1>0, <4>1, Remainder
        <4> QED BY <4>2
      <3> QED BY <1>0, <3>1, <3>2, <3>3
    <2>3. i % p \in 0 .. p - 1
      BY <1>0
    <2>4. i % p # 0 => late <= i % p
      BY <1>0 DEF PromptInv
    <2>5. polled => late = 0 /\ i % p = 0
      BY <1>0 DEF PromptInv
    <2>6. late \in 0 .. p /\ (~abort => late = 0)
      BY <1>0 DEF PromptInv
    <2> DEFINE u == i % p   v == i' % p
    <2>7. v = 0 \/ v = u + 1
      BY <2>1, <2>2
    <2> HIDE DEF u, v
    <2>8. late' \in 0 .. p /\ (~abort' => late' = 0) /\ (v # 0 => late' <= v)
      BY <1>0, <2>1, <2>3, <2>4, <2>5, <2>6, <2>7 DEF u
    <2> QED BY <2>1, <2>8 DEF PromptInv, v
  <1>4. CASE Challenge
    <2>1. i' = 0 /\ i = t /\ UNCHANGED << polled, abort, late >>
      BY <1>4 DEF Challenge
    <2>2. 0 % p = 0
      BY <1>0
    <2> QED BY <1>0, <2>1, <2>2 DEF PromptInv
  <1>5. CASE Finish
    BY <1>0, <1>5 DEF Finish, PromptInv, inputs
  <1> QED BY <1>1, <1>2, <1>3, <1>4, <1>5 DEF Next

LEMMA ResultStep ==
    ASSUME DInv, Next
    PROVE  ResultInv'
PROOF
  <1>0. /\ g \in Nat /\ t \in Nat /\ n \in Nat \ {0, 1} /\ i \in 0 .. t /\ i \in Nat
        /\ UNCHANGED << g, t, pq, n >>
        /\ ResultInv
    BY DEF DInv, Next, RaiseAbort, Poll, Square, Challenge, ProveStep, Finish, inputs, n
  <1>1. CASE RaiseAbort \/ Poll
    <2>1. UNCHANGED << i, y, ell, pi, r >> /\ (pc' = pc \/ pc' = "aborted")
      BY <1>1 DEF RaiseAbort, Poll
    <2> QED BY <1>0, <2>1 DEF ResultInv
  <1>2. CASE Square
    <2> DEFINE a == Pow(2, i)   x == Pow(g, a)
    <2>1. /\ pc' = "square" /\ pc = "square" /\ i' = i + 1 /\ t > 0
          /\ y = x % n /\ y' = (y * y) % n
      BY <1>0, <1>2 DEF Square, ResultInv
    <2>2. a \in Nat /\ Pow(2, i + 1) = a + a
      <3>1. Pow(2, i) \in Nat /\ Pow(2, i + 1) = Pow(2, i) * 2
        BY <1>0, PowerStep
      <3> QED BY <3>1
    <2> HIDE DEF a
    <2>3. x \in Nat /\ Pow(g, a + a) = x * x
      <3>1. Pow(g, a) \in Nat
        BY <1>0, <2>2, PowerStep
      <3>2. Pow(g, a + a) = Pow(g, a) * Pow(g, a)
        BY <1>0, <2>2, PowerOfSum
      <3> QED BY <3>1, <3>2
    <2> HIDE DEF x
    <2>4. ((x % n) * (x % n)) % n = (x * x) % n
      BY <1>0, <2>3, ModMul2
    <2>5. y' = Pow(g, Pow(2, i + 1)) % n
      BY <2>1, <2>2, <2>3, <2>4, Zenon
    <2> QED BY <1>0, <2>1, <2>5 DEF ResultInv
  <1>3. CASE Challenge
    <2>1. /\ pc = "square" /\ pc' = "prove" /\ i = t /\ i' = 0 /\ y' = y
          /\ pi' = 1 % n /\ r' = 1 % ell'
      BY <1>3 DEF Challenge
    <2>2. IsOddPrime(ell')
      BY <1>3, ChallengeIsPrime DEF Challenge
    <2>3. ell' \in Nat \ {0, 1}
      BY <2>2, DelayAssumption DEF IsOddPrime
    <2>4. Divided(g, n, ell', 0, pi', r')
      BY <1>0, <2>1, <2>3, DivisionBegins
    <2>5. t > 0 /\ y = Pow(g, Pow(2, t)) % n
      BY <1>0, <2>1 DEF ResultInv
    <2> QED BY <1>0, <2>1, <2>2, <2>4, <2>5 DEF ResultInv
  <1>4. CASE ProveStep
    <2>1. /\ pc = "prove" /\ pc' = "prove" /\ i' = i + 1 /\ UNCHANGED << y, ell >>
          /\ r' = (2 * r) % ell
          /\ pi' = (pi * pi * (IF (2 * r) \div ell = 1 THEN g % n ELSE 1)) % n
      BY <1>4 DEF ProveStep
    <2>2. /\ t > 0 /\ y = Pow(g, Pow(2, t)) % n
          /\ IsOddPrime(ell) /\ Divided(g, n, ell, i, pi, r)
      BY <1>0, <2>1 DEF ResultInv
    <2>3. ell \in Nat \ {0, 1}
      BY <2>2, DelayAssumption DEF IsOddPrime
    <2>4. Divided(g, n, ell, i + 1, pi', r')
      BY <1>0, <2>1, <2>2, <2>3, DivisionStep
    <2> QED BY <1>0, <2>1, <2>2, <2>4 DEF ResultInv
  <1>5. CASE Finish
    <2>1. pc = "prove" /\ pc' = "done" /\ i = t /\ UNCHANGED << y, ell, pi, r >>
      BY <1>5 DEF Finish
    <2> QED BY <1>0, <2>1 DEF ResultInv
  <1> QED BY <1>1, <1>2, <1>3, <1>4, <1>5 DEF Next

LEMMA DelayStep ==
    ASSUME DInv, [Next]_vars
    PROVE  DInv'
PROOF
  <1>1. CASE Next
    <2>1. /\ g' = g /\ t' = t /\ pq' = pq /\ n' = n /\ i' \in 0 .. t
      BY <1>1 DEF DInv, Next, RaiseAbort, Poll, Square, Challenge, ProveStep, Finish, inputs, n
    <2> QED BY <1>1, <2>1, PromptStep, ResultStep DEF DInv
  <1>2. CASE UNCHANGED vars
    BY <1>2 DEF DInv, PromptInv, ResultInv, vars, inputs, n
  <1> QED BY <1>1, <1>2 DEF Next

\* The inductive invariant of the delay function: the partial result and the partial
\* quotient are the powers they should be, and the flag has not been up for longer
\* than the squarings since it was last looked at (evaluate_interruptible, prove).
THEOREM DelayInvariant == Spec => []DInv
PROOF
  <1> QED BY DelayBegins, DelayStep, PTL DEF Spec

\* An honest evaluation's proof passes verify(), for every modulus, base, number of
\* squarings and hash, and its challenge is an odd prime of 64 bits (prove, verify,
\* fiat_shamir_prime).
THEOREM HonestProofsVerify == Spec => []HonestProofVerifies
PROOF
  <1>1. DInv => HonestProofVerifies
    <2> SUFFICES ASSUME DInv PROVE HonestProofVerifies
      OBVIOUS
    <2>1. g \in Nat /\ t \in Nat /\ n \in Nat \ {0, 1} /\ ResultInv
      BY DEF DInv
    <2>2. pc = "prove" => IsOddPrime(ell)
      BY <2>1 DEF ResultInv
    <2>3. ASSUME pc = "done", t > 0
          PROVE  Verify(y, pi)
      <3>1. /\ y = Pow(g, Pow(2, t)) % n
            /\ IsOddPrime(ell) /\ Divided(g, n, ell, t, pi, r)
        BY <2>1, <2>3 DEF ResultInv
      <3>2. ell \in Nat \ {0, 1}
        BY <3>1, DelayAssumption DEF IsOddPrime
      <3> QED BY <2>1, <3>1, <3>2, DivisionVerifies DEF Verify
    <2> QED BY <2>2, <2>3 DEF HonestProofVerifies
  <1> QED BY <1>1, DelayInvariant, PTL

\* After the flag goes up at most one poll interval of squarings is done, whatever the
\* interval and wherever the boundary between the two loops falls (the polls of
\* evaluate_interruptible and prove).
THEOREM AbortsArePrompt == Spec => []AbortIsPrompt
PROOF
  <1>1. DInv => AbortIsPrompt
    BY DelayAssumption DEF DInv, PromptInv, AbortIsPrompt
  <1> QED BY <1>1, DelayInvariant, PTL

\* The key that the provisioner seals under its shortcut opens under the agent's
\* squarings, for every modulus and number of squarings, zero included, from Euler's
\* theorem for the base (shortcut_vdf against evaluate_interruptible).
THEOREM ShortcutsAgree == Spec => []ShortcutAgrees
PROOF
  <1>1. ASSUME DInv
        PROVE  ShortcutVdf = Pow(g, Pow(2, t)) % n
    <2> DEFINE e == Pow(2, t)   q == e \div phi   s == e % phi
    <2>0. g \in Nat /\ t \in Nat /\ n \in Nat \ {0, 1} /\ g \in Base /\ pq \in Factors
      BY <1>1 DEF DInv
    <2>1. phi \in Nat \ {0, 1}
      <3> DEFINE a == pq[1] - 1   b == pq[2] - 1
      <3>1. a \in Nat \ {0, 1} /\ b \in Nat \ {0, 1} /\ phi = a * b
        BY <2>0, DelayAssumption DEF phi
      <3> HIDE DEF a, b
      <3>2. a * b \in Nat /\ 1 * b + b <= a * b
        BY <3>1, MulMono
      <3> QED BY <3>1, <3>2
    <2>2. e \in Nat /\ PowMod(2, t, phi) = s
      BY <2>0, <2>1, PowerStep, PowModIsPower
    <2> HIDE DEF e
    <2>3. q \in Nat /\ s \in Nat /\ e = phi * q + s /\ phi * q \in Nat
      BY <2>1, <2>2
    <2> HIDE DEF q, s
    <2>4. PowMod(g, s, n) = Pow(g, s) % n /\ Pow(g, s) \in Nat /\ Pow(g, phi * q) \in Nat
      BY <2>0, <2>3, PowModIsPower, PowerStep
    <2>5. Pow(g, phi) % n = 1
      <3>1. PowMod(g, phi, n) = 1
        BY <2>0, EulerAssumption DEF n, phi
      <3> QED BY <2>0, <2>1, <3>1, PowModIsPower
    <2>6. Pow(g, phi * q) % n = 1
      <3>1. Pow(Pow(g, phi) % n, q) % n = Pow(g, phi * q) % n
        BY <2>0, <2>1, <2>3, PowerOfPower
      <3>2. Pow(1, q) = 1 /\ 1 % n = 1
        <4>1. 1 \in 0 .. n - 1
          BY <2>0
        <4>2. 1 % n = 1
          BY <2>0, <4>1
        <4>3. Pow(1, q) = 1
          BY <2>3, PowersOfOne
        <4> QED BY <4>2, <4>3
      <3> QED BY <2>5, <3>1, <3>2
    <2>7. Pow(g, e) % n = ((Pow(g, phi * q) % n) * (Pow(g, s) % n)) % n
      <3>1. Pow(g, e) = Pow(g, phi * q) * Pow(g, s)
        BY <2>0, <2>3, PowerOfSum
      <3> QED BY <2>0, <2>4, <3>1, ModMul2
    <2>8. (1 * (Pow(g, s) % n)) % n = Pow(g, s) % n
      <3>1. Pow(g, s) % n \in 0 .. n - 1
        BY <2>0, <2>4, ModIn
      <3> QED BY <2>0, <3>1
    <2> QED BY <2>2, <2>4, <2>6, <2>7, <2>8 DEF ShortcutVdf, e
  <1>2. ASSUME DInv, pc \in {"prove", "done"}
        PROVE  y = Pow(g, Pow(2, t)) % n
    <2>0. g \in Nat /\ n \in Nat \ {0, 1} /\ g \in Base /\ pq \in Factors /\ t \in Nat
          /\ ResultInv
      BY <1>2 DEF DInv
    <2>1. CASE t > 0
      BY <1>2, <2>0, <2>1 DEF ResultInv
    <2>2. CASE t = 0
      <3>1. Pow(2, 0) = 1 /\ Pow(g, 0) = 1 /\ Pow(g, 0 + 1) = Pow(g, 0) * g
        <4>1. 0 \in Nat /\ 2 \in Nat
          OBVIOUS
        <4> QED BY <2>0, <4>1, PowerStep
      <3>2. Pow(g, 1) = g
        BY <2>0, <3>1
      <3>3. g \in 0 .. n - 1
        BY <2>0, EulerAssumption DEF n
      <3>4. g % n = g
        BY <2>0, <3>3
      <3> QED BY <2>0, <2>2, <3>1, <3>2, <3>4 DEF ResultInv
    <2> QED BY <2>0, <2>1, <2>2
  <1>3. DInv => ShortcutAgrees
    BY <1>1, <1>2 DEF ShortcutAgrees
  <1> QED BY <1>3, DelayInvariant, PTL

-----------------------------------------------------------------------------
(* The hash chain: what is where between the hasher and the file.          *)

Sent(k) == (k + Interval - 1) \div Interval
Checkpoint(k) == (k - 1) * Interval + 1

LEMMA SentNext ==
    ASSUME NEW k \in Nat
    PROVE  /\ Sent(k) \in Nat
           /\ k % Interval = 0 => Sent(k + 1) = Sent(k) + 1 /\ Checkpoint(Sent(k) + 1) = k + 1
           /\ k % Interval # 0 => Sent(k + 1) = Sent(k)
PROOF
  <1> DEFINE m == Interval   q == k \div m   s == k % m
  <1>0. m \in Nat \ {0}
    BY PoswAssumption
  <1>1. q \in Nat /\ s \in 0 .. m - 1 /\ k = q * m + s
    BY <1>0
  <1> HIDE DEF m, q, s
  <1>2. CASE s = 0
    <2>1. /\ k + m - 1 = q * m + (m - 1) /\ m - 1 \in 0 .. m - 1
          /\ k + 1 + m - 1 = (q + 1) * m + 0 /\ 0 \in 0 .. m - 1 /\ q + 1 \in Nat
      BY <1>0, <1>1, <1>2
    <2>2. (k + m - 1) \div m = q /\ (k + 1 + m - 1) \div m = q + 1
      BY <1>0, <1>1, <2>1, Remainder
    <2>3. Sent(k) = q /\ Sent(k + 1) = q + 1
      BY <2>2 DEF Sent, m
    <2>4. Checkpoint(q + 1) = q * m + 1
      BY <1>0, <1>1 DEF Checkpoint, m
    <2>5. q * m + 1 = k + 1
      BY <1>0, <1>1, <1>2
    <2>6. Checkpoint(Sent(k) + 1) = k + 1
      BY <2>3, <2>4, <2>5, Zenon
    <2>7. Sent(k) \in Nat /\ Sent(k + 1) = Sent(k) + 1
      BY <1>1, <2>3
    <2>8. k % Interval = 0
      BY <1>2 DEF s, m
    <2> QED BY <2>6, <2>7, <2>8
  <1>3. CASE s # 0
    <2>1. /\ k + m - 1 = (q + 1) * m + (s - 1) /\ s - 1 \in 0 .. m - 1
          /\ k + 1 + m - 1 = (q + 1) * m + s /\ q + 1 \in Nat
      BY <1>0, <1>1, <1>3
    <2>2. (k + m - 1) \div m = q + 1 /\ (k + 1 + m - 1) \div m = q + 1
      BY <1>0, <1>1, <2>1, Remainder
    <2>3. Sent(k) = q + 1 /\ Sent(k + 1) = q + 1
      BY <2>2 DEF Sent, m
    <2> QED BY <1>1, <1>3, <2>3 DEF s, m
  <1> QED BY <1>2, <1>3

LEMMA SentGrows ==
    ASSUME NEW k \in Nat, NEW j \in 0 .. k
    PROVE  Sent(j) \in 0 .. Sent(k) /\ Sent(k) \in Nat
PROOF
  <1> DEFINE T == {d \in Nat : Sent(j) \in 0 .. Sent(j + d)}
  <1>1. 0 \in T
    BY SentNext
  <1>2. ASSUME NEW d \in T PROVE d + 1 \in T
    <2>1. j + d \in Nat /\ j + (d + 1) = (j + d) + 1
      OBVIOUS
    <2>2. Sent(j + d) \in Nat /\ (Sent((j + d) + 1) = Sent(j + d)
                                  \/ Sent((j + d) + 1) = Sent(j + d) + 1)
      BY <2>1, SentNext
    <2> QED BY <2>1, <2>2
  <1> HIDE DEF T
  <1>3. T = Nat
    BY <1>1, <1>2, NatByInduction DEF T
  <1>4. k - j \in T /\ j + (k - j) = k
    BY <1>3
  <1>5. Sent(j) \in 0 .. Sent(j + (k - j))
    BY <1>4 DEF T
  <1> QED BY <1>4, <1>5, SentNext

\* s is the checkpoints after the first `from'.
Slice(s, from) == \A k \in 1 .. Len(s) : s[k] = Checkpoint(from + k)

\* Until the writer fails, what has been sent is in the file, on its way there, lost and
\* unreported, in the writer's hand, or in the channel, in this order; afterwards the
\* file has a beginning of it.
Passed == Len(disk) + Len(inFlight) + (IF fileError THEN 1 ELSE 0)

PoswTypes ==
    /\ length \in Nat /\ step \in 0 .. length
    /\ disk \in Seq(Nat) /\ queue \in Seq(Nat)
    /\ inFlight \in Seq(Nat) /\ Len(inFlight) \in 0 .. 1
    /\ inHand \in Seq(Nat) /\ Len(inHand) \in 0 .. 1
    /\ fileError \in BOOLEAN /\ (fileError => inFlight = << >>)

PoswControl ==
    /\ hasher = "send" => step < length /\ step % Interval = 0
    /\ hasher = "ended" => step = length
    /\ writer # "write" => inHand = << >>
    /\ writer = "closed" => queue = << >> /\ SenderGone
    /\ outcome = "ok" => hasher = "ended" /\ writer = "closed"

PoswOrder ==
    /\ Slice(disk, 0) /\ Slice(inFlight, Len(disk))
    /\ Passed \in 0 .. Sent(step)
    /\ writer # "failed" =>
          /\ Slice(inHand, Passed)
          /\ Slice(queue, Passed + Len(inHand))
          /\ Passed + Len(inHand) + Len(queue) = Sent(step)

PoswInv == PoswTypes /\ PoswControl /\ PoswOrder

LEMMA SliceJoins ==
    ASSUME NEW s \in Seq(Nat), NEW u \in Seq(Nat), NEW from \in Nat,
           Slice(s, from), Slice(u, from + Len(s))
    PROVE  s \o u \in Seq(Nat) /\ Len(s \o u) = Len(s) + Len(u) /\ Slice(s \o u, from)
PROOF
  <1> DEFINE w == s \o u
  <1>1. /\ w \in Seq(Nat) /\ Len(w) = Len(s) + Len(u)
        /\ \A k \in 1 .. Len(s) : w[k] = s[k]
        /\ \A k \in 1 .. Len(u) : w[Len(s) + k] = u[k]
    OBVIOUS
  <1>2. Len(s) \in Nat /\ Len(u) \in Nat
    OBVIOUS
  <1> HIDE DEF w
  <1>3. ASSUME NEW k \in 1 .. Len(w)
        PROVE  w[k] = Checkpoint(from + k)
    <2>1. CASE k \in 1 .. Len(s)
      BY <1>1, <2>1 DEF Slice
    <2>2. CASE k \notin 1 .. Len(s)
      <3>1. k - Len(s) \in 1 .. Len(u) /\ Len(s) + (k - Len(s)) = k
        BY <1>1, <1>2, <2>2
      <3>2. w[k] = u[k - Len(s)]
        BY <1>1, <3>1
      <3>3. u[k - Len(s)] = Checkpoint(from + Len(s) + (k - Len(s)))
        BY <3>1 DEF Slice
      <3>4. from + Len(s) + (k - Len(s)) = from + k
        BY <1>2, <3>1
      <3> QED BY <3>2, <3>3, <3>4
    <2> QED BY <2>1, <2>2
  <1> QED BY <1>1, <1>3 DEF Slice, w

LEMMA NothingIsSequence == << >> \in Seq(Nat) /\ Len(<< >>) = 0
PROOF
  <1> QED OBVIOUS

LEMMA EmptyIsSlice ==
    ASSUME NEW from
    PROVE  << >> \in Seq(Nat) /\ Len(<< >>) = 0 /\ Slice(<< >>, from)
PROOF
  <1> QED BY DEF Slice

LEMMA PoswBegins == PoswInit => PoswInv
PROOF
  <1> SUFFICES ASSUME PoswInit PROVE PoswInv
    OBVIOUS
  <1>1. length \in Nat /\ step = 0
    BY PoswAssumption DEF PoswInit
  <1>2. Sent(0) = 0
    <2>1. Interval \in Nat \ {0} /\ Interval - 1 \in 0 .. Interval - 1 /\ 0 \in Nat
          /\ 0 + Interval - 1 = 0 * Interval + (Interval - 1)
      BY PoswAssumption
    <2> QED BY <2>1, Remainder DEF Sent
  <1>3. PoswTypes
    <2>1. disk = << >> /\ inFlight = << >> /\ inHand = << >> /\ queue = << >>
      BY DEF PoswInit
    <2>2. fileError \in BOOLEAN
      BY DEF PoswInit
    <2>3. step \in 0 .. length
      BY <1>1
    <2>4. Len(inFlight) \in 0 .. 1 /\ Len(inHand) \in 0 .. 1
      BY <2>1, NothingIsSequence
    <2> QED BY <1>1, <2>1, <2>2, <2>3, <2>4, NothingIsSequence DEF PoswTypes
  <1>4. PoswControl
    BY DEF PoswInit, PoswControl, SenderGone
  <1>5. Passed = 0
    BY EmptyIsSlice DEF PoswInit, Passed
  <1>6. PoswOrder
    <2>1. disk = << >> /\ inFlight = << >> /\ inHand = << >> /\ queue = << >>
      BY DEF PoswInit
    <2> QED BY <1>1, <1>2, <1>5, <2>1, EmptyIsSlice DEF PoswOrder
  <1> QED BY <1>3, <1>4, <1>6 DEF PoswInv

\* The hasher: what it sends is the next checkpoint.
LEMMA HasherStep ==
    ASSUME PoswInv, HasherNext
    PROVE  PoswInv'
PROOF
  <1>0. /\ length \in Nat /\ step \in 0 .. length /\ step \in Nat
        /\ Len(queue) \in Nat /\ Len(inHand) \in Nat /\ queue \in Seq(Nat)
        /\ PoswTypes /\ PoswControl /\ PoswOrder
    BY DEF PoswInv, PoswTypes
  <1>1. CASE Hash
    <2>1. /\ UNCHANGED << length, queue, writer, inHand, inFlight, fileError, disk, outcome >>
          /\ hasher = "hash" /\ step < length
      BY <1>1 DEF Hash
    <2>2. /\ step' \in 0 .. length /\ Sent(step') = Sent(step)
          /\ hasher' = "send" => step' < length' /\ step' % Interval = 0
          /\ hasher' \in {"hash", "send", "aborted"}
      <3>1. step % Interval # 0 => Sent(step + 1) = Sent(step)
        BY <1>0, SentNext
      <3> QED BY <1>0, <1>1, <3>1 DEF Hash
    <2>3. PoswTypes'
      BY <1>0, <2>1, <2>2 DEF PoswTypes
    <2>4. PoswControl'
      BY <1>0, <2>1, <2>2 DEF PoswControl, SenderGone
    <2>5. PoswOrder'
      BY <1>0, <2>1, <2>2 DEF PoswOrder, Passed
    <2> QED BY <2>3, <2>4, <2>5 DEF PoswInv
  <1>2. CASE Send
    <2>1. /\ hasher = "send" /\ hasher' = "hash" /\ step' = step + 1
          /\ UNCHANGED << length, writer, inHand, inFlight, fileError, disk, cancelled,
                          outcome >>
      BY <1>2 DEF Send
    <2>2. /\ step < length /\ step' \in 0 .. length'
          /\ Sent(step) \in Nat /\ Sent(step') = Sent(step) + 1
          /\ Checkpoint(Sent(step) + 1) = step + 1
      BY <1>0, <2>1, SentNext DEF PoswControl
    <2>3. writer # "closed" /\ outcome # "ok"
      BY <1>0, <2>1 DEF PoswControl, SenderGone
    <2>4. PoswControl'
      BY <1>0, <2>1, <2>3 DEF PoswControl
    <2>5. Passed' = Passed /\ Passed \in 0 .. Sent(step) /\ Passed \in 0 .. Sent(step')
      <3>1. Passed' = Passed /\ Passed \in 0 .. Sent(step)
        BY <1>0, <2>1 DEF PoswOrder, Passed
      <3> QED BY <2>2, <3>1
    <2>6. CASE ReceiverGone /\ UNCHANGED queue
      <3>1. writer = "failed"
        BY <2>3, <2>6 DEF ReceiverGone
      <3>2. PoswTypes'
        BY <1>0, <2>1, <2>2, <2>6 DEF PoswTypes
      <3>3. PoswOrder'
        BY <1>0, <2>1, <2>5, <3>1 DEF PoswOrder
      <3> QED BY <2>4, <3>2, <3>3 DEF PoswInv
    <2>7. CASE ~ReceiverGone /\ queue' = Append(queue, step + 1)
      <3> DEFINE from == Passed + Len(inHand)
      <3>1. /\ from + Len(queue) = Sent(step)
            /\ Slice(queue, from) /\ Slice(inHand, Passed)
        BY <1>0, <2>7 DEF PoswOrder, ReceiverGone
      <3>2. /\ queue' \in Seq(Nat) /\ Len(queue') = Len(queue) + 1
            /\ \A k \in 1 .. Len(queue) : queue'[k] = queue[k]
            /\ queue'[Len(queue) + 1] = step + 1
        BY <1>0, <2>7
      <3>3. from \in Nat
        BY <1>0, <2>5
      <3> HIDE DEF from
      <3>4. ASSUME NEW k \in 1 .. Len(queue')
            PROVE  queue'[k] = Checkpoint(from + k)
        <4>1. CASE k \in 1 .. Len(queue)
          BY <3>1, <3>2, <4>1 DEF Slice
        <4>2. CASE k = Len(queue) + 1
          <5>1. from + k = Sent(step) + 1
            BY <1>0, <3>1, <3>3, <4>2
          <5> QED BY <2>2, <3>2, <4>2, <5>1
        <4> QED BY <1>0, <3>2, <4>1, <4>2
      <3>5. Slice(queue', from)
        BY <3>4 DEF Slice
      <3>6. from + Len(queue') = Sent(step')
        BY <1>0, <2>2, <3>1, <3>2, <3>3
      <3>7. PoswTypes'
        BY <1>0, <2>1, <2>2, <3>2 DEF PoswTypes
      <3>8. PoswOrder'
        BY <1>0, <2>1, <2>5, <3>1, <3>5, <3>6 DEF PoswOrder, from
      <3> QED BY <2>4, <3>7, <3>8 DEF PoswInv
    <2> QED BY <1>2, <2>6, <2>7 DEF Send
  <1>3. CASE EndOfChain
    <2>1. /\ UNCHANGED << length, step, queue, writer, inHand, inFlight, fileError, disk,
                          outcome >>
          /\ hasher = "hash" /\ hasher' = "ended" /\ step = length
      BY <1>3 DEF EndOfChain
    <2>2. PoswTypes' /\ PoswOrder'
      BY <1>0, <2>1 DEF PoswTypes, PoswOrder, Passed
    <2>3. PoswControl'
      BY <1>0, <2>1 DEF PoswControl, SenderGone
    <2> QED BY <2>2, <2>3 DEF PoswInv
  <1> QED BY <1>1, <1>2, <1>3 DEF HasherNext

\* The writer: the hand, the file's thread and the channel stay in line.
LEMMA WriterStep ==
    ASSUME PoswInv, WriterNext
    PROVE  PoswInv'
PROOF
  <1>0. /\ Len(disk) \in Nat /\ Len(inFlight) \in 0 .. 1 /\ Len(inHand) \in 0 .. 1
        /\ Len(queue) \in Nat /\ queue \in Seq(Nat) /\ disk \in Seq(Nat)
        /\ inHand \in Seq(Nat) /\ inFlight \in Seq(Nat)
        /\ PoswTypes /\ PoswControl /\ PoswOrder
    BY DEF PoswInv, PoswTypes
  <1>1. /\ UNCHANGED << length, hasher, step, disk, cancelled, outcome >>
        /\ UNCHANGED << SenderGone, Sent(step) >>
    BY DEF WriterNext, CreateFile, Receive, WriteAll, CloseFile, SenderGone
  <1>2. Passed \in Nat
    BY <1>0 DEF Passed
  <1>3. CASE CreateFile
    <2>1. /\ UNCHANGED << inHand, inFlight, fileError >> /\ writer = "create"
          /\ \/ writer' = "receive" /\ UNCHANGED queue
             \/ writer' = "failed" /\ queue' = << >>
          /\ outcome # "ok" /\ inHand = << >>
      BY <1>0, <1>3 DEF CreateFile, PoswControl
    <2>2. Passed' = Passed /\ queue' \in Seq(Nat)
      BY <1>0, <1>1, <2>1, EmptyIsSlice DEF Passed
    <2>3. PoswTypes'
      BY <1>0, <1>1, <2>1, <2>2 DEF PoswTypes
    <2>4. PoswControl'
      BY <1>0, <1>1, <2>1 DEF PoswControl
    <2>5. PoswOrder'
      BY <1>0, <1>1, <2>1, <2>2 DEF PoswOrder
    <2> QED BY <2>3, <2>4, <2>5 DEF PoswInv
  <1>4. CASE Receive
    <2>1. /\ writer = "receive" /\ writer' = "write" /\ queue # << >>
          /\ inHand' = << Head(queue) >> /\ queue' = Tail(queue) /\ inHand = << >>
          /\ outcome # "ok" /\ Len(inHand) = 0
          /\ UNCHANGED << inFlight, fileError >>
      BY <1>0, <1>4 DEF Receive, PoswControl
    <2>2. Slice(queue, Passed) /\ Passed + Len(queue) = Sent(step) /\ Passed' = Passed
      <3>1. Passed' = Passed
        BY <1>1, <2>1 DEF Passed
      <3> QED BY <1>0, <1>2, <2>1, <3>1 DEF PoswOrder
    <2>3. /\ queue' \in Seq(Nat) /\ Len(queue) > 0 /\ Len(queue') = Len(queue) - 1
          /\ \A k \in 1 .. Len(queue') : queue'[k] = queue[k + 1]
          /\ inHand' \in Seq(Nat) /\ Len(inHand') = 1 /\ inHand'[1] = queue[1]
      BY <1>0, <2>1
    <2>4. Slice(inHand', Passed)
      <3>1. queue[1] = Checkpoint(Passed + 1)
        BY <1>0, <2>2, <2>3 DEF Slice
      <3> QED BY <2>3, <3>1 DEF Slice
    <2>5. Slice(queue', Passed + 1)
      <3> SUFFICES ASSUME NEW k \in 1 .. Len(queue')
                   PROVE  queue'[k] = Checkpoint(Passed + 1 + k)
        BY DEF Slice
      <3>1. k + 1 \in 1 .. Len(queue) /\ Passed + (k + 1) = Passed + 1 + k
        BY <1>0, <1>2, <2>3
      <3>2. queue[k + 1] = Checkpoint(Passed + (k + 1))
        BY <2>2, <3>1 DEF Slice
      <3> QED BY <2>3, <3>1, <3>2
    <2>6. Passed + Len(inHand') + Len(queue') = Sent(step)
      BY <1>0, <1>2, <2>2, <2>3
    <2>7. PoswTypes'
      BY <1>0, <1>1, <2>1, <2>3 DEF PoswTypes
    <2>8. PoswControl'
      BY <1>0, <1>1, <2>1 DEF PoswControl
    <2>9. PoswOrder'
      BY <1>0, <1>1, <2>1, <2>2, <2>3, <2>4, <2>5, <2>6 DEF PoswOrder
    <2> QED BY <2>7, <2>8, <2>9 DEF PoswInv
  <1>5. CASE WriteAll
    <2>1. /\ writer = "write" /\ inFlight = << >> /\ inHand' = << >> /\ outcome # "ok"
      BY <1>0, <1>5 DEF WriteAll, PoswControl
    <2>2. CASE fileError /\ writer' = "failed" /\ queue' = << >> /\ fileError' = FALSE
               /\ UNCHANGED inFlight
      <3>1. PoswTypes'
        <4>1. Len(inHand') \in 0 .. 1 /\ inHand' \in Seq(Nat) /\ queue' \in Seq(Nat)
          BY <2>1, <2>2, NothingIsSequence
        <4>2. fileError' \in BOOLEAN
          BY <2>2
        <4> QED BY <1>0, <1>1, <2>1, <2>2, <4>1, <4>2 DEF PoswTypes
      <3>2. PoswControl'
        BY <1>0, <1>1, <2>1, <2>2 DEF PoswControl
      <3>3. Passed' \in 0 .. Sent(step)
        <4>1. Passed = Passed' + 1 /\ Passed' \in Nat
          BY <1>0, <1>1, <2>2 DEF Passed, PoswTypes
        <4>2. Passed \in 0 .. Sent(step) /\ Sent(step) \in Nat
          BY <1>0, SentNext DEF PoswOrder, PoswTypes
        <4> QED BY <4>1, <4>2
      <3>4. PoswOrder'
        BY <1>0, <1>1, <2>2, <3>3 DEF PoswOrder
      <3> QED BY <3>1, <3>2, <3>4 DEF PoswInv
    <2>3. CASE ~fileError /\ inFlight' = inHand /\ writer' = "receive"
               /\ UNCHANGED << queue, fileError >>
      <3>1. Passed = Len(disk) /\ Len(inFlight) = 0
        BY <1>0, <2>1, <2>3, EmptyIsSlice DEF Passed
      <3>2. /\ Slice(inHand, Len(disk)) /\ Slice(queue, Len(disk) + Len(inHand))
            /\ Len(disk) + Len(inHand) + Len(queue) = Sent(step)
        BY <1>0, <2>1, <3>1 DEF PoswOrder
      <3>3. Passed' = Len(disk) + Len(inHand) /\ Passed' \in Nat
        BY <1>0, <1>1, <2>3 DEF Passed
      <3>4. Passed' \in 0 .. Sent(step)
        BY <1>0, <3>2, <3>3
      <3>5. /\ Slice(inHand', Passed') /\ Len(inHand') = 0 /\ Passed' + 0 = Passed'
            /\ inHand' \in Seq(Nat)
        BY <2>1, <3>3, EmptyIsSlice
      <3>6. PoswTypes'
        BY <1>0, <1>1, <2>1, <2>3, <3>5 DEF PoswTypes
      <3>7. PoswControl'
        BY <1>0, <1>1, <2>1, <2>3 DEF PoswControl
      <3>8. PoswOrder'
        BY <1>0, <1>1, <2>3, <3>2, <3>3, <3>4, <3>5 DEF PoswOrder
      <3> QED BY <3>6, <3>7, <3>8 DEF PoswInv
    <2> QED BY <1>5, <2>2, <2>3 DEF WriteAll
  <1>6. CASE CloseFile
    <2>1. /\ UNCHANGED << queue, inHand, inFlight, fileError >> /\ SenderGone
          /\ writer = "receive" /\ writer' = "closed" /\ queue = << >>
      BY <1>6 DEF CloseFile
    <2>2. PoswTypes'
      BY <1>0, <1>1, <2>1 DEF PoswTypes
    <2>3. PoswControl'
      BY <1>0, <1>1, <2>1 DEF PoswControl
    <2>4. PoswOrder'
      BY <1>0, <1>1, <2>1 DEF PoswOrder, Passed
    <2> QED BY <2>2, <2>3, <2>4 DEF PoswInv
  <1> QED BY <1>3, <1>4, <1>5, <1>6 DEF WriterNext

LEMMA PoswStep ==
    ASSUME PoswInv, [PoswNext]_poswVars
    PROVE  PoswInv'
PROOF
  <1>0. PoswTypes /\ PoswControl /\ PoswOrder
    BY DEF PoswInv
  <1>1. CASE Cancel \/ Return \/ UNCHANGED poswVars
    <2>1. /\ UNCHANGED << length, hasher, step, queue, writer, inHand, inFlight, fileError,
                          disk >>
          /\ outcome' = "ok" => outcome = "ok" \/ (hasher = "ended" /\ writer = "closed")
      BY <1>1 DEF Cancel, Return, poswVars
    <2>2. PoswTypes' /\ PoswOrder'
      BY <1>0, <2>1 DEF PoswTypes, PoswOrder, Passed
    <2>3. PoswControl'
      BY <1>0, <2>1 DEF PoswControl, SenderGone
    <2> QED BY <2>2, <2>3 DEF PoswInv
  <1>2. CASE HasherNext
    BY <1>2, HasherStep
  <1>3. CASE WriterNext
    BY <1>3, WriterStep
  <1>4. CASE DiskWrite
    <2>1. /\ inFlight # << >> /\ inFlight' = << >> /\ ~fileError
          /\ disk \in Seq(Nat) /\ inFlight \in Seq(Nat) /\ Len(inFlight) \in 0 .. 1
          /\ UNCHANGED << length, hasher, step, queue, writer, inHand, cancelled, outcome >>
      BY <1>0, <1>4 DEF DiskWrite, PoswTypes
    <2>2. /\ Len(inFlight) = 1 /\ Len(disk) \in Nat /\ Passed = Len(disk) + 1
          /\ Slice(disk, 0) /\ Slice(inFlight, Len(disk))
      <3>1. Len(inFlight) = 1 /\ Len(disk) \in Nat
        BY <2>1
      <3> QED BY <1>0, <2>1, <3>1 DEF PoswOrder, Passed
    <2>3. /\ disk' \in Seq(Nat) /\ Slice(disk', 0) /\ fileError' \in BOOLEAN
          /\ Len(disk') + (IF fileError' THEN 1 ELSE 0) = Len(disk) + 1
          /\ Len(disk') \in Nat
      <3>1. CASE disk' = disk \o inFlight /\ UNCHANGED fileError
        <4>1. Slice(inFlight, 0 + Len(disk)) /\ 0 \in Nat
          BY <2>2
        <4>2. disk' \in Seq(Nat) /\ Len(disk') = Len(disk) + 1 /\ Slice(disk', 0)
          BY <2>1, <2>2, <3>1, <4>1, SliceJoins
        <4>3. fileError' \in BOOLEAN /\ ~fileError'
          BY <1>0, <2>1, <3>1 DEF PoswTypes
        <4>4. (IF fileError' THEN 1 ELSE 0) = 0
          BY <4>3
        <4> QED BY <2>2, <4>2, <4>3, <4>4
      <3>2. CASE fileError' = TRUE /\ UNCHANGED disk
        BY <2>1, <2>2, <3>2
      <3> QED BY <1>4, <3>1, <3>2 DEF DiskWrite
    <2>4. inFlight' \in Seq(Nat) /\ Len(inFlight') = 0 /\ Slice(inFlight', Len(disk'))
      BY <2>1, EmptyIsSlice
    <2>5. Passed' = Passed
      BY <2>2, <2>3, <2>4 DEF Passed
    <2>6. PoswTypes'
      BY <1>0, <2>1, <2>3, <2>4 DEF PoswTypes
    <2>7. PoswControl'
      BY <1>0, <2>1 DEF PoswControl, SenderGone
    <2>8. PoswOrder'
      BY <1>0, <2>1, <2>3, <2>4, <2>5 DEF PoswOrder
    <2> QED BY <2>6, <2>7, <2>8 DEF PoswInv
  <1> QED BY <1>1, <1>2, <1>3, <1>4 DEF PoswNext

\* The inductive invariant of the hash chain: where each checkpoint is that has been
\* sent, whatever has failed (PoswEngine::evaluate_async).
THEOREM PoswInvariant == PoswSpec => []PoswInv
PROOF
  <1> QED BY PoswBegins, PoswStep, PTL DEF PoswSpec

\* The file is the chain's checkpoints in order without a gap, and a call that succeeds
\* lacks at most the last, for any length, interval and capacity of the channel
\* (PoswEngine::evaluate_async).
THEOREM WorkIsOnRecord == PoswSpec => []WorkIsRecorded
PROOF
  <1>1. PoswInv => WorkIsRecorded
    <2> SUFFICES ASSUME PoswInv PROVE WorkIsRecorded
      OBVIOUS
    <2> DEFINE k == Len(disk)   total == Sent(length)
    <2>1. /\ disk \in Seq(Nat) /\ k \in Nat /\ length \in Nat /\ step \in 0 .. length
          /\ Slice(disk, 0) /\ Len(inFlight) \in 0 .. 1
          /\ fileError \in BOOLEAN /\ (fileError => Len(inFlight) = 0)
          /\ Passed \in 0 .. Sent(step) /\ k <= Passed /\ Passed <= k + 1
      <3>1. /\ disk \in Seq(Nat) /\ length \in Nat /\ step \in 0 .. length
            /\ inFlight \in Seq(Nat) /\ Len(inFlight) \in 0 .. 1
            /\ fileError \in BOOLEAN /\ (fileError => inFlight = << >>)
        BY DEF PoswInv, PoswTypes
      <3>2. k \in Nat /\ (fileError => Len(inFlight) = 0)
        BY <3>1
      <3>3. Slice(disk, 0) /\ Passed \in 0 .. Sent(step)
        BY DEF PoswInv, PoswOrder
      <3>4. k <= Passed /\ Passed <= k + 1
        <4> DEFINE lost == IF fileError THEN 1 ELSE 0
        <4>1. lost \in 0 .. 1 /\ (Len(inFlight) = 0 \/ lost = 0)
          BY <3>2
        <4>2. Passed = k + Len(inFlight) + lost
          BY DEF Passed
        <4>3. Len(inFlight) \in 0 .. 1 /\ k \in Nat
          BY <3>1
        <4> DEFINE f == Len(inFlight)
        <4> HIDE DEF lost, f, k
        <4>4. f \in 0 .. 1 /\ k \in Nat /\ lost \in 0 .. 1 /\ (f = 0 \/ lost = 0)
          BY <4>1, <4>3 DEF f
        <4>5. Passed = k + f + lost
          BY <4>2 DEF f
        <4> QED BY <4>4, <4>5
      <3> QED BY <3>1, <3>2, <3>3, <3>4
    <2>2. total \in Nat /\ Sent(step) \in 0 .. total
      BY <2>1, SentGrows
    <2>3. Checkpoints = [j \in 1 .. total |-> Checkpoint(j)]
      BY DEF Checkpoints, CheckpointsWithin, Checkpoint, Sent
    <2> HIDE DEF total
    <2>4. Checkpoints \in Seq(Int) /\ Len(Checkpoints) = total
      <3>1. \A j \in 1 .. total : Checkpoint(j) \in Int
        BY <2>2, PoswAssumption DEF Checkpoint
      <3> QED BY <2>2, <2>3, <3>1
    <2>5. k \in 0 .. total
      BY <2>1, <2>2
    <2>6. disk = SubSeq(Checkpoints, 1, k)
      <3>1. /\ SubSeq(Checkpoints, 1, k) = [j \in 1 .. k |-> Checkpoints[1 + j - 1]]
        BY <2>4, <2>5
      <3>2. disk = [j \in 1 .. k |-> disk[j]]
        BY <2>1
      <3>3. \A j \in 1 .. k : disk[j] = Checkpoint(j) /\ Checkpoints[1 + j - 1] = Checkpoint(j)
        BY <2>1, <2>2, <2>3, <2>5 DEF Slice
      <3> QED BY <3>1, <3>2, <3>3
    <2>7. ASSUME outcome = "ok"
          PROVE  k >= total - 1
      <3>1. step = length /\ writer = "closed" /\ Len(inHand) = 0 /\ Len(queue) = 0
        BY <2>7, EmptyIsSlice DEF PoswInv, PoswControl
      <3>2. Passed + Len(inHand) + Len(queue) = Sent(step)
        BY <3>1 DEF PoswInv, PoswOrder
      <3>3. Passed = total
        BY <2>1, <2>2, <3>1, <3>2 DEF total
      <3> QED BY <2>1, <2>2, <3>3
    <2> QED BY <2>4, <2>5, <2>6, <2>7 DEF WorkIsRecorded
  <1> QED BY <1>1, PoswInvariant, PTL

-----------------------------------------------------------------------------
(* The network: no sum on the way wraps.                                   *)

\* s is the running sum of the first k terms.
RunningSum(s, terms, k) ==
    s = [j \in 0 .. k |-> IF j = 0 THEN 0 ELSE s[j - 1] + terms[j]]

LEMMA RunningSumExists ==
    ASSUME NEW terms, NEW k \in Nat
    PROVE  \E s : RunningSum(s, terms, k)
PROOF
  <1> DEFINE T == {z \in Nat : \E s : RunningSum(s, terms, z)}
  <1>1. 0 \in T
    <2>1. RunningSum([j \in 0 .. 0 |-> 0], terms, 0)
      BY DEF RunningSum
    <2> QED BY <2>1
  <1>2. ASSUME NEW z \in T PROVE z + 1 \in T
    <2>1. PICK s : RunningSum(s, terms, z)
      OBVIOUS
    <2> DEFINE h == [j \in 0 .. z + 1 |-> IF j = 0 THEN 0 ELSE s[j - 1] + terms[j]]
    <2>2. \A j \in 0 .. z + 1 : h[j] = IF j = 0 THEN 0 ELSE s[j - 1] + terms[j]
      OBVIOUS
    <2>3. \A j \in 0 .. z : s[j] = IF j = 0 THEN 0 ELSE s[j - 1] + terms[j]
      BY <2>1, Zenon DEF RunningSum
    <2>4. \A j \in 0 .. z : j \in 0 .. z + 1
      OBVIOUS
    <2>5. \A j \in 0 .. z : h[j] = s[j]
      BY <2>2, <2>3, <2>4, Zenon
    <2>6. \A j \in 0 .. z + 1 : j = 0 \/ j - 1 \in 0 .. z
      OBVIOUS
    <2>7. \A j \in 0 .. z + 1 : j = 0 \/ h[j - 1] = s[j - 1]
      BY <2>5, <2>6, Zenon
    <2>8. h = [j \in 0 .. z + 1 |-> h[j]]
      OBVIOUS
    <2> HIDE DEF h
    <2>9. \A j \in 0 .. z + 1 : h[j] = IF j = 0 THEN 0 ELSE h[j - 1] + terms[j]
      BY <2>2, <2>7, Zenon
    <2>10. RunningSum(h, terms, z + 1)
      BY <2>8, <2>9, Zenon DEF RunningSum
    <2> QED BY <2>10
  <1> HIDE DEF T
  <1>3. T = Nat
    BY <1>1, <1>2, NatByInduction DEF T
  <1> QED BY <1>3 DEF T

LEMMA SumsRun ==
    ASSUME NEW terms \in Seq(Int)
    PROVE  \E s : /\ \A j \in 0 .. Len(terms) : s[j] \in Int
                  /\ s[0] = 0
                  /\ \A j \in 1 .. Len(terms) : s[j] = s[j - 1] + terms[j]
                  /\ SumOf(terms) = s[Len(terms)]
PROOF
  <1> DEFINE k == Len(terms)   s == CHOOSE h : RunningSum(h, terms, k)
  <1>0. k \in Nat /\ \A j \in 1 .. k : terms[j] \in Int
    OBVIOUS
  <1>1. RunningSum(s, terms, k)
    BY <1>0, RunningSumExists
  <1>2. SumOf(terms) = s[k]
    BY DEF SumOf, RunningSum
  <1> HIDE DEF s, k
  <1>3. \A j \in 0 .. k : s[j] = IF j = 0 THEN 0 ELSE s[j - 1] + terms[j]
    BY <1>1, Zenon DEF RunningSum
  <1>4. s[0] = 0 /\ \A j \in 1 .. k : s[j] = s[j - 1] + terms[j]
    <2>1. 0 \in 0 .. k /\ \A j \in 1 .. k : j \in 0 .. k /\ j # 0
      BY <1>0
    <2> QED BY <1>3, <2>1, Zenon
  <1> DEFINE T == {z \in Nat : z \in 0 .. k => s[z] \in Int}
  <1>5. 0 \in T
    BY <1>4
  <1>6. ASSUME NEW z \in T PROVE z + 1 \in T
    <2>1. ASSUME z + 1 \in 0 .. k
          PROVE  s[z + 1] \in Int
      <3>1. z \in 0 .. k /\ z + 1 \in 1 .. k /\ (z + 1) - 1 = z
        BY <1>0, <2>1
      <3>2. s[z + 1] = s[z] + terms[z + 1]
        BY <1>4, <3>1
      <3> QED BY <1>0, <3>1, <3>2
    <2> QED BY <2>1
  <1> HIDE DEF T
  <1>7. T = Nat
    BY <1>5, <1>6, NatByInduction DEF T
  <1>8. \A j \in 0 .. k : s[j] \in Int
    BY <1>0, <1>7 DEF T
  <1> QED BY <1>2, <1>4, <1>8 DEF k

LEMMA WrapKeepsWords ==
    ASSUME NEW x \in Int, Magnitude(x) <= MaxWord
    PROVE  Wrap(x) = x
PROOF
  <1> DEFINE w == MaxWord + 1
  <1>1. MaxWord \in Nat /\ 2 * w \in Nat \ {0} /\ x + w \in 0 .. 2 * w - 1
    BY WordAssumption DEF Magnitude
  <1>2. (x + w) % (2 * w) = x + w
    <2> DEFINE u == 2 * w   v == x + w
    <2>1. u \in Nat \ {0} /\ v \in 0 .. u - 1
      BY <1>1
    <2> HIDE DEF u, v
    <2>2. v % u = v
      BY <2>1
    <2> QED BY <2>2 DEF u, v
  <1>3. Wrap(x) = ((x + w) % (2 * w)) - w
    <2>1. x + w = x + MaxWord + 1
      BY <1>1
    <2> QED BY <2>1 DEF Wrap
  <1> QED BY <1>1, <1>2, <1>3

LEMMA MagnitudeOfProduct ==
    ASSUME NEW x \in Int, NEW w \in Int, NEW bound \in Nat, Magnitude(x) <= bound
    PROVE  /\ x * w \in Int /\ Magnitude(w) * bound \in Nat
           /\ Magnitude(x * w) <= Magnitude(w) * bound
PROOF
  <1> DEFINE a == Magnitude(x)   b == Magnitude(w)
  <1>1. a \in Nat /\ b \in Nat /\ a <= bound
    BY DEF Magnitude
  <1>2. Magnitude(x * w) = a * b
    <2>1. CASE x < 0 /\ w < 0
      <3>1. a = -x /\ b = -w /\ (-x) * (-w) = x * w /\ (-x) * (-w) \in Nat
        BY <2>1 DEF Magnitude
      <3>2. x * w \in Nat
        BY <3>1
      <3> HIDE DEF a, b
      <3> QED BY <3>1, <3>2 DEF Magnitude
    <2>2. CASE x < 0 /\ ~(w < 0)
      <3>1. a = -x /\ b = w /\ (-x) * w = -(x * w) /\ (-x) * w \in Nat
        BY <2>2 DEF Magnitude
      <3> HIDE DEF a, b
      <3>2. x * w \in Int /\ a * b = -(x * w) /\ a * b \in Nat
        BY <3>1
      <3> QED BY <3>2 DEF Magnitude
    <2>3. CASE ~(x < 0) /\ w < 0
      <3>1. a = x /\ b = -w /\ x * (-w) = -(x * w) /\ x * (-w) \in Nat
        BY <2>3 DEF Magnitude
      <3> HIDE DEF a, b
      <3>2. x * w \in Int /\ a * b = -(x * w) /\ a * b \in Nat
        BY <3>1
      <3> QED BY <3>2 DEF Magnitude
    <2>4. CASE ~(x < 0) /\ ~(w < 0)
      <3>1. a = x /\ b = w /\ x * w \in Nat
        BY <2>4 DEF Magnitude
      <3> HIDE DEF a, b
      <3> QED BY <3>1 DEF Magnitude
    <2> QED BY <2>1, <2>2, <2>3, <2>4
  <1>3. a * b <= bound * b /\ bound * b \in Nat /\ bound * b = b * bound
    <2> HIDE DEF a, b
    <2>0. a * b \in Nat /\ bound * b \in Nat /\ bound * b = b * bound
      BY <1>1
    <2>1. CASE a < bound
      <3>1. a * b + b <= bound * b
        BY <1>1, <2>1, MulMono
      <3> QED BY <1>1, <2>0, <3>1
    <2>2. CASE a = bound
      BY <2>0, <2>2
    <2> QED BY <1>1, <2>1, <2>2
  <1> QED BY <1>2, <1>3

LEMMA MagnitudeOfSum ==
    ASSUME NEW x \in Int, NEW z \in Int
    PROVE  /\ Magnitude(x) \in Nat /\ Magnitude(x + z) \in Nat
           /\ Magnitude(x + z) <= Magnitude(x) + Magnitude(z)
PROOF
  <1> QED BY DEF Magnitude

\* dot_product's running value, as it wraps.
RunningProduct(f, ins, ws, k) ==
    f = [j \in 1 .. k |-> IF j = 1 THEN Wrap(ins[1] * ws[1])
                          ELSE Wrap(f[j - 1] + Wrap(ins[j] * ws[j]))]

LEMMA RunningProductExists ==
    ASSUME NEW ins, NEW ws, NEW k \in Nat
    PROVE  \E f : RunningProduct(f, ins, ws, k)
PROOF
  <1> DEFINE T == {z \in Nat : \E f : RunningProduct(f, ins, ws, z)}
             V(f, j) == IF j = 1 THEN Wrap(ins[1] * ws[1])
                        ELSE Wrap(f[j - 1] + Wrap(ins[j] * ws[j]))
  <1>0. \A f, z : RunningProduct(f, ins, ws, z) <=> f = [j \in 1 .. z |-> V(f, j)]
    BY Zenon DEF RunningProduct
  <1>a. \A f, h, j : h[j - 1] = f[j - 1] => V(h, j) = V(f, j)
    BY Zenon
  <1>b. \A f, h : V(h, 1) = V(f, 1)
    BY Zenon
  <1> HIDE DEF V
  <1>1. 0 \in T
    <2> DEFINE h == [j \in 1 .. 0 |-> 0]
    <2>1. h = [j \in 1 .. 0 |-> V(h, j)]
      OBVIOUS
    <2> QED BY <1>0, <2>1
  <1>2. ASSUME NEW z \in T PROVE z + 1 \in T
    <2>1. PICK f : f = [j \in 1 .. z |-> V(f, j)]
      BY <1>0
    <2> DEFINE h == [j \in 1 .. z + 1 |-> V(f, j)]
    <2>2. \A j \in 1 .. z + 1 : h[j] = V(f, j)
      OBVIOUS
    <2>3. \A j \in 1 .. z : f[j] = V(f, j)
      BY <2>1, Zenon
    <2>4. \A j \in 1 .. z : j \in 1 .. z + 1
      OBVIOUS
    <2>5. \A j \in 1 .. z : h[j] = f[j]
      BY <2>2, <2>3, <2>4, Zenon
    <2>6. \A j \in 1 .. z + 1 : j = 1 \/ j - 1 \in 1 .. z
      OBVIOUS
    <2>7. ASSUME NEW j \in 1 .. z + 1
          PROVE  V(h, j) = V(f, j)
      <3>1. CASE j = 1
        BY <1>b, <3>1
      <3>2. CASE j - 1 \in 1 .. z
        BY <2>5, <1>a, <3>2, Zenon
      <3> QED BY <2>6, <3>1, <3>2, Zenon
    <2>8. h = [j \in 1 .. z + 1 |-> h[j]]
      OBVIOUS
    <2> HIDE DEF h
    <2>9. h = [j \in 1 .. z + 1 |-> V(h, j)]
      BY <2>2, <2>7, <2>8
    <2>10. z + 1 \in Nat /\ RunningProduct(h, ins, ws, z + 1)
      BY <2>9, <1>0
    <2> QED BY <2>10
  <1> HIDE DEF T
  <1>3. T = Nat
    BY <1>1, <1>2, NatByInduction DEF T
  <1> QED BY <1>3 DEF T

\* What that running value ends in.
ProductRun(f, ins, ws, b) ==
    /\ f[1] = Wrap(ins[1] * ws[1])
    /\ \A j \in 2 .. Len(ins) : f[j] = Wrap(f[j - 1] + Wrap(ins[j] * ws[j]))
    /\ DotProduct(ins, ws, b) = Wrap(f[Len(ins)] + b)

LEMMA ProductRuns ==
    ASSUME NEW ins \in Seq(Int), NEW ws, NEW b, ins # << >>
    PROVE  \E f : ProductRun(f, ins, ws, b)
PROOF
  <1> DEFINE k == Len(ins)   f == CHOOSE h : RunningProduct(h, ins, ws, k)
  <1>0. k \in Nat \ {0}
    OBVIOUS
  <1>1. RunningProduct(f, ins, ws, k)
    BY <1>0, RunningProductExists
  <1>2. DotProduct(ins, ws, b) = Wrap(f[k] + b)
    BY DEF DotProduct, RunningProduct
  <1> HIDE DEF f, k
  <1>3. \A j \in 1 .. k : f[j] = IF j = 1 THEN Wrap(ins[1] * ws[1])
                                 ELSE Wrap(f[j - 1] + Wrap(ins[j] * ws[j]))
    BY <1>1, Zenon DEF RunningProduct
  <1>4. 1 \in 1 .. k /\ \A j \in 2 .. k : j \in 1 .. k /\ j # 1
    BY <1>0
  <1>5. f[1] = Wrap(ins[1] * ws[1])
    BY <1>3, <1>4, Zenon
  <1>6. \A j \in 2 .. k : f[j] = Wrap(f[j - 1] + Wrap(ins[j] * ws[j]))
    BY <1>3, <1>4, Zenon
  <1> QED BY <1>2, <1>5, <1>6 DEF k, ProductRun

\* A unit whose worst magnitude fits a word computes its exact sum, which stays below
\* that magnitude.
LEMMA UnitIsExact ==
    ASSUME NEW ins \in Seq(Int), NEW ws \in Seq(Int), NEW b \in Int, NEW bound \in Nat,
           ins # << >>, Len(ins) = Len(ws),
           \A j \in 1 .. Len(ins) : Magnitude(ins[j]) <= bound
    PROVE  /\ ExactSum(ins, ws, b) \in Int /\ RowMax(ws, b, bound) \in Nat
           /\ Magnitude(ExactSum(ins, ws, b)) <= RowMax(ws, b, bound)
           /\ RowMax(ws, b, bound) <= MaxWord =>
                 DotProduct(ins, ws, b) = ExactSum(ins, ws, b)
PROOF
  <1> DEFINE k == Len(ins)
             P(j) == ins[j] * ws[j]          B(j) == Magnitude(ws[j]) * bound
             ps == [j \in 1 .. k |-> P(j)]   bs == [j \in 1 .. k |-> B(j)]
  <1>1. k \in Nat \ {0} /\ Len(ws) = k
    OBVIOUS
  <1>2. ASSUME NEW j \in 1 .. k
        PROVE  P(j) \in Int /\ B(j) \in Nat /\ Magnitude(P(j)) <= B(j)
    <2>1. ins[j] \in Int /\ ws[j] \in Int /\ Magnitude(ins[j]) <= bound
      BY <1>1
    <2> QED BY <2>1, MagnitudeOfProduct
  <1>3. ExactSum(ins, ws, b) = SumOf(ps) + b
    <2>1. Zip(ins, ws) = 1 .. k
      BY <1>1 DEF Zip
    <2> QED BY <2>1 DEF ExactSum
  <1>4. RowMax(ws, b, bound) = Magnitude(b) + SumOf(bs)
    BY <1>1 DEF RowMax
  <1> HIDE DEF P, B, k
  <1>5. /\ ps \in Seq(Int) /\ Len(ps) = k /\ \A j \in 1 .. k : ps[j] = P(j)
        /\ bs \in Seq(Int) /\ Len(bs) = k /\ \A j \in 1 .. k : bs[j] = B(j)
    BY <1>1, <1>2
  <1> HIDE DEF ps, bs
  <1>6a. PICK s : /\ \A j \in 0 .. Len(ps) : s[j] \in Int
                  /\ s[0] = 0
                  /\ \A j \in 1 .. Len(ps) : s[j] = s[j - 1] + ps[j]
                  /\ SumOf(ps) = s[Len(ps)]
    BY <1>5, SumsRun, Zenon
  <1>6. /\ \A j \in 0 .. k : s[j] \in Int
        /\ s[0] = 0
        /\ \A j \in 1 .. k : s[j] = s[j - 1] + P(j)
        /\ SumOf(ps) = s[k]
    BY <1>5, <1>6a
  <1>7a. PICK w : /\ \A j \in 0 .. Len(bs) : w[j] \in Int
                  /\ w[0] = 0
                  /\ \A j \in 1 .. Len(bs) : w[j] = w[j - 1] + bs[j]
                  /\ SumOf(bs) = w[Len(bs)]
    BY <1>5, SumsRun, Zenon
  <1>7. /\ \A j \in 0 .. k : w[j] \in Int
        /\ w[0] = 0
        /\ \A j \in 1 .. k : w[j] = w[j - 1] + B(j)
        /\ SumOf(bs) = w[k]
    BY <1>5, <1>7a
  <1>8. ASSUME NEW j \in 0 .. k
        PROVE  Magnitude(s[j]) <= w[j] /\ w[j] \in Nat
    <2> DEFINE T == {z \in Nat : z \in 0 .. k => w[z] \in Nat /\ Magnitude(s[z]) <= w[z]}
    <2>1. 0 \in T
      BY <1>6, <1>7 DEF Magnitude
    <2>2. ASSUME NEW z \in T PROVE z + 1 \in T
      <3>1. ASSUME z + 1 \in 0 .. k
            PROVE  w[z + 1] \in Nat /\ Magnitude(s[z + 1]) <= w[z + 1]
        <4>1. z \in 0 .. k /\ z + 1 \in 1 .. k /\ (z + 1) - 1 = z
          BY <1>1, <3>1
        <4>2. s[z + 1] = s[z] + P(z + 1) /\ w[z + 1] = w[z] + B(z + 1)
          BY <1>6, <1>7, <4>1
        <4>3. s[z] \in Int /\ w[z] \in Nat /\ Magnitude(s[z]) <= w[z]
          BY <1>6, <4>1
        <4>4. P(z + 1) \in Int /\ B(z + 1) \in Nat /\ Magnitude(P(z + 1)) <= B(z + 1)
          BY <1>2, <4>1
        <4>5. /\ Magnitude(s[z] + P(z + 1)) <= Magnitude(s[z]) + Magnitude(P(z + 1))
              /\ Magnitude(s[z]) \in Nat /\ Magnitude(P(z + 1)) \in Nat
              /\ Magnitude(s[z] + P(z + 1)) \in Nat
          <5>1. Magnitude(P(z + 1)) \in Nat
            BY <4>4 DEF Magnitude
          <5> QED BY <4>3, <4>4, <5>1, MagnitudeOfSum
        <4> DEFINE wz == w[z]   bz == B(z + 1)   ms == Magnitude(s[z])
                   mp == Magnitude(P(z + 1))   mt == Magnitude(s[z] + P(z + 1))
        <4>6. /\ wz \in Nat /\ bz \in Nat /\ ms \in Nat /\ mp \in Nat /\ mt \in Nat
              /\ ms <= wz /\ mp <= bz /\ mt <= ms + mp
          BY <4>3, <4>4, <4>5
        <4>7. w[z + 1] = wz + bz /\ Magnitude(s[z + 1]) = mt
          BY <4>2
        <4> HIDE DEF wz, bz, ms, mp, mt
        <4>8. wz + bz \in Nat /\ mt <= wz + bz
          BY <4>6
        <4> QED BY <4>7, <4>8
      <3> QED BY <3>1
    <2> HIDE DEF T
    <2>3. T = Nat
      BY <2>1, <2>2, NatByInduction DEF T
    <2>4. j \in T /\ j \in 0 .. k
      BY <1>1, <2>3
    <2> QED BY <2>4 DEF T
  <1>9. ASSUME NEW j \in 0 .. k
        PROVE  w[j] <= w[k]
    <2> DEFINE T == {z \in Nat : z \in j .. k => w[j] <= w[z]}
    <2>1. 0 \in T
      BY <1>1, <1>8
    <2>2. ASSUME NEW z \in T PROVE z + 1 \in T
      <3>1. ASSUME z + 1 \in j .. k
            PROVE  w[j] <= w[z + 1]
        <4>1. z + 1 \in 1 .. k /\ (z + 1) - 1 = z /\ z \in 0 .. k
          BY <1>1, <3>1
        <4>2. w[z + 1] = w[z] + B(z + 1) /\ B(z + 1) \in Nat /\ w[z] \in Int /\ w[j] \in Int
          BY <1>2, <1>7, <4>1
        <4>3. CASE z + 1 = j
          BY <4>2, <4>3
        <4>4. CASE z + 1 # j
          <5>1. z \in j .. k
            BY <1>1, <3>1, <4>4
          <5> QED BY <4>2, <5>1
        <4> QED BY <4>3, <4>4
      <3> QED BY <3>1
    <2> HIDE DEF T
    <2>3. T = Nat
      BY <2>1, <2>2, NatByInduction DEF T
    <2>4. k \in T /\ k \in j .. k
      BY <1>1, <2>3
    <2> QED BY <2>4 DEF T
  <1>10. k \in 0 .. k /\ s[k] \in Int /\ w[k] \in Nat /\ Magnitude(s[k]) <= w[k]
    <2>1. k \in 0 .. k
      BY <1>1
    <2> QED BY <1>6, <1>8, <2>1
  <1>11. /\ ExactSum(ins, ws, b) \in Int /\ RowMax(ws, b, bound) \in Nat
         /\ Magnitude(ExactSum(ins, ws, b)) <= RowMax(ws, b, bound)
         /\ w[k] <= RowMax(ws, b, bound)
    <2>1. Magnitude(b) \in Nat /\ Magnitude(s[k] + b) <= Magnitude(s[k]) + Magnitude(b)
          /\ Magnitude(s[k]) \in Nat /\ Magnitude(s[k] + b) \in Nat
      <3>1. Magnitude(b) \in Nat
        BY DEF Magnitude
      <3> QED BY <1>10, <3>1, MagnitudeOfSum
    <2>2. ExactSum(ins, ws, b) = s[k] + b /\ RowMax(ws, b, bound) = Magnitude(b) + w[k]
      BY <1>3, <1>4, <1>6, <1>7
    <2> DEFINE sk == s[k]   wk == w[k]   mb == Magnitude(b)   ms == Magnitude(sk)
               mt == Magnitude(sk + b)   exact == ExactSum(ins, ws, b)
               worst == RowMax(ws, b, bound)
    <2>3. /\ sk \in Int /\ wk \in Nat /\ mb \in Nat /\ ms \in Nat /\ mt \in Nat
          /\ ms <= wk /\ mt <= ms + mb
          /\ exact = sk + b /\ worst = mb + wk
      BY <1>10, <2>1, <2>2
    <2>4. Magnitude(exact) = mt
      BY <2>3
    <2> HIDE DEF sk, wk, mb, ms, mt, exact, worst
    <2>5. exact \in Int /\ worst \in Nat /\ mt <= worst /\ wk <= worst
      BY <2>3
    <2>6. Magnitude(exact) <= worst
      BY <2>4, <2>5, Zenon
    <2> QED BY <2>5, <2>6, Zenon DEF wk, exact, worst
  <1>12. ASSUME RowMax(ws, b, bound) <= MaxWord
         PROVE  DotProduct(ins, ws, b) = ExactSum(ins, ws, b)
    <2>0. ASSUME NEW j \in 0 .. k
          PROVE  w[j] \in Nat /\ w[j] <= MaxWord
      BY <1>8, <1>9, <1>10, <1>11, <1>12, WordAssumption
    <2>1a. PICK f : ProductRun(f, ins, ws, b)
      BY ProductRuns
    <2>1. /\ f[1] = Wrap(P(1))
          /\ \A j \in 2 .. k : f[j] = Wrap(f[j - 1] + Wrap(P(j)))
          /\ DotProduct(ins, ws, b) = Wrap(f[k] + b)
      BY <2>1a, Zenon DEF P, k, ProductRun
    <2>2. ASSUME NEW j \in 1 .. k
          PROVE  Wrap(P(j)) = P(j)
      <3>1. w[j] = w[j - 1] + B(j) /\ w[j - 1] \in Nat /\ w[j] \in Nat /\ w[j] <= MaxWord
        <4>1. j \in 0 .. k /\ j - 1 \in 0 .. k
          BY <1>1
        <4> QED BY <1>7, <2>0, <4>1
      <3>2. P(j) \in Int /\ B(j) \in Nat /\ Magnitude(P(j)) <= B(j) /\ Magnitude(P(j)) \in Nat
        BY <1>2 DEF Magnitude
      <3>3. Magnitude(P(j)) <= MaxWord
        BY <3>1, <3>2, WordAssumption
      <3> QED BY <3>2, <3>3, WrapKeepsWords
    <2>3. ASSUME NEW j \in 1 .. k
          PROVE  Wrap(s[j]) = s[j]
      <3>1. j \in 0 .. k
        BY <1>1
      <3>2. s[j] \in Int /\ Magnitude(s[j]) <= w[j] /\ w[j] \in Nat /\ w[j] <= MaxWord
            /\ Magnitude(s[j]) \in Nat
        <4>1. s[j] \in Int
          BY <1>6, <3>1
        <4> QED BY <1>8, <2>0, <3>1, <4>1 DEF Magnitude
      <3>3. Magnitude(s[j]) <= MaxWord
        BY <3>2, WordAssumption
      <3> QED BY <3>2, <3>3, WrapKeepsWords
    <2> DEFINE T == {z \in Nat : z + 1 \in 1 .. k => f[z + 1] = s[z + 1]}
    <2>4. 0 \in T
      <3>1. 1 \in 1 .. k /\ 1 - 1 = 0 /\ P(1) \in Int
        BY <1>1, <1>2
      <3>2. s[1] = P(1)
        BY <1>6, <3>1
      <3> QED BY <2>1, <2>2, <3>1, <3>2
    <2>5. ASSUME NEW z \in T PROVE z + 1 \in T
      <3>1. ASSUME (z + 1) + 1 \in 1 .. k
            PROVE  f[(z + 1) + 1] = s[(z + 1) + 1]
        <4> DEFINE j == (z + 1) + 1
        <4>1. j \in 1 .. k /\ j \in 2 .. k /\ j - 1 = z + 1 /\ z + 1 \in 1 .. k
          BY <1>1, <3>1
        <4> HIDE DEF j
        <4>2. f[j] = Wrap(f[z + 1] + Wrap(P(j))) /\ Wrap(P(j)) = P(j)
          BY <2>1, <2>2, <4>1
        <4>3. s[j] = s[z + 1] + P(j) /\ Wrap(s[j]) = s[j]
          BY <1>6, <2>3, <4>1
        <4>4. f[z + 1] = s[z + 1]
          BY <4>1
        <4> QED BY <4>2, <4>3, <4>4 DEF j
      <3> QED BY <3>1
    <2> HIDE DEF T
    <2>6. T = Nat
      BY <2>4, <2>5, NatByInduction DEF T
    <2>7. f[k] = s[k]
      <3>1. k - 1 \in T /\ (k - 1) + 1 = k /\ k \in 1 .. k
        BY <1>1, <2>6
      <3> QED BY <3>1 DEF T
    <2>8. Wrap(s[k] + b) = s[k] + b
      <3>1. Magnitude(s[k] + b) <= MaxWord /\ s[k] + b \in Int
        <4>1. s[k] + b = ExactSum(ins, ws, b)
          BY <1>3, <1>6
        <4>2. Magnitude(s[k] + b) \in Nat
          BY <1>10 DEF Magnitude
        <4> QED BY <1>11, <1>12, <4>1, <4>2, WordAssumption
      <3> QED BY <3>1, WrapKeepsWords
    <2> QED BY <1>3, <1>6, <2>1, <2>7, <2>8
  <1> QED BY <1>11, <1>12

LEMMA LargestOfTwo ==
    ASSUME NEW x \in Nat, NEW z \in Nat
    PROVE  Largest({x, z}) \in Nat /\ x <= Largest({x, z}) /\ z <= Largest({x, z})
PROOF
  <1>1. \E top \in {x, z} : \A o \in {x, z} : o <= top
    <2>1. x <= z \/ z <= x
      OBVIOUS
    <2> QED BY <2>1
  <1> QED BY <1>1 DEF Largest

\* Zero and finitely many values have a largest.
LEMMA LargestExists ==
    ASSUME NEW f, NEW k \in Nat, \A j \in 1 .. k : f[j] \in Nat
    PROVE  LET S == {0} \cup {f[j] : j \in 1 .. k}
           IN  Largest(S) \in Nat /\ \A z \in S : z <= Largest(S)
PROOF
  <1> DEFINE S(z) == {0} \cup {f[j] : j \in 1 .. z}
             T == {z \in Nat : z \in 0 .. k => \E top \in S(z) : \A o \in S(z) : o <= top}
  <1>0. ASSUME NEW z \in 0 .. k
        PROVE  S(z) \subseteq Nat
    OBVIOUS
  <1>1. 0 \in T
    OBVIOUS
  <1>2. ASSUME NEW z \in T PROVE z + 1 \in T
    <2>1. ASSUME z + 1 \in 0 .. k
          PROVE  \E top \in S(z + 1) : \A o \in S(z + 1) : o <= top
      <3>1. z \in 0 .. k /\ z + 1 \in 1 .. k /\ S(z + 1) = S(z) \cup {f[z + 1]}
        <4>1. z \in 0 .. k /\ z + 1 \in 1 .. k /\ 1 .. z + 1 = 1 .. z \cup {z + 1}
          BY <2>1
        <4> QED BY <4>1
      <3>2. S(z) \subseteq Nat /\ f[z + 1] \in Nat
        BY <1>0, <3>1
      <3>3. PICK top \in S(z) : \A o \in S(z) : o <= top
        BY <3>1
      <3> HIDE DEF S
      <3>4. CASE f[z + 1] <= top
        BY <3>1, <3>2, <3>3, <3>4
      <3>5. CASE ~(f[z + 1] <= top)
        BY <3>1, <3>2, <3>3, <3>5
      <3> QED BY <3>4, <3>5
    <2> QED BY <2>1
  <1> HIDE DEF T
  <1>3. T = Nat
    BY <1>1, <1>2, NatByInduction DEF T
  <1>4. PICK top \in S(k) : \A o \in S(k) : o <= top
    <2>1. k \in T /\ k \in 0 .. k
      BY <1>3
    <2> QED BY <2>1 DEF T
  <1>5. S(k) \subseteq Nat
    BY <1>0
  <1> HIDE DEF S
  <1>6. Largest(S(k)) \in S(k) /\ \A z \in S(k) : z <= Largest(S(k))
    BY <1>4 DEF Largest
  <1>7. Largest(S(k)) \in Nat
    BY <1>5, <1>6
  <1> QED BY <1>6, <1>7 DEF S

\* The worst magnitude of a layer bounds every unit of it, and if it fits a word, each
\* computes its exact sum.
LEMMA LayerIsExact ==
    ASSUME NEW ins \in Seq(Int), NEW rows \in Seq(Seq(Int)), NEW bias \in Seq(Int),
           NEW bound \in Nat, ins # << >>,
           \A j \in 1 .. Len(ins) : Magnitude(ins[j]) <= bound,
           Len(rows) = Len(bias), \A j \in 1 .. Len(rows) : Len(rows[j]) = Len(ins)
    PROVE  /\ LayerMax(rows, bias, bound) \in Nat
           /\ \A j \in 1 .. Len(rows) :
                 /\ ExactSum(ins, rows[j], bias[j]) \in Int
                 /\ Magnitude(ExactSum(ins, rows[j], bias[j])) <= LayerMax(rows, bias, bound)
                 /\ LayerMax(rows, bias, bound) <= MaxWord =>
                       DotProduct(ins, rows[j], bias[j]) = ExactSum(ins, rows[j], bias[j])
PROOF
  <1> DEFINE top == LayerMax(rows, bias, bound)
             k == Len(rows)
             f == [j \in 1 .. k |-> RowMax(rows[j], bias[j], bound)]
             S == {0} \cup {f[j] : j \in 1 .. k}
  <1>1. k \in Nat
    OBVIOUS
  <1>2. ASSUME NEW j \in 1 .. k
        PROVE  rows[j] \in Seq(Int) /\ bias[j] \in Int /\ Len(ins) = Len(rows[j])
    OBVIOUS
  <1>3. ASSUME NEW j \in 1 .. k
        PROVE  /\ ExactSum(ins, rows[j], bias[j]) \in Int /\ f[j] \in Nat
               /\ Magnitude(ExactSum(ins, rows[j], bias[j])) <= f[j]
               /\ f[j] <= MaxWord =>
                     DotProduct(ins, rows[j], bias[j]) = ExactSum(ins, rows[j], bias[j])
    <2>1. f[j] = RowMax(rows[j], bias[j], bound)
      OBVIOUS
    <2> QED BY <1>2, <2>1, UnitIsExact
  <1>4. top = Largest(S)
    <2>1. Zip(rows, bias) = 1 .. k
      BY DEF Zip
    <2>2. {RowMax(rows[j], bias[j], bound) : j \in 1 .. k} = {f[j] : j \in 1 .. k}
      OBVIOUS
    <2> QED BY <2>1, <2>2, Zenon DEF LayerMax
  <1> HIDE DEF f, top, k
  <1>5. Largest(S) \in Nat /\ \A z \in S : z <= Largest(S)
    BY <1>1, <1>3, LargestExists
  <1>6. \A j \in 1 .. k : f[j] <= top
    BY <1>4, <1>5
  <1>7. top \in Nat
    BY <1>4, <1>5
  <1>8. ASSUME NEW j \in 1 .. k
        PROVE  /\ ExactSum(ins, rows[j], bias[j]) \in Int
               /\ Magnitude(ExactSum(ins, rows[j], bias[j])) <= top
               /\ top <= MaxWord =>
                     DotProduct(ins, rows[j], bias[j]) = ExactSum(ins, rows[j], bias[j])
    <2> DEFINE e == ExactSum(ins, rows[j], bias[j])   me == Magnitude(e)
    <2>1. e \in Int /\ f[j] \in Nat /\ me <= f[j] /\ f[j] <= top
      BY <1>3, <1>6
    <2>2. me \in Nat
      BY <2>1 DEF Magnitude
    <2> HIDE DEF e, me
    <2>3. me <= top /\ (top <= MaxWord => f[j] <= MaxWord)
      BY <1>7, <2>1, <2>2, WordAssumption
    <2> QED BY <1>3, <2>1, <2>3, Zenon DEF e, me
  <1> QED BY <1>7, <1>8 DEF top, k

\* A model that evaluate accepts, on inputs within the bound, answers the exact value.
LEMMA AnswerIsExact ==
    ASSUME NEW m \in MlpWeights, NEW ins \in Seq(Int), NEW bound \in Nat,
           Evaluate(m, ins, bound) # NoAnswer,
           \A j \in 1 .. Len(ins) : Magnitude(ins[j]) <= bound
    PROVE  /\ Evaluate(m, ins, bound) = EvaluateExactly(m, ins)
           /\ Evaluate(m, ins, bound) = EvaluatePlaintext(m, ins)
PROOF
  <1> DEFINE hw == m.hidden_weights   hb == m.hidden_bias
             ow == m.output_weights   ob == m.output_bias
             Unit(j) == Relu(DotProduct(ins, hw[j], hb[j]))
             Exact(j) == Relu(ExactSum(ins, hw[j], hb[j]))
             hidden == [j \in Zip(hw, hb) |-> Unit(j)]
             exactly == [j \in Zip(hw, hb) |-> Exact(j)]
             h == LayerMax(hw, hb, bound)   o == LayerMax(ow, ob, h)
  <1>1. /\ Validate(m, Len(ins), bound)
        /\ \A j \in DOMAIN hidden : DotProductDefined(ins, hw[j])
        /\ \A j \in DOMAIN ow : DotProductDefined(hidden, ow[j])
        /\ Evaluate(m, ins, bound) =
              [j \in Zip(ow, ob) |-> DotProduct(hidden, ow[j], ob[j])]
    BY Zenon DEF Evaluate
  <1>2. EvaluateExactly(m, ins) = [j \in Zip(ow, ob) |-> ExactSum(exactly, ow[j], ob[j])]
    BY Zenon DEF EvaluateExactly
  <1>3. /\ hw # << >> /\ ow # << >> /\ Len(hw) = Len(hb) /\ Len(ow) = Len(ob)
        /\ \A j \in 1 .. Len(hw) : Len(hw[j]) = Len(ins)
        /\ \A j \in 1 .. Len(ow) : Len(ow[j]) = Len(hw)
        /\ Largest({h, o}) <= MaxWord
    BY <1>1, Zenon DEF Validate, MaxIntermediateMagnitude
  <1>4. /\ hw \in Seq(Seq(Int)) /\ hb \in Seq(Int)
        /\ ow \in Seq(Seq(Int)) /\ ob \in Seq(Int)
    <2>1. Word \subseteq Int
      BY WordAssumption DEF Word
    <2>2. Seq(Word) \subseteq Seq(Int)
      BY <2>1, SeqMonotonic
    <2>3. Seq(Seq(Word)) \subseteq Seq(Seq(Int))
      BY <2>2, SeqMonotonic
    <2>4. hw \in Seq(Seq(Word)) /\ hb \in Seq(Word) /\ ow \in Seq(Seq(Word)) /\ ob \in Seq(Word)
      BY DEF MlpWeights
    <2> HIDE DEF hw, hb, ow, ob
    <2> QED BY <2>2, <2>3, <2>4
  <1> HIDE DEF hw, hb, ow, ob
  <1>5. Zip(hw, hb) = 1 .. Len(hw) /\ Zip(ow, ob) = 1 .. Len(ow) /\ Len(hw) \in Nat \ {0}
    BY <1>3, <1>4 DEF Zip
  <1>6. ins # << >>
    <2>1. 1 \in DOMAIN hidden
      BY <1>5
    <2> HIDE DEF hidden
    <2> QED BY <1>1, <2>1, Zenon DEF DotProductDefined
  <1>7. h \in Nat /\ \A j \in 1 .. Len(hw) :
           /\ ExactSum(ins, hw[j], hb[j]) \in Int
           /\ Magnitude(ExactSum(ins, hw[j], hb[j])) <= h
           /\ h <= MaxWord => DotProduct(ins, hw[j], hb[j]) = ExactSum(ins, hw[j], hb[j])
    BY <1>3, <1>4, <1>6, LayerIsExact
  <1> HIDE DEF h
  <1>8. /\ exactly \in Seq(Int) /\ Len(exactly) = Len(hw) /\ exactly # << >>
        /\ \A j \in 1 .. Len(exactly) : Magnitude(exactly[j]) <= h
    <2>1. ASSUME NEW j \in 1 .. Len(hw)
          PROVE  Exact(j) \in Int /\ Magnitude(Exact(j)) <= h
      <3> DEFINE e == ExactSum(ins, hw[j], hb[j])
      <3>1. e \in Int /\ Magnitude(e) <= h
        BY <1>7
      <3> HIDE DEF e
      <3>2. Relu(e) \in Int /\ Magnitude(Relu(e)) <= h
        BY <1>7, <3>1 DEF Relu, Magnitude
      <3> QED BY <3>2 DEF e
    <2> HIDE DEF Exact
    <2> QED BY <1>5, <2>1
  <1>9. o \in Nat /\ \A j \in 1 .. Len(ow) :
           /\ ExactSum(exactly, ow[j], ob[j]) \in Int
           /\ Magnitude(ExactSum(exactly, ow[j], ob[j])) <= o
           /\ o <= MaxWord =>
                 DotProduct(exactly, ow[j], ob[j]) = ExactSum(exactly, ow[j], ob[j])
    <2> HIDE DEF exactly
    <2>1. \A j \in 1 .. Len(ow) : Len(ow[j]) = Len(exactly)
      BY <1>3, <1>8
    <2> QED BY <1>3, <1>4, <1>7, <1>8, <2>1, LayerIsExact
  <1> HIDE DEF o
  <1>10. h <= MaxWord /\ o <= MaxWord
    BY <1>3, <1>7, <1>9, LargestOfTwo, WordAssumption
  <1>11. hidden = exactly
    <2>1. ASSUME NEW j \in 1 .. Len(hw)
          PROVE  Unit(j) = Exact(j)
      BY <1>7, <1>10
    <2> HIDE DEF Unit, Exact
    <2> QED BY <1>5, <2>1
  <1>12. Evaluate(m, ins, bound) = EvaluateExactly(m, ins)
    <2>1. \A j \in 1 .. Len(ow) : DotProduct(hidden, ow[j], ob[j]) = ExactSum(exactly, ow[j], ob[j])
      BY <1>9, <1>10, <1>11
    <2> HIDE DEF hidden, exactly
    <2> QED BY <1>1, <1>2, <1>5, <2>1
  <1>13. EvaluatePlaintext(m, ins) = EvaluateExactly(m, ins)
    <2> DEFINE out == EvaluateExactly(m, ins)
    <2> HIDE DEF exactly
    <2>1. Len(ins) = InputDim(m)
      BY <1>3, <1>5 DEF InputDim, hw
    <2>2. EvaluatePlaintext(m, ins) = [j \in DOMAIN out |-> Wrap(out[j])]
      BY <2>1, Zenon DEF EvaluatePlaintext
    <2>3. /\ DOMAIN out = 1 .. Len(ow)
          /\ \A j \in 1 .. Len(ow) : out[j] = ExactSum(exactly, ow[j], ob[j])
          /\ out = [j \in DOMAIN out |-> out[j]]
      BY <1>2, <1>5
    <2>4. ASSUME NEW j \in 1 .. Len(ow)
          PROVE  Wrap(out[j]) = out[j]
      <3> DEFINE e == ExactSum(exactly, ow[j], ob[j])   me == Magnitude(e)
      <3>1. e \in Int /\ me <= o
        BY <1>9
      <3>2. me \in Nat
        BY <3>1 DEF Magnitude
      <3> HIDE DEF e, me
      <3>3. me <= MaxWord
        BY <1>9, <1>10, <3>1, <3>2, WordAssumption
      <3>4. Wrap(e) = e
        BY <3>1, <3>3, WrapKeepsWords DEF me
      <3> QED BY <2>3, <3>4 DEF e
    <2> HIDE DEF out
    <2>5. [j \in DOMAIN out |-> Wrap(out[j])] = [j \in DOMAIN out |-> out[j]]
      BY <2>3, <2>4
    <2> QED BY <2>2, <2>3, <2>5 DEF out
  <1> QED BY <1>12, <1>13

-----------------------------------------------------------------------------
(* The engine, by itself and under a mission.                              *)

\* What is installed is the model at hand, and an answer is what evaluating it gave:
\* evaluate validated the model with the width of the very inputs it answers.
EngineInv ==
    /\ candidate \in Model
    /\ weights \in {<< >>, << candidate >>}
    /\ reply.kind = "answer" =>
          /\ reply.inputs \in Seq(InputValues)
          /\ reply.outputs = Evaluate(candidate, reply.inputs, InputAbsMax)
          /\ reply.outputs # NoAnswer

LEMMA EngineBegins ==
    ASSUME FheInit
    PROVE  EngineInv
PROOF
  <1> QED BY DEF FheInit, EngineInv

LEMMA EngineRests ==
    ASSUME EngineInv, UNCHANGED fheVars
    PROVE  EngineInv'
PROOF
  <1> QED BY DEF EngineInv, fheVars

LEMMA KeysKeepTheEngine ==
    ASSUME EngineInv, NEW thread, GenerateKeys(thread)
    PROVE  EngineInv'
PROOF
  <1> QED BY DEF EngineInv, GenerateKeys

LEMMA WeightsKeepTheEngine ==
    ASSUME EngineInv, NEW dim, InstallWeights(dim)
    PROVE  EngineInv'
PROOF
  <1> QED BY DEF EngineInv, InstallWeights

LEMMA EvaluationKeepsTheEngine ==
    ASSUME EngineInv, NEW thread, NEW ct \in Request, EvaluateCiphertext(thread, ct)
    PROVE  EngineInv'
PROOF
  <1> DEFINE answer == Evaluate(weights[1], ct.inputs, InputAbsMax)
  <1>1. /\ reply' =
              IF ct.kind # "inputs" \/ ~server_key \/ weights = << >> \/ answer = NoAnswer
              THEN [kind |-> "error"]
              ELSE IF thread \notin keyed THEN [kind |-> "panic"]
              ELSE [kind |-> "answer", inputs |-> ct.inputs, outputs |-> answer]
        /\ UNCHANGED << candidate, server_key, keyed, weights >>
    BY Zenon DEF EvaluateCiphertext
  <1>2. ct.inputs \in Seq(InputValues)
    <2>1. CASE ct \in [kind : {"oversize", "garbage"}, inputs : {<< >>}]
      <3>1. ct.inputs = << >>
        BY <2>1
      <3>2. << >> \in Seq(InputValues)
        OBVIOUS
      <3> QED BY <3>1, <3>2
    <2>2. CASE ct \in [kind : {"inputs"},
                       inputs : UNION {[1 .. z -> InputValues] : z \in 0 .. MaxInputs}]
      <3>1. PICK z \in 0 .. MaxInputs : ct.inputs \in [1 .. z -> InputValues]
        BY <2>2
      <3>2. z \in Nat
        BY FheAssumption
      <3> QED BY <3>1, <3>2
    <2> QED BY <2>1, <2>2 DEF Request
  <1>3. candidate' = candidate /\ weights' = weights
    BY <1>1
  <1>4. CASE reply'.kind = "answer"
    <2>1. /\ weights # << >> /\ answer # NoAnswer
          /\ reply' = [kind |-> "answer", inputs |-> ct.inputs, outputs |-> answer]
      <3> HIDE DEF answer
      <3> QED BY <1>1, <1>4
    <2>2. weights[1] = candidate
      BY <2>1 DEF EngineInv
    <2>3. reply'.inputs = ct.inputs /\ reply'.outputs = answer
      <3> HIDE DEF answer
      <3> QED BY <2>1
    <2>4. answer = Evaluate(candidate, ct.inputs, InputAbsMax)
      BY <2>2
    <2> HIDE DEF answer
    <2> QED BY <1>2, <1>3, <2>1, <2>3, <2>4 DEF EngineInv
  <1>5. CASE reply'.kind # "answer"
    BY <1>3, <1>5 DEF EngineInv
  <1> QED BY <1>4, <1>5

LEMMA EngineIsExact ==
    ASSUME EngineInv
    PROVE  AnswersAreExact
PROOF
  <1> SUFFICES ASSUME reply.kind = "answer",
                      \A j \in DOMAIN reply.inputs : Magnitude(reply.inputs[j]) <= InputAbsMax
               PROVE  /\ reply.outputs = EvaluateExactly(candidate, reply.inputs)
                      /\ reply.outputs = EvaluatePlaintext(candidate, reply.inputs)
    BY DEF AnswersAreExact
  <1> DEFINE ins == reply.inputs
  <1>1. candidate \in MlpWeights /\ InputAbsMax \in Nat
    BY FheAssumption DEF EngineInv
  <1>2. ins \in Seq(Int)
    <2>1. InputValues \subseteq Int
      BY FheAssumption, WordAssumption DEF Word
    <2>2. Seq(InputValues) \subseteq Seq(Int)
      BY <2>1, SeqMonotonic
    <2> QED BY <2>2 DEF EngineInv
  <1>3. /\ reply.outputs = Evaluate(candidate, ins, InputAbsMax)
        /\ Evaluate(candidate, ins, InputAbsMax) # NoAnswer
    BY DEF EngineInv
  <1>4. \A j \in 1 .. Len(ins) : Magnitude(ins[j]) <= InputAbsMax
    BY <1>2
  <1> HIDE DEF ins
  <1>5. /\ Evaluate(candidate, ins, InputAbsMax) = EvaluateExactly(candidate, ins)
        /\ Evaluate(candidate, ins, InputAbsMax) = EvaluatePlaintext(candidate, ins)
    BY <1>1, <1>2, <1>3, <1>4, AnswerIsExact
  <1> QED BY <1>3, <1>5, Zenon DEF ins

\* The FHE engine, whatever model was installed, however wide a word, however many
\* threads ask in whatever order: an answer is the model's exact value and what the
\* plaintext reference gives.  An i64 has wrapped nowhere, although nothing in an
\* encrypted evaluation would have noticed.
THEOREM AnswersStayExact == FheSpec => []AnswersAreExact
PROOF
  <1>1. FheInit => EngineInv
    BY EngineBegins
  <1>2. EngineInv /\ [FheNext]_fheVars => EngineInv'
    <2> SUFFICES ASSUME EngineInv, [FheNext]_fheVars
                 PROVE  EngineInv'
      OBVIOUS
    <2>1. CASE \E thread \in Thread : GenerateKeys(thread)
      BY <2>1, KeysKeepTheEngine
    <2>2. CASE \E dim \in 0 .. MaxInputs : InstallWeights(dim)
      BY <2>2, WeightsKeepTheEngine
    <2>3. CASE \E thread \in Thread, ct \in Request : EvaluateCiphertext(thread, ct)
      BY <2>3, EvaluationKeepsTheEngine
    <2>4. CASE UNCHANGED fheVars
      BY <2>4, EngineRests
    <2> QED BY <2>1, <2>2, <2>3, <2>4 DEF FheNext
  <1>3. EngineInv => AnswersAreExact
    BY EngineIsExact
  <1> QED BY <1>1, <1>2, <1>3, PTL DEF FheSpec

-----------------------------------------------------------------------------
(* A mission's inputs.                                                     *)

\* A response is kept only once verified, and the salt is set by the step that leaves
\* the stage: a failure of the beacon leaves none behind for the file to replace.
SaltInv ==
    /\ at = "fetched" => \E resp : beacon = << resp >> /\ VerifyBeacon(resp)
    /\ stage \in {"key", "salt"} => salt = None
    /\ SaltIsGenuine

LEMMA InputsBegin ==
    ASSUME InputsInit
    PROVE  EngineInv /\ SaltInv
PROOF
  <1>1. EngineInv
    BY EngineBegins DEF InputsInit
  <1>2. at = "loop" /\ salt = None
    BY DEF InputsInit, BeaconInit
  <1> QED BY <1>1, <1>2 DEF SaltInv, SaltIsGenuine

LEMMA InputsKeepTheEngine ==
    ASSUME EngineInv, [InputsNext]_<< beaconVars, inputVars, fheVars >>
    PROVE  EngineInv'
PROOF
  <1>1. CASE UNCHANGED fheVars
    BY <1>1, EngineRests
  <1>2. CASE InstallKeys
    <2>1. GenerateKeys("blocking") \/ UNCHANGED fheVars
      BY <1>2 DEF InstallKeys
    <2> QED BY <2>1, EngineRests, KeysKeepTheEngine
  <1>3. ASSUME NEW ct \in Request, InferHandler(ct)
        PROVE  EngineInv'
    BY <1>3, EvaluationKeepsTheEngine DEF InferHandler
  <1>4. CASE LoadCtSk \/ FetchSalt \/ ReadSaltFile \/ LoadModulus
    <2>1. UNCHANGED fheVars
      BY <1>4 DEF LoadCtSk, FetchSalt, ReadSaltFile, LoadModulus
    <2> QED BY <1>1, <2>1
  <1> QED BY <1>1, <1>2, <1>3, <1>4 DEF InputsNext, MissionStep

LEMMA InputsKeepTheSalt ==
    ASSUME SaltInv, [InputsNext]_<< beaconVars, inputVars, fheVars >>
    PROVE  SaltInv'
PROOF
  <1> USE DEF SaltInv, SaltIsGenuine, None
  <1>1. CASE UNCHANGED << at, beacon, salt, live, stage >>
    BY <1>1 DEF VerifyBeacon
  <1>2. CASE LoadCtSk
    BY <1>2 DEF LoadCtSk, beaconVars
  <1>3. CASE FetchSalt
    <2>0. stage = "salt" /\ live /\ salt = << >> /\ live' = live
      BY <1>3 DEF FetchSalt
    <2>1. stage' = CASE at' = "salted" -> "modulus"
                     [] at' = "failed" -> "failed"
                     [] OTHER -> stage
      BY <1>3 DEF FetchSalt
    <2>2. CASE Fetch \/ FetchFails \/ ReturnErr
      BY <2>0, <2>1, <2>2 DEF Fetch, FetchFails, ReturnErr
    <2>3. CASE VerifiedSalt
      <3>1. PICK resp : beacon = << resp >> /\ VerifyBeacon(resp)
        BY <2>3 DEF VerifiedSalt
      <3>2. beacon[1] = resp
        BY <3>1
      <3>3. /\ at' = "salted" /\ salt' = << resp.randomness >>
            /\ beacon' = beacon /\ resp.randomness = resp.round
        BY <2>3, <3>1, <3>2, Zenon DEF VerifiedSalt, VerifyBeacon
      <3>4. stage' = "modulus"
        BY <2>1, <3>3
      <3>5. salt'[1] = beacon'[1].round /\ beacon' # << >>
        BY <3>1, <3>3
      <3> QED BY <2>0, <3>3, <3>4, <3>5
    <2>4. ASSUME NEW resp \in DrandResponse, Answer(resp)
          PROVE  SaltInv'
      <3>1. salt' = << >>
        BY <2>0, <2>4 DEF Answer
      <3>2. at' = "fetched" => beacon' = << resp >> /\ VerifyBeacon(resp)
        BY <2>4 DEF Answer
      <3> QED BY <3>1, <3>2 DEF VerifyBeacon
    <2> QED BY <1>3, <2>2, <2>3, <2>4 DEF FetchSalt, BeaconNext, Proceed
  <1>4. CASE ReadSaltFile
    <2>1. /\ stage' \in {"modulus", "failed"} /\ at' = at /\ beacon' = beacon
          /\ live = FALSE /\ live' = live
          /\ salt' = << FileSalt >> \/ salt' = << >>
      BY <1>4 DEF ReadSaltFile
    <2> QED BY <2>1 DEF VerifyBeacon
  <1>5. CASE LoadModulus \/ InstallKeys
    <2>1. /\ stage' \in {"fhe", "ready", "failed"} /\ at' = at /\ beacon' = beacon
          /\ live' = live /\ salt' = salt
      BY <1>5 DEF LoadModulus, InstallKeys, beaconVars
    <2> QED BY <2>1 DEF VerifyBeacon
  <1>6. CASE \E ct \in Request : InferHandler(ct)
    BY <1>1, <1>6 DEF InferHandler, beaconVars, inputVars
  <1>7. CASE UNCHANGED << beaconVars, inputVars, fheVars >>
    BY <1>1, <1>7 DEF beaconVars, inputVars
  <1> QED BY <1>2, <1>3, <1>4, <1>5, <1>6, <1>7 DEF InputsNext, MissionStep

\* run_mission_inner, for any rounds, any number of attempts and any model, whatever
\* the endpoint answers and whenever clients ask: what the inputs and the engine keep.
THEOREM InputsInvariant == InputsSpec => [](EngineInv /\ SaltInv)
PROOF
  <1>1. InputsInit => EngineInv /\ SaltInv
    BY InputsBegin
  <1>2. EngineInv /\ SaltInv /\ [InputsNext]_<< beaconVars, inputVars, fheVars >>
        => EngineInv' /\ SaltInv'
    BY InputsKeepTheEngine, InputsKeepTheSalt
  <1> QED BY <1>1, <1>2, PTL DEF InputsSpec

\* The salt that the keys are derived with is the group's own randomness for the round
\* that its response names, or, only where the configuration says so, the file's.
THEOREM SaltsAreGenuine == InputsSpec => []SaltIsGenuine
PROOF
  <1>1. EngineInv /\ SaltInv => SaltIsGenuine
    BY DEF SaltInv
  <1> QED BY <1>1, InputsInvariant, PTL

\* And the answers that clients get while a mission prepares are exact.
THEOREM MissionAnswersStayExact == InputsSpec => []AnswersAreExact
PROOF
  <1>1. EngineInv /\ SaltInv => AnswersAreExact
    BY EngineIsExact
  <1> QED BY <1>1, InputsInvariant, PTL
=============================================================================
