----------------------------- MODULE Wesolowski -----------------------------
(***************************************************************************)
(* The delay function (chronos-vdf/src/wesolowski.rs): T squarings, the    *)
(* Fiat-Shamir prime, the proof by long division, all with cancellation;   *)
(* verify(); and the provisioner's shortcut through phi(N)                 *)
(* (chronos-provision/src/main.rs).                                        *)
(*                                                                         *)
(* SHA-256 is a random oracle: its first eight bytes are any u64, the same *)
(* ones for prover and verifier, who hash the same (g, y, T).              *)
(***************************************************************************)
EXTENDS Integers

CONSTANTS
    Factors,            \* pairs << p, q >> of distinct primes: N = p q
    Base,               \* values of g
    Steps,              \* values of T
    U64Max,             \* the largest u64
    LargestPrime,       \* the largest prime a u64 holds
    PollInterval        \* ABORT_POLL_INTERVAL, 4096 in the code

ASSUME DelayAssumption ==
    /\ Factors \subseteq (Nat \ {0, 1, 2}) \X (Nat \ {0, 1, 2})
    /\ Base \subseteq Nat /\ Steps \subseteq Nat
    /\ U64Max \in Nat /\ LargestPrime \in 3 .. U64Max
    /\ PollInterval \in Nat \ {0}

VARIABLES
    g, t, pq,           \* the inputs, which do not change
    pc,                 \* "square", "prove", "done" or "aborted"
    i,                  \* squarings done in this loop
    polled,             \* whether this iteration has found the flag down
    y, ell, pi, r,
    abort,              \* the flag
    late                \* squarings done since the flag was raised
inputs == << g, t, pq >>
vars == << inputs, pc, i, polled, y, ell, pi, r, abort, late >>

n == pq[1] * pq[2]
phi == (pq[1] - 1) * (pq[2] - 1)

---------------------------------------------------------------------------
(* Modular arithmetic.                                                     *)

\* pow_mod_u64 and modpow, by square and multiply; m > 1.
PowMod(base, exp, m) ==
    LET pow[e \in 0 .. exp] ==
            IF e = 0 THEN 1
            ELSE LET half == pow[e \div 2]
                 IN  (half * half * (IF e % 2 = 1 THEN base % m ELSE 1)) % m
    IN  pow[exp]

MillerRabinBases == {2, 3, 5, 7, 11, 13, 17, 19, 23, 29, 31, 37}

\* is_prime: trial division by the bases, then Miller-Rabin with c - 1 = d 2^s.
IsPrime(c) ==
    LET divisors == {p \in MillerRabinBases : c % p = 0}
        s == CHOOSE k \in 0 .. 64 : (c - 1) % 2^k = 0 /\ (c - 1) % 2^(k + 1) # 0
        d == (c - 1) \div 2^s
        Witness(a) ==
            /\ PowMod(a, d, c) \notin {1, c - 1}
            /\ \A k \in 1 .. s - 1 : PowMod(a, d * 2^k, c) # c - 1
    IN  /\ c >= 2
        /\ IF divisors # {} THEN c \in divisors ELSE \A a \in MillerRabinBases : ~Witness(a)

\* Twelve bases decide primality for every u64, and the fallback is what the code says
\* it is.
IsOddPrime(c) == c \in 3 .. U64Max /\ \A d \in 2 .. c - 1 : c % d # 0
ASSUME PrimalityAssumption ==
    /\ \A c \in 3 .. U64Max : c % 2 = 1 /\ IsPrime(c) => IsOddPrime(c)
    /\ IsOddPrime(LargestPrime)

\* fiat_shamir_prime: the first odd prime from the seed up, or, when the scan
\* saturates, the largest there is.
FiatShamirPrime(seed) ==
    LET odd == IF seed % 2 = 1 THEN seed ELSE seed + 1
        first == IF odd < 3 THEN 3 ELSE odd
        found == {c \in first .. U64Max : c % 2 = 1 /\ IsPrime(c)}
    IN  IF found = {} THEN LargestPrime
        ELSE CHOOSE c \in found : \A d \in found : c <= d

\* verify, for T > 0 and N > 1.
Verify(result, proof) ==
    (PowMod(proof, ell, n) * PowMod(g, PowMod(2, t, ell), n)) % n = result

\* Mutant: the exponent reduced modulo N.
ShortcutVdfModN == PowMod(g, PowMod(2, t, n), n)

\* shortcut_vdf: the provisioner knows phi(N).
ShortcutVdf == PowMod(g, PowMod(2, t, phi), n)

\* Euler's theorem, for bases prime to N and below it; the code's base is 2 and its N odd.
ASSUME EulerAssumption ==
    \A b \in Base, f \in Factors :
        /\ b < f[1] * f[2]
        /\ PowMod(b, (f[1] - 1) * (f[2] - 1), f[1] * f[2]) = 1

---------------------------------------------------------------------------
(* evaluate_interruptible.                                                 *)

Init ==
    /\ g \in Base /\ t \in Steps /\ pq \in Factors
    /\ i = 0
    /\ \/ t = 0 /\ pc = "done" /\ y = g
       \/ t > 0 /\ pc = "square" /\ y = g % n
    /\ ell = 0 /\ pi = 1 /\ r = 0
    /\ polled = FALSE /\ abort = FALSE /\ late = 0

\* The watchdog or anyone else.
RaiseAbort ==
    /\ ~abort /\ pc \notin {"done", "aborted"}
    /\ abort' = TRUE
    /\ UNCHANGED << inputs, pc, i, polled, y, ell, pi, r, late >>

CountLate == late' = IF abort THEN late + 1 ELSE late

\* The flag is looked at every PollInterval iterations; between the look and the
\* squaring it may go up.
MustPoll == i % PollInterval = 0 /\ ~polled

\* Mutant: the second loop, too, starts to poll after its first interval.
PollLate ==
    /\ pc \in {"square", "prove"} /\ i < t /\ MustPoll
    /\ IF abort /\ i > 0 THEN pc' = "aborted" /\ UNCHANGED polled
       ELSE polled' = TRUE /\ UNCHANGED pc
    /\ UNCHANGED << inputs, i, y, ell, pi, r, abort, late >>

Poll ==
    /\ pc \in {"square", "prove"} /\ i < t /\ MustPoll
    /\ IF abort THEN pc' = "aborted" /\ UNCHANGED polled
       ELSE polled' = TRUE /\ UNCHANGED pc
    /\ UNCHANGED << inputs, i, y, ell, pi, r, abort, late >>

Square ==
    /\ pc = "square" /\ i < t /\ ~MustPoll
    /\ y' = (y * y) % n
    /\ i' = i + 1
    /\ polled' = FALSE
    /\ CountLate
    /\ UNCHANGED << inputs, pc, ell, pi, r, abort >>

\* The challenge, and the proof loop's start.
Challenge ==
    /\ pc = "square" /\ i = t
    /\ \E seed \in 0 .. U64Max : ell' = FiatShamirPrime(seed)
    /\ pc' = "prove"
    /\ i' = 0
    /\ pi' = 1 % n
    /\ r' = 1 % ell'
    /\ UNCHANGED << inputs, polled, y, abort, late >>

\* Mutant: the carry taken from the remainder after it was reduced.
ProveStepLateCarry ==
    /\ pc = "prove" /\ i < t /\ ~MustPoll
    /\ r' = (2 * r) % ell
    /\ pi' = (pi * pi * (IF (2 * r') \div ell = 1 THEN g % n ELSE 1)) % n
    /\ i' = i + 1
    /\ polled' = FALSE
    /\ CountLate
    /\ UNCHANGED << inputs, pc, y, ell, abort >>

\* One digit of the long division of 2^T by ell.
ProveStep ==
    /\ pc = "prove" /\ i < t /\ ~MustPoll
    /\ r' = (2 * r) % ell
    /\ pi' = (pi * pi * (IF (2 * r) \div ell = 1 THEN g % n ELSE 1)) % n
    /\ i' = i + 1
    /\ polled' = FALSE
    /\ CountLate
    /\ UNCHANGED << inputs, pc, y, ell, abort >>

Finish ==
    /\ pc = "prove" /\ i = t
    /\ pc' = "done"
    /\ UNCHANGED << inputs, i, polled, y, ell, pi, r, abort, late >>

Next == RaiseAbort \/ Poll \/ Square \/ Challenge \/ ProveStep \/ Finish

Spec == Init /\ [][Next]_vars

---------------------------------------------------------------------------
(* Properties.                                                             *)

\* The agent checks its own evaluation before it uses it: an honest one passes
\* whatever the hash, and the challenge is an odd prime that fits a u64.
HonestProofVerifies ==
    /\ pc = "prove" => IsOddPrime(ell)
    /\ pc = "done" /\ t > 0 => Verify(y, pi)

\* The key sealed under the provisioner's shortcut opens under the agent's T
\* squarings, for every T, zero included.
ShortcutAgrees == pc \in {"prove", "done"} => y = ShortcutVdf

\* Cancellation is prompt: after the flag goes up at most PollInterval squarings
\* are done, across the boundary between the two loops as well.
AbortIsPrompt == late <= PollInterval
===========================================================================
