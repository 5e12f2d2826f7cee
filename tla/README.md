# Chronos: a TLA+ verification of the agent, its containment monitor and its protocol

Chronos runs an AI agent for one mission. A secret key is sealed under the output
of a verifiable delay function (VDF). The agent opens it after T squarings, uses it,
and has to erase itself and prove in zero knowledge that it held the key and ran
under containment to the end. While it runs, a small reference monitor with the
axioms A1 to A7 arbitrates everything it may do. This directory models the parts of
that program that keep state, checks them with TLC on small instances, and proves
with TLAPS, for every value of the constants, every safety property that the runs check:
invariants, action properties and refinements.

Paths below are relative to the repository; `agent`, `core`, `vdf`, `snark` and
`provision` stand for `crates/chronos-<name>/src`.

## 1. The system

| component | source | state | operations |
|---|---|---|---|
| Reference monitor | core/containment.rs | phase, capabilities, two budgets, clock, uncertainty incurred, resolved and peak, anchor and count of corrections | `step` on nine events, `precedes`, `with_elapsed`, `verify_axioms` |
| Ledger | core/containment.rs | monitor state, hash chain, bounded tail, counters | `set_elapsed`, `admit`; the status, veto and correction handlers report on it |
| Correction chain | core/correction.rs | none in the agent but the anchor; the operator holds the grants | `build_chain`, `authorises` |
| Agent | agent/state.rs, agent/main.rs | start time, abort flag, ledger, identity, cached proofs, attestation, opened key | request handlers, `run_mission`, watchdog, shutdown |
| Configuration | agent/config.rs, tls.rs, crypto.rs | none once started | `validate`, `is_loopback_only`, `validate_tls_config`, `load_auth_key` |
| Gate | agent/main.rs, crypto.rs, tls.rs | nonce cache, failure count | `auth_middleware`, `verify_handler` |
| Mission inputs | agent/main.rs, drand_client.rs, core/mpc.rs | attempt, last error, salt, modulus | load the sealed key, fetch the beacon with retries or read the salt, load and validate the modulus, generate FHE keys |
| FHE engine | core/fhe.rs, mlp.rs | evaluation key (also per thread), model | generate keys, install a model, evaluate a request |
| VDF | vdf/wesolowski.rs | loop variables | `evaluate_interruptible`, `prove`, `verify` |
| Sequential work | vdf/posw.rs | hasher, bounded channel, writer, file | `evaluate_async` |
| Provisioner | provision/main.rs, snark/mission.rs | five files | write, restrict; the agent loads them |
| Erasure proof | snark/aead.rs, circuit.rs, prover.rs | the proving key file | seal, open, set up, save, load, prove, verify |
| Setup transcript and provers | snark/prover.rs, identity_circuit.rs | chain of contributions, accumulator, two provers' keys, key files | contribute, set up, save, load, load the ceremony's keys, prove and verify an identity |
| Ceremony | snark/ceremony.rs | two phases' parameters, transcript | contribute, verify and apply, start phase 2, finalize |
| Ceremony tool | snark/examples/ceremony_cli.rs | files | init, contribute, transition, finalize |
| Registry and verifier | contracts/*.sol, snark/solidity.rs | the deployed key; records, count, event log | export, `verifyProof`, `attestErasure` |

**How they interact.** Requests pass the gate and reach a handler; handlers, the
mission task, the watchdog and the shutdown path submit events to the monitor through
`StateMachine::admit`, which reads the clock, waits for the ledger's lock, arbitrates,
and raises the abort flag once the monitor is erased. The mission task collects its
inputs from the provisioner's files and the beacon, and generates the FHE keys while
clients already send encrypted requests. The VDF, on a blocking thread, polls the flag.
The task opens the key with the VDF's output, sets up the identity, locks and erases the
monitor, proves with the key it still holds, publishes the attestation and drops the key.
Anyone may then submit it to the registry, over a verifier that holds an exported key.

**What is hard.** Every `await` is a place where another task runs or the client's
disconnection drops the handler for good; the watchdog races the mission, the signal
and requests on the same locks; an answer is collected under several locks; u64 counters
saturate and encrypted sums wrap; the clock is read before a lock is waited for; a
bounded channel parks a thread whose reader may have died; files are written in place,
one after the other, and read at different times by a process that may belong to another
run; contributions, requests and transactions are late, stale or repeated; words hold
more numbers than fields do. `PROJECT.json` lists these hazards at their lines, with
the properties that would catch them going wrong, or the reason why none does.

**What makes each component correct.** Monitor: A1 to A7 on every step, and an erased
monitor can always be attested. Ledger: nothing arbitrated is missing from it, the
budgets can be recomputed from it, and what handlers report follows it. Agent: it shows
the monitor a legal sequence of calls, opens the key once, ends its mission clean and
erases by the deadline. Gate: no replay within the window, nothing unsigned from the
network, a lockout that holds. Inputs: the salt is genuine or there is none, and answers
on encrypted data are exact or there are none. VDF: agent, verifier and provisioner
compute one value, and cancellation is prompt. Sequential work: it ends, and its file is
without a gap. Provisioning and proof: what the agent publishes verifies, under one key,
and a whole mission is not wasted. Setup and ceremony: nobody's contribution is undone
or unnamed. Chain: honest proofs are accepted and there is one permanent, counted and
logged record per mission.

## 2. Modules and the code they model

| module | models | notes |
|---|---|---|
| `Correction` | core/correction.rs | a digest is the tuple that was hashed |
| `Containment` | core/containment.rs, the summary's predicates of snark/circuit.rs | `Decide` is the verdict, `Effect` the successor and `Step` both; `Commit` is `admit`'s check of `precedes`. The order of refusals is the code's |
| `AxiomCheck` | `verify_axioms` | the axioms as predicates of one transition, the cross product and the events |
| `ContainmentMonitor` | the monitor as its callers see it | an abstract specification: events in any order, with any clock reading, by callers who know made-up tokens and the grants revealed |
| `ContainmentLedger` | `ContainmentLedger::admit` | the chain digest is the sequence of records hashed |
| `LedgerReaders` | `status_handler`, the veto and correction handlers | one read per lock; the ledger goes on in between; after the startup check |
| `Custody` | | an abstract specification: what the agent promises of the key and the identity |
| `Mission` | agent/state.rs, agent/main.rs | one step per stretch between awaits; implements `ContainmentMonitor` and `Custody` |
| `Startup` | `ChronosConfig::validate`, tls.rs, `load_auth_key`, the listener's address | addresses and files by the classes the checks tell apart |
| `Gate` | `auth_middleware`, `NonceCache`, `verify_handler` | started with any accepted configuration, stopped and restarted; the handlers behind it are Mission's |
| `Beacon` | agent/drand_client.rs | signatures are known by the round signed |
| `Mlp`, `FheEngine` | core/mlp.rs, core/fhe.rs | wrapping words, static validation, exact reference; the threads that have the key |
| `MissionInputs` | steps 1 and 2 of `run_mission_inner`, core/mpc.rs | composes `Beacon` and `FheEngine` with the files |
| `Wesolowski` | vdf/wesolowski.rs, `shortcut_vdf` | real modular arithmetic on small moduli |
| `Posw` | vdf/posw.rs | the value after k hashes is k; writes are done by a thread of the file's own |
| `PowersOfTau`, `Ceremony` | snark/ceremony.rs | group elements by their discrete logarithms |
| `CeremonyFiles` | snark/examples/ceremony_cli.rs | files that commands read, overwrite and tear, over `PowersOfTau` |
| `SetupTranscript`, `IdentityCircuit`, `TrustedSetup` | snark/prover.rs, snark/identity_circuit.rs, `pack_bytes` | chain and accumulator; root and packing; the two provers with their key files |
| `ErasureProof` | snark/aead.rs, poseidon.rs, circuit.rs, prover.rs | the relation the circuit states, over ideal primitives |
| `Provisioning` | provision/main.rs, mission.rs, mpc.rs, the file-reading and proving half of `run_mission` | files are known by the run that wrote them and by their mode, a modulus by its width and whether a small prime divides it |
| `Registry` | ChronosRegistry.sol | an abstract specification with an ideal verifier; a transaction is atomic, a revert changes nothing |
| `Groth16Verifier` | snark/solidity.rs, Groth16Verifier.sol | words, decoding and failures of the precompiles, pairing equation |
| `OnChain` | the two contracts together | implements `Registry` |
| `ContainmentProofs`, `LedgerProofs`, `MissionProofs`, `GateProofs`, `EvaluationProofs`, `ProvisioningProofs`, `SetupProofs`, `RegistryProofs` | | theorems, section 5 |
| `MC*` | | instances for TLC |

`PROJECT.json` maps every definition to its lines.

**Idealisations.** Hashes are injective, MACs and signatures cannot be forged, a
ciphertext authenticates under its own key only, a proof exists only for a witness
that satisfies the circuit, and a VDF output stands for its modulus and its number of
steps (except in `Wesolowski`, where it is computed). An FHE ciphertext is known by its
plaintext. Exclusive or of digests is the symmetric difference of sets, so that entropy
folded in twice cancels. The verifier's groups have a small order, their points are known
by their discrete logarithms, and tables give them coordinates; the first group is a real
curve. In `Mission`, locks are fair and a stretch of code between two awaits is one step
unless another thread could see its middle.

## 3. Runs

| run | question | bounds and why they are enough |
|---|---|---|
| `monitor` | Do the axioms hold on every sequence of events? | u64 is cut to 0..3 so that every counter saturates; two grants, of which one exceeds what it resolves; three operations, so that corrections fall between inferences; every event and clock reading is tried in every state |
| `ledger` | Are the records complete and auditable, do the reports follow them, does the startup check pass? | four records over a tail of two, so that the tail wraps; one grant and a forged one; inferences on both sides of each budget, the deadline and the threshold; one reporting handler at a time, the events of all others between its reads. The startup check is evaluated over its full cross product |
| `mission_safety` | Does the agent implement the monitor and its custody of the key, and end every mission clean? | two connections, enough for two requests of a kind to race; all five kinds of requests, a watchdog, a signal, disconnection anywhere; one poll of the VDF; a deadline that the clock reaches |
| `mission_liveness` | Is a started mission erased, and do the keys go away for good? | one connection that stays open; deadline within the clock's bound, so that it passes |
| `mission_disconnect` | The same when the client may hang up | violated, section 6 |
| `gate` | Replays, unsigned requests, the lockout | every configuration of the modelled classes; cache of two and three nonces, so that eviction happens and an evicted nonce comes back; two connections past the check together; two signed requests and four let through per process; restarts |
| `evaluation` | What a mission computes: are its inputs settled, is the salt genuine, do the VDF's evaluation, proof, verification and shortcut agree, is it cancelled promptly, does the sequential work end with its checkpoints, are encrypted answers exact? | one part at a time while the others rest. Inputs: the code's three attempts, every combination of round, signature and randomness; every modulus class; requests meanwhile. Engine: several thousand models over four-bit words, of three shapes and with arrays that do not fit together, inputs within and beyond the declared bound, two threads. VDF: all T in 0..8, three moduli and every six-bit hash: several digits of quotient, primes below and above 2^T, a hash without a prime above it; a poll every three steps, so that polls fall on and off the loops' ends. Sequential work: chains of 0..8 hashes with a checkpoint every two, four in all, over a channel of two: it fills |
| `ceremony` | Can a contribution be undone, or unnamed; do published heads stand for their setups; is an identity bound? | one of three at a time. Coordinator: two participants, a group of order five in which the secrets 2 and 3 cancel, three contributions per phase. Files: two files, two contributors. Setup: two desks with up to two records each from two contributions, so the same one twice and both orders; limbs of two bytes, so that padding happens |
| `provisioning` | What does the agent make of files of several runs, torn or missing? | two provisioning runs, each with a modulus that was generated, given or shared, of every class that `validate_modulus` tells apart, and its own or the shared salt, crashing at any write; two setups. One T: runs that differ in it only have different outputs, as runs that differ in the salt have different keys |
| `provisioning_fresh` | Does it open what a completed run left? | violated, section 6 |
| `provisioning_modulus` | Does it, with a generated modulus, if every file is created with the mode it demands? | violated, section 6. One run; a umask of 077, so that salt.bin is not in the way |
| `registry` | Are honest proofs accepted, and is there one permanent record per mission? | y² = x³ + 3 over 19 elements has 13 points, so both moduli fit in two digits of eight with room for non-canonical words; keys of the right and wrong length and with a point at infinity; honest, shifted, swapped and blank calldata; inputs plus the group's order; two missions and two senders |

`CHECK_DEADLOCK FALSE` stands where the system may stop: an agent that has exited, a
finished evaluation, a consumed coordinator, inputs that are settled, a chain on which
all is attested, and the gate once the model's bound on accepted requests is reached.

**Symmetry** is used over connections, nonces and participants only, and in no run with a
temporal property other than safety (action properties and refinements without fairness).

**Fairness.** `Mission`: weak fairness of each handler, of the mission's own steps, of
the watchdog, of shutdown once signalled and of the clock, because Tokio polls every
ready task and its mutexes are fair. Nothing is assumed of clients, of the operator,
of failures, or of the VDF's progress between two polls: `DeadlineErases` holds on a host
too slow to finish it. `MissionInputs`: weak fairness of the mission's own steps, the
failure of a fetch included, because the HTTP client has a timeout and the back-off is a
sleep. `Posw`: weak fairness of the hashing thread, of the writing task, of the file's
thread and of the call's return; a send on a full channel is not enabled, so nothing is
assumed about whoever would have to make room.

Each property has a mutant in `PROJECT.json`: a definition, changed as a plausible bug
would, under which TLC finds that property violated.

## 4. What the properties say

- *Monitor.* `CommitNeverFallsBack`: `admit`'s defensive branch, which would answer Admit
  and keep the old state, is dead code, for Erase in particular.
  `PeakBoundsUncertainty`: A6 on every step. `NonSelfAuthorisation` and
  `ResolvedIsAuthorised`: A7, on grants and on amounts. `ErasedIsAttestable`: no history
  leads to an erased state that the circuit would refuse.
- *Ledger.* `HistoryIsComplete` (the records chain without a gap to the state held now, and
  the tail is their newest), `BudgetIsAudited`; `ReportsFollowTheLedger`: figures read
  under several locks are a walk along the ledger, and an answer to a veto or a correction
  includes its own record; `StartupCheckPasses`: `verify_axioms` finds nothing.
- *Agent.* `MonitorSpec` and `CustodySpec` are the refinements of `ContainmentMonitor` and
  `Custody`. `MissionEndsClean` and `ErasureCompletes` are about races between tasks;
  `SummaryIsFinal` about the order of the last steps and what requests may do after them;
  `DeadlineErases` about the watchdog.
- *Gate.* `ReplayWindow`; `UnauthenticatedIsLocal` (over every configuration, so it is
  about the start-up checks as much as about the MAC); `FailuresAreBounded` (the lockout
  may be exceeded by the handlers already past its check); `LockoutIsFinal`.
- *Inputs.* `SaltIsGenuine`, `AnswersAreExact`, `InputsEnd`.
- *Delay.* `HonestProofVerifies`, `ShortcutAgrees`, `AbortIsPrompt`; `WorkIsRecorded`,
  `EvaluationEnds`.
- *Provisioning.* `AttestationVerifies`: the erasure proof, published without the
  self-check that the identity proof gets, verifies against the artifact.
  `OneVerifyingKey`: across crashes while the proving key is saved, all attestations of a
  host verify under one key. `WholeMissionOpens`: the agent never gives up on the
  unchanged files of a completed run, if salt.bin has been restricted, no torn proving
  key is in the way, and the modulus has exactly 2048 bits and no small factor. The
  provisioner checks neither for a modulus it generates, and only that it is not
  narrower for one it is given; section 6 has what follows.
- *Ceremony and setup.* `AccumulatorsArePowers`, `Phase1MovesForward`,
  `KeysAreAccountedFor`; `FilesNameTheirContributors`; `SetupIsAuditable` (the published
  head tells the setups apart), `IdentityIsBound`.
- *Chain.* `CountIsExact`, `HonestProofIsAccepted`, `ImplementsRegistry`: what the deployed
  arithmetic accepts is what an ideal verifier would, whatever words are sent, and no
  record is replaced or left out of the log.

## 5. Proofs

Every safety property of section 4 (invariants, action properties and refinements) is a
theorem; what stays with TLC is listed at the end. The theorems hold for every value of the
constants that satisfies the named assumptions, which TLC evaluates on every run. Most say
what type a constant has. Those that say more:

| assumption | what it says | why |
|---|---|---|
| `ChainAssumption`, `SecrecyAssumption` | a chain's tokens differ from one another and from those that callers make up; the grant counter can count it | tokens are 32 random bytes |
| `CheckAssumption` | the startup check's tokens are tokens, and 2 is not the largest u64 | constants of `model_check_chain` |
| `PrimalityAssumption` | the twelve Miller-Rabin bases decide primality below 2^64, and the fallback is prime | published result; the code relies on it |
| `EulerAssumption` | g to phi(N) is 1 modulo N | Euler's theorem, where g and N are coprime |
| `PowersAssumption` | no product of nonzero residues is zero modulo the group's order | the order is prime |
| `CurveAssumption` | tables of the groups' coordinates: no two alike, a point's inverse has the opposite y | any two groups on curves |
| `SoundnessAssumption` | what satisfies ark-groth16's equation for a deployed key was proved | Groth16 is sound; the theorem is that the *contract* adds nothing to it |

Where a definition is a recursive function (powers, sums, products, folds over an array),
the proofs first show that such a function exists, by induction over the set of the numbers
up to which it does (`NatByInduction`, from well-foundedness), and then reason about its
values in the same way.

**`ContainmentProofs`.** `StepSatisfiesAxioms`: A1 to A7, exactly as `verify_axioms` states
them, hold of a transition from *every* state, reachable or not, for *every* event. The
startup check samples counters from {0, 1, 2}; its documentation argues that this is
sound for order properties, and the theorem replaces the argument. One hypothesis is
needed: the grant counter is below u64::MAX. At the limit it saturates, so a further
admitted correction would break A7's demand that the counter grows; the sample, where
the counter is always zero, cannot show that. No run gets there, since a chain is far
shorter. `StartupCheckHolds` is the instance that the agent evaluates. The module also shows
per event that `Step` preserves `Sound` and comes after the state it started from, and
`AuthorisedIsNext` and `ChainStep` carry the chain of grants.

**`LedgerProofs`, the monitor.** The monitor's invariants are not inductive as they stand.
That the peak dominates the net uncertainty after an inference needs that it did before;
that an erased state is terminal needs that the capabilities only shrink and the budgets are
zeroed; that a grant accepted was revealed needs that the anchor is the digest at the
number of grants spent, since only then does the injective hash make an accepted grant
the chain's next one. `IInv` is the conjunction of

- `Sound(st)`: the type, the threshold as provisioned, the peak between the net
  uncertainty and the threshold, the capability to attest never lost, and an erased state
  without any other capability or budget;
- `AnchorOnChain(st)`: the anchor is the chain's, just past the grants spent;
- only provisioned grants are revealed, and every grant spent is revealed.

`InductiveInvariant` combines the facts per event; `TypeCorrect`, `AlwaysCommits`,
`UncertaintyBounded`, `OnlyOperatorCorrects` and `ErasedAttestable` follow from it.
`ResolvedAsAuthorised` is about a sum over the grants spent: `IInv` identifies the grant that
is accepted as the next of the chain, so that the saturating counter and the saturated
sum move together (`SaturatingTotal`).

**`LedgerProofs`, the ledger.** `LInv` adds to `HistoryIsComplete` the monitor's `Sound` and
`AnchorOnChain`, the types of the sequences, and `BudgetAccounted`. The last is what makes
`BudgetIsAudited` inductive: an inference is charged one operation, so the records of
admitted inferences and the budget left make up the budget, until erasure, which zeroes
what is left and after which no inference can be admitted; a correction is counted once,
which needs `Sound`, as it bounds the counter that would saturate otherwise. That each
record adds at most itself to a set of records is `RecordCounted`, by cardinality. The
tail is handled by `PushTailWindow`: dropping the head and appending leaves a window of the
newest records, for every capacity, zero being taken for one as in the code.
`HistoryComplete` and `BudgetAuditable` follow; `ReadersImplementLedger` carries them over to
the ledger with its reporting handlers.

**`LedgerProofs`, the reports.** What `ReportsFollowTheLedger` says of a complete answer,
`ReaderInv` says of one that is half collected: the figures read so far are a walk along the
records (`Walk`), with room for the next one, and a veto's or a correction's own record is
on the ledger before its answer is read. That a walk stays one while other requests are
arbitrated (`LedgerMovesOn`) is because figures only grow from record to record. `ReportsFollow`
is the conclusion, `StartupCheckSucceeds` that there is an agent to ask.

**`MissionProofs`.** The agent's safety, for any number of connections. `AInv` is the
conjunction of

- `MonitorHolds`: `Sound` and `AnchorOnChain` of the monitor, carried over from
  `ContainmentProofs` to whatever a handler, the mission, the watchdog or the signal submits;
- `OneMission`: one handler at most is between the admission of its MissionInit and the
  spawn, and then no mission is running yet. Only an armed monitor admits the event, and
  `AdmitMoves` says that nothing is armed again;
- `KeysFollowTask`: the key is held exactly from opening it to dropping it, as long as the
  process runs, and there is an identity only after it was set up;
- `ErasureFollowsTask`: from the wipe of step 8 on, the monitor is erased;
- `SummaryIsFinal`, which is inductive with these because an erased monitor is a fixed
  point of `Step` (`ErasedIsFixed`): what is erased changes in nothing but its clock.

`SummaryFinal` and `EndsClean` follow at once. Both refinements are proved from `AInv`, one
step of the agent at a time. In `ImplementsCustody` opening the key, setting up and wiping the
identity, every way to give up, erasing and publishing map to the promise's actions and all else is
a stutter; in `ImplementsMonitor` whatever is submitted is one call of the monitor, with a
clock reading that fits and, for a correction, a token the caller could know.
`SameStep` identifies the instance's transition function with the agent's. What
`LedgerProofs` shows of the monitor's steps therefore holds in the agent.

**`GateProofs`.** `ReplayWindow` speaks of the history, the code of a set and a queue.
`GInv` ties them: `CacheIsWindow` says that the queue is the nonces of the newest accepted
requests, as many as fit, and the set is the queue's. `MacHolds` covers the
requests between the MAC and the replay check and rules out that an open listener is ever
without a key. `FailuresCounted` bounds the failures *and* the handlers past the check
together, since each of them may still add one: the bound of `FailuresAreBounded` alone is
not inductive. `NoReplay`, `OnlyLocalWithoutKey`, `FailuresBounded` and the action property
`LockoutFinal` follow.

**`EvaluationProofs`, the delay function.** For any modulus that is a product of two factors above two, any
base and any number of squarings. `DInv` has a part per question. `ResultInv` says that y is g to the 2^i
on the way, and that quotient and remainder are `Divided`: what i steps of long division by
the challenge leave, `g^(2^i) = pi^ell * g^r`. It rests on the laws of powers (`PowerOfSum`,
`PowerOfPower`) and on `PowModIsPower`: square and multiply, which halves its exponent,
computes the power. `HonestProofsVerify` and `ShortcutsAgree` follow, the first with
`ChallengeIsPrime` (whichever way the scan ends), the second with Euler's theorem.
`PromptInv` bounds the work since the flag was raised by the distance from the last poll;
`AbortsArePrompt` follows.

**`EvaluationProofs`, the sequential work.** `PoswOrder` accounts for each checkpoint that was
sent: in the file, in flight, lost and not yet reported, in the writer's hand, or in the channel, in this
order and without a gap, until the writer fails; `PoswControl` says that a call which returned Ok has found the channel
empty and closed. `WorkIsOnRecord` follows for any capacity, interval and length: what may be
missing at the end is the last write, which nobody waits for.

**`EvaluationProofs`, the inputs.** `AnswerIsExact`: a model that `validate` lets through with the declared
bound computes, with every operation wrapping, what exact integers would, on every input within the
bound. `UnitIsExact` does one unit: the running sum of magnitudes dominates the running value, the
worst case of the whole dominates the sum, and validation has compared that with the
largest word. `EngineInv` says that an answer is one of `Evaluate`, which
validates with the inputs' own width; `AnswersStayExact` and, for requests that come in while a mission
prepares its inputs, `MissionAnswersStayExact` follow. `SaltInv` adds to `SaltIsGenuine` that a response is kept only once
verified, and that no stage before the last leaves a salt behind.

**`ProvisioningProofs`.** For any number of provisioning runs and setups, crashing anywhere. `PInv` is

- `DiskInv`: what a run has left to do is the end of its list of outputs and what came before is
  on the disk, so a completed run's files are all there (`OutputReaches`, `WriteOutputKeepsDisk`);
- `AgentInv`: the artifact and the ciphertext that the agent holds are each some run's, and from
  the opening on the same one's, as the ciphertext opens under its own key only;
- `KeyInv`: a proving key file is absent, torn or whole; while it is being saved it is torn and
  nothing has been published; what has been published came under the key that is in the file.

`AttestationsVerify`, `VerifyingKeyIsKept` and the action property `WholeMissionsOpen` follow; the
last has one step per action (`WholeMissionStep`), and its conditions on the mode of salt.bin and
on the modulus are used by the steps that read these two files and by no other.

**`SetupProofs`.** *The ceremony.* `CInv` says that every contribution that counts was recorded,
and that an outbox holds what was computed from *some* challenge, maybe not the current one:
that the check then refuses it is what `Phase1Advances` and `KeysAreAccounted` rest on.
`AccumulatorsStayPowers` needs that scaling the powers of tau by those of another secret gives
those of their product (`ScaledPowers`), by induction over the index, and that a product of
secrets is not zero, so that the order is prime. *The files.* `FilesAreSigned`: a file with a
contribution in it was written by a command that began from a file without any. *The setup.* `SInv`
says that each desk's transcript came to be one contribution at a time (`Collected`) and its chain verifies;
`HeadsIdentify` then shows, by induction over both histories, that transcripts with one head have the same
contributions, although the same contribution twice cancels in the accumulator.
`SetupsAreAuditable` follows. `IdentitiesAreBound`: the length in front makes packing injective
(`PackingIsInjective`, `SplitConcatenation`), padding included.

**`RegistryProofs`.** `Inv` adds finiteness of the set of records, without which the
cardinality in `CountIsExact` means nothing; `RecordAttests` shows that a transaction
adds exactly one mission. `RegistryInvariant`, `CountCorrect` and `Permanence` follow, about
the registry with the ideal verifier. `VerifierIsExact` is about the deployed one, for any
groups, key, number of inputs and words: it returns true exactly if the inputs are canonical, the
words are points, and these satisfy ark-groth16's equation for the key that was exported. Its parts
are that export and decoding are inverse to each other (`DecodesG1`, `DecodesG2`), that the
loop over the inputs adds up what ark-groth16 adds up, modulo the order (`SumsAgree`), and that
four pairings cancel exactly if the equation holds, where negating A stands for moving it to
the other side and the prepared inputs are reduced (`Balance`). `HonestProofsAreAccepted` and, with
`SoundnessAssumption`, `DeployedImplementsRegistry` follow, and by it `DeployedRecordsLast`.

**Only model-checked.** Liveness, since TLAPS does not reason about fairness here:
`DeadlineErases`, `ErasureCompletes`, `EvaluationEnds`, `InputsEnd`. The three properties of section 6 are
violated. Induction with an operator as its parameter and RECURSIVE operators are out of the
prover's reach; no definition of this project needs either.

## 6. Findings

- `mission_disconnect`: `arm_to_active` is admitted, then waits for the start-time lock.
  A client that hangs up there leaves the agent active, without a start time and without
  a mission, and the watchdog tests the deadline only where there is a start time
  (agent/state.rs:354). `MOTIVATION.md:28` says that "the agent cannot continue operating
  past its mission deadline".
- `provisioning_fresh`: the provisioner restricts ct_sk.bin and correction_grants.json but
  not salt.bin, which the agent reads with a function that demands mode 0600. Under the
  usual umask a mission provisioned with its own salt fails and erases.
- `provisioning_modulus`: `generate_prime` forces the top bit of each 1024-bit prime, "so N
  reliably reaches 2*PRIME_BITS" (provision/main.rs:375; line 69 has it "giving a 2048-bit
  modulus"). The product of two such primes may be below 2^2047, which it is for about 39 %
  of pairs, and then has 2047 bits; `generate_modulus` does not look. The agent's
  `MpcCertificate::load` demands exactly 2048 (core/mpc.rs:156), so it refuses the mission,
  and erases, although every file is whole and restricted.

### Observations made while modelling

Seen in the code and not kept as runs.

Monitor and agent:

- core/containment.rs:607-620: a comment says that resolving uncertainty never incurred
  buys no headroom. It does: `uncertainty_resolved` may exceed `uncertainty_incurred` and
  absorbs later inferences. A6, on the net figure, is not affected.
- agent/state.rs:131-135: the clock is read before the ledger's lock is waited for, so an
  inference may be arbitrated with a time from before the deadline after it has passed.
- agent/state.rs:247: the doc comment says that the figure a veto returns is read "after the
  fact"; it is read before the veto is arbitrated. The client's answer reads again
  afterwards, and `ReportsFollowTheLedger` bounds both.
- agent/state.rs:362-366: the watchdog declares erasure right after it raises the abort
  flag, while the VDF may be squaring or the key may be open in the mission task.
  `ErasureCompletes` says that they end.
- The agent never submits `WatchdogExpiry` or `ErasureAttest`; the watchdog submits `Erase`.
- agent/main.rs:561: the identity is given `t_seconds`, a duration, as the Unix time at
  which it expires (agent/identity.rs:30). Nothing asks whether it has.
- agent/main.rs:528, 615: `sk_bytes` and the witness's copy of the key are not wiped.

Start-up and gate:

- agent/config.rs:174: the comment counts "127.1" and other short forms as loopback; the
  parse rejects them, so such a configuration is refused. It fails closed.
- agent/tls.rs, main.rs:264: the TLS settings are validated and the listener speaks plain
  HTTP. `metrics_addr` is not restricted to loopback.
- A restart forgets the nonces seen: a signed request may be replayed to the next process.
  `ReplayWindow` is about one process.

Inputs and FHE:

- core/fhe.rs:48: "install the ServerKey globally", but tfhe keeps it per thread and the
  mission generates it on a thread for blocking work (agent/main.rs), so an evaluation on
  a thread that serves requests would panic. It cannot come to that now: nothing in the
  agent installs weights, so every admitted `/infer` fails after its budget is spent. The
  client key is dropped (core/fhe.rs:70), so no client could encrypt for it.
- core/mlp.rs:193: a model of input width zero is valid and answers nothing.
- agent/main.rs:723: `uncertainty_score` is always zero there.
- core/mpc.rs:97, 119: the doc comment promises an error for a file that exists but cannot
  be read; the code takes the published modulus for any read error. The mission then runs
  in a group it was not provisioned for and does not open.
- agent/drand_client.rs:120, 149: a beacon that fails verification is retried, contrary to
  the doc comment. `SaltIsGenuine` is not affected.

Delay functions:

- vdf/wesolowski.rs:201, 236: an abort raised after the last poll is not noticed, contrary
  to the doc comment; `AbortIsPrompt` bounds the work done.
- vdf/posw.rs:46-55: the file is dropped without a flush, so the last write may be under way,
  or have failed, when the call returns Ok; for T up to 1000 that is the only one. A file
  that could not be created is reported after all the hashing only.

Provisioning, setup and ceremony:

- provision/main.rs:304: the operator's grants are written last; a crash before that leaves
  a runnable mission that nobody can correct.
- provision/main.rs:163: `--modulus` takes any width from 2048 bits up and does not look for
  small factors; the agent refuses what is wider or has a factor up to 97. Where the VDF's
  output does not fit in 256 bytes the provisioner stops by itself.
- snark/prover.rs:366: a proving key file torn by a crash makes every later mission end
  without an attestation, until it is removed. `WholeMissionOpens` excludes this case.
- snark/prover.rs:398: `load_ceremony_keys` records the transcript head it is told. The chain
  binds a contributor's name only inside the commitment, so the name in a published record
  can be changed unnoticed.
- snark/ceremony.rs:371, 510: once phase 2 has begun, phase 1 can be initialised again and
  finalised over it; a call of `finalize_phase1_and_start_phase2` before any contribution
  loses phase 1; `finalize` consumes the coordinator on error too.
- snark/ceremony.rs:295, 350: the doc comment promises a pairing check for every power; the
  code makes it for the first. The participants of the `ceremony` run compute correctly.
- snark/examples/ceremony_cli.rs:201: every command builds a coordinator of its own without
  replaying the state file. A second contributor is therefore refused, and so is
  every `transition`, so that no file of phase 2 comes to be and `finalize` has nothing to
  work on; `verify` checks a placeholder for a proof. `FilesNameTheirContributors` holds
  because the tool refuses.

Contracts:

- contracts/Groth16Verifier.sol:71: `negate` reduces A's y coordinate before it is decoded,
  so a proof whose y has the field's modulus added is accepted as well. The public inputs
  are not affected and a mission is recorded once.
- contracts/README.md:90: "exactly two public inputs"; the circuit and the verifier have five.

## 7. What is not modelled

- Field and curve arithmetic (Poseidon, the constraint systems, the prover's half of
  Groth16, BLS, TFHE): outside the reach of TLC and TLAPS, and idealised as described. The
  constraint systems are represented by the relation that their comments and native
  predicates state; that the constraints say the same is not shown.
- The probabilistic search for primes in the provisioner (the widths a product can have
  are modelled), and the derivation of Groth16 keys from the ceremony's transcript hash.
- Memory locking and wiping (core/memory.rs, wipe.rs, redacted.rs), below the level of a
  state machine; `Mission` and `Custody` record whether the key and the identity are held.
- Handlers that return a cached value, the metrics listener, error types, the FFI shim, the
  benchmark and the rendering of deploy scripts, which keep no state of the protocol.
- The identity's keys and signatures; expiry, which nothing reads.
- The merging of configuration layers, which is the config crate's.

## 8. Plan

Done, in this order: the monitor and its proofs, because everything else relies on it; the
ledger, the agent composed with the monitor, the gate, the VDF, provisioning with the
erasure proof, the ceremony, the beacon and the registry. Then the parts around them: the
reporting handlers, the configuration and restarts in front of the gate, the mission's inputs
with the FHE engine, sequential work, the setup transcript with both provers, the
ceremony's files, the verifier contract; the abstract specifications `Custody` and `Registry`
with their refinements. Then the proofs: ledger, gate and agent with its two refinements;
startup check, reports, provisioning, setup and ceremony, evaluation, and the
verifier with the refinement of the registry.

Next, the model:

1. Mission composed with Provisioning, so that the attestation's summary is the
   monitor's own rather than a terminal one.
2. The ceremony's adversarial participants, against the check that is made of the first
   power only.

Next, the proofs:

1. `MissionProofs` and `ProvisioningProofs` joined, once their models are: that what is
   attested is the summary the monitor ended with.
2. The safety half of the liveness properties: that the steps left until erasure, and until
   the sequential work returns, only decrease.
