------------------------------ MODULE Mission ------------------------------
(***************************************************************************)
(* The agent process (chronos-agent/src/main.rs and state.rs): concurrent  *)
(* request handlers, the mission task, the watchdog and the shutdown       *)
(* signal, all arbitrated by one containment monitor.                      *)
(*                                                                         *)
(* A step of the model is what runs between two await points.  The ledger, *)
(* the start time and the identity are behind three separate mutexes, so   *)
(* the clock is read in one step and the monitor consulted in a later one. *)
(***************************************************************************)
EXTENDS Containment

CONSTANTS
    Request,        \* connections, each carrying one request at a time
    CallerTokens,   \* tokens anyone can make up
    MaxClock,       \* bound of the model on the clock, in seconds
    VdfPolls,       \* how often one VDF evaluation looks at the abort flag
    InferBits,      \* disclosure_bits of one /infer (64 in the code)
    Disconnects     \* whether a client may hang up while its request is served

ASSUME MissionAssumption ==
    /\ CallerTokens \subseteq Token
    /\ \A i \in 1 .. Len(Grants) : Grants[i].token \notin CallerTokens
    /\ MaxClock \in U64
    /\ {VdfPolls, InferBits} \subseteq U64
    /\ 1 \in U64
    /\ Disconnects \in BOOLEAN

VARIABLES
    clock,          \* seconds since start_time was set
    st,             \* the monitor's state, behind the ledger mutex
    revealed,       \* the grants the operator has handed out
    start_time,     \* whether StateMachine::start_time is set
    abort,          \* StateMachine::abort
    identity,       \* whether the IdentityManager holds a root and keys
    identity_proof, \* whether /identity/proof has a cached root and proof
    request,        \* what each connection's handler is doing
    task,           \* where run_mission is
    vdf,            \* abort polls left in the VDF evaluation
    key,            \* whether the task holds the opened secret key
    summary,        \* the task's containment_summary: none, or << state >>
    attestation,    \* AppState::attestation: none, or << state >>
    watchdog,       \* where spawn_watchdog's loop is
    shutdown        \* where the shutdown future is

shared   == << clock, st, revealed, start_time, abort, identity, identity_proof >>
mission  == << task, vdf, key, summary, attestation >>
daemons  == << watchdog, shutdown >>
vars     == << shared, request, mission, daemons >>

None == << >>

RequestKind == {"init", "infer", "veto", "correction", "identity"}

Idle == [at |-> "idle"]

\* StateMachine::elapsed_secs().unwrap_or(0)
Elapsed == IF start_time THEN clock ELSE 0

Init ==
    /\ clock = 0
    /\ st = NewState
    /\ revealed = {}
    /\ start_time = FALSE
    /\ abort = FALSE
    /\ identity = FALSE
    /\ identity_proof = FALSE
    /\ request = [r \in Request |-> Idle]
    /\ task = "none"
    /\ vdf = 0
    /\ key = FALSE
    /\ summary = None
    /\ attestation = None
    /\ watchdog = "sleeping"
    /\ shutdown = "waiting"

Running == shutdown # "exited"

---------------------------------------------------------------------------
(* StateMachine.                                                           *)

\* Mutant: erasure sets the phase without asking the monitor.
SubmitAtForced(elapsed, ev) ==
    /\ st' = IF ev.type = "Erase" THEN [st EXCEPT !.phase = Erased]
             ELSE AdmitAt(st, elapsed, ev)
    /\ abort' = (abort \/ st'.phase = Erased)

\* admit(), from the ledger lock on: push the clock in, arbitrate, and raise the
\* abort flag whenever the monitor is erased.
SubmitAt(elapsed, ev) ==
    /\ st' = AdmitAt(st, elapsed, ev)
    /\ abort' = (abort \/ st'.phase = Erased)

\* The mission task, the watchdog and the shutdown future submit events whose
\* verdict does not depend on the clock; their reading is taken with the lock.
Submit(type) == SubmitAt(Elapsed, [type |-> type])

---------------------------------------------------------------------------
(* Request handlers.                                                       *)

SetRequest(r, value) == request' = [request EXCEPT ![r] = value]

\* A request is routed to its handler, which reads the clock before it waits for
\* the ledger lock.  Draining for shutdown, the server accepts no more.
Receive(r, kind) ==
    /\ shutdown \notin {"draining", "exited"}
    /\ request[r] = Idle
    /\ SetRequest(r, [at |-> "admit", kind |-> kind, elapsed |-> Elapsed])
    /\ UNCHANGED << shared, mission, daemons >>

Arrived(r, kind) ==
    Running /\ request[r].at = "admit" /\ request[r].kind = kind

\* One event of handler r reaches the monitor; its verdict picks the next step.
Arbitrate(r, ev, admitted) ==
    /\ SubmitAt(request[r].elapsed, ev)
    /\ SetRequest(r, IF DecisionAt(st, request[r].elapsed, ev) = Admit THEN admitted ELSE Idle)
    /\ UNCHANGED << clock, revealed, start_time, identity, identity_proof, mission, daemons >>

\* Mutant: the refusal is ignored.
InitArbitrateIgnored(r) ==
    /\ Arrived(r, "init")
    /\ SubmitAt(request[r].elapsed, [type |-> "MissionInit"])
    /\ SetRequest(r, [at |-> "start"])
    /\ UNCHANGED << clock, revealed, start_time, identity, identity_proof, mission, daemons >>

\* init_handler and arm_to_active: the start time is set after the ledger lock is
\* released, and only then is the mission spawned.
InitArbitrate(r) ==
    Arrived(r, "init") /\ Arbitrate(r, [type |-> "MissionInit"], [at |-> "start"])

InitSpawn(r) ==
    /\ Running /\ request[r].at = "start"
    /\ start_time' = TRUE
    /\ clock' = 0
    /\ task' = "load"
    /\ SetRequest(r, Idle)
    /\ UNCHANGED << st, revealed, abort, identity, identity_proof, vdf, key, summary,
                    attestation, daemons >>

\* infer_handler: the declared duration is one second and the score is zero.
InferRequest ==
    [type |-> "Infer", declared_secs |-> 1, disclosure_bits |-> InferBits,
     uncertainty_score |-> 0]

InferArbitrate(r) ==
    Arrived(r, "infer") /\ Arbitrate(r, InferRequest, [at |-> "evaluate"])

\* evaluate_ciphertext answers or fails; neither touches the agent's state.
InferEvaluate(r) ==
    /\ Running /\ request[r].at = "evaluate"
    /\ SetRequest(r, Idle)
    /\ UNCHANGED << shared, mission, daemons >>

\* request_veto_handler and human_correction_handler.
VetoArbitrate(r) ==
    Arrived(r, "veto") /\ Arbitrate(r, [type |-> "RequestHumanVeto"], Idle)

KnownTokens == CallerTokens \cup {Grants[i].token : i \in revealed}

CorrectionArbitrate(r) ==
    \E grant \in CorrectionGrant :
        /\ grant.token \in KnownTokens
        /\ Arrived(r, "correction")
        /\ Arbitrate(r, [type |-> "HumanCorrection", grant |-> grant], Idle)

\* identity_proof_handler: admitted, it reads the cached root and proof, then
\* locks the identity and signs if there is anything to sign with.
IdentityArbitrate(r) ==
    Arrived(r, "identity") /\ Arbitrate(r, [type |-> "IdentityAttest"], [at |-> "cached"])

IdentityReadCache(r) ==
    /\ Running /\ request[r].at = "cached"
    /\ SetRequest(r, IF identity_proof THEN [at |-> "sign"] ELSE Idle)
    /\ UNCHANGED << shared, mission, daemons >>

IdentitySign(r) ==
    /\ Running /\ request[r].at = "sign"
    /\ SetRequest(r, Idle)
    /\ UNCHANGED << shared, mission, daemons >>

\* The client hangs up and the handler is dropped where it awaits a lock;
\* evaluating a ciphertext has no await to be dropped at.
Disconnect(r) ==
    /\ Disconnects /\ Running
    /\ request[r].at \in {"admit", "start", "cached", "sign"}
    /\ SetRequest(r, Idle)
    /\ UNCHANGED << shared, mission, daemons >>

Handler(r) ==
    \/ InitArbitrate(r) \/ InitSpawn(r) \/ InferArbitrate(r) \/ InferEvaluate(r)
    \/ VetoArbitrate(r) \/ CorrectionArbitrate(r)
    \/ IdentityArbitrate(r) \/ IdentityReadCache(r) \/ IdentitySign(r)

---------------------------------------------------------------------------
(* run_mission.                                                            *)

At(pc) == Running /\ task = pc

\* Mutant: an error path that leaves the key in memory.
FailKeepsKey ==
    /\ Running
    /\ task \in {"load", "fhe", "vdf", "open", "identify", "prove_identity", "prove"}
    /\ task' = "final_erase"
    /\ UNCHANGED << shared, request, vdf, key, summary, attestation, daemons >>

\* An error: the key, if it was opened, is wiped as it goes out of scope, and
\* run_mission goes on to erase.
Fail ==
    /\ Running
    /\ task \in {"load", "fhe", "vdf", "open", "identify", "prove_identity", "prove"}
    /\ task' = "final_erase"
    /\ key' = FALSE
    /\ UNCHANGED << shared, request, vdf, summary, attestation, daemons >>

\* 1-2. Inputs and FHE keys.
LoadInputs ==
    /\ At("load")
    /\ task' = "fhe"
    /\ UNCHANGED << shared, request, vdf, key, summary, attestation, daemons >>

GenerateFheKeys ==
    /\ At("fhe")
    /\ task' = "vdf"
    /\ vdf' = VdfPolls
    /\ UNCHANGED << shared, request, key, summary, attestation, daemons >>

\* 3. evaluate_interruptible: at each poll, stop if the flag is up, else square
\* on; the squarings after the last poll run to the end, flag or no flag.
VdfAbort ==
    /\ At("vdf") /\ vdf > 0 /\ abort
    /\ task' = "final_erase"
    /\ UNCHANGED << shared, request, vdf, key, summary, attestation, daemons >>

VdfSquare ==
    /\ At("vdf") /\ vdf > 0 /\ ~abort
    /\ vdf' = vdf - 1
    /\ UNCHANGED << shared, request, task, key, summary, attestation, daemons >>

VdfComplete ==
    /\ At("vdf") /\ vdf = 0
    /\ task' = "open"
    /\ UNCHANGED << shared, request, vdf, key, summary, attestation, daemons >>

\* 4-6. Verify the VDF, open the sealed key, match it against sk_commit.
OpenKey ==
    /\ At("open")
    /\ task' = "identify"
    /\ key' = TRUE
    /\ UNCHANGED << shared, request, vdf, summary, attestation, daemons >>

\* 7. EAIP: the identity, then the cached proof.
InitialiseIdentity ==
    /\ At("identify")
    /\ identity' = TRUE
    /\ task' = "prove_identity"
    /\ UNCHANGED << clock, st, revealed, start_time, abort, identity_proof, request, vdf, key,
                    summary, attestation, daemons >>

ProveIdentity ==
    /\ At("prove_identity")
    /\ identity_proof' = TRUE
    /\ task' = "lock"
    /\ UNCHANGED << clock, st, revealed, start_time, abort, identity, request, vdf, key,
                    summary, attestation, daemons >>

\* Mutant: the summary is taken before the monitor is erased.
LockMissionSkipsErase ==
    /\ At("lock")
    /\ Submit("KeyReleased")
    /\ task' = "summarise"
    /\ UNCHANGED << clock, revealed, start_time, identity, identity_proof, request, vdf, key,
                    summary, attestation, daemons >>

\* active_to_locked; refused, the mission fails and the key is dropped.
LockMission ==
    /\ At("lock")
    /\ Submit("KeyReleased")
    /\ \/ /\ DecisionAt(st, Elapsed, [type |-> "KeyReleased"]) = Admit
          /\ task' = "erase" /\ UNCHANGED key
       \/ /\ DecisionAt(st, Elapsed, [type |-> "KeyReleased"]) # Admit
          /\ task' = "final_erase" /\ key' = FALSE
    /\ UNCHANGED << clock, revealed, start_time, identity, identity_proof, request, vdf,
                    summary, attestation, daemons >>

\* 8. force_erased, in its two steps: the monitor, then the identity.
EraseMonitor(from, to) ==
    /\ At(from)
    /\ Submit("Erase")
    /\ task' = to
    /\ UNCHANGED << clock, revealed, start_time, identity, identity_proof, request, vdf, key,
                    summary, attestation, daemons >>

\* Mutant: erasure leaves the identity alone.
WipeIdentityLeaks(from, to) ==
    /\ At(from)
    /\ task' = to
    /\ UNCHANGED << shared, request, vdf, key, summary, attestation, daemons >>

WipeIdentity(from, to) ==
    /\ At(from)
    /\ identity' = FALSE
    /\ task' = to
    /\ UNCHANGED << clock, st, revealed, start_time, abort, identity_proof, request, vdf, key,
                    summary, attestation, daemons >>

\* Snapshot the ledger once the monitor is erased.
TakeSummary ==
    /\ At("summarise")
    /\ summary' = << st >>
    /\ task' = "prove"
    /\ UNCHANGED << shared, request, vdf, key, attestation, daemons >>

\* prove_erasure succeeds on a terminal summary only; publish what it proved.
ProveAndPublish ==
    /\ At("prove")
    /\ IsTerminal(summary[1])
    /\ attestation' = summary
    /\ task' = "drop_key"
    /\ UNCHANGED << shared, request, vdf, key, summary, daemons >>

DropKey ==
    /\ At("drop_key")
    /\ key' = FALSE
    /\ task' = "final_erase"
    /\ UNCHANGED << shared, request, vdf, summary, attestation, daemons >>

\* Every step of run_mission but the squarings themselves and the errors.
MissionStep ==
    \/ LoadInputs \/ GenerateFheKeys \/ VdfAbort \/ VdfComplete \/ OpenKey
    \/ InitialiseIdentity \/ ProveIdentity \/ LockMission
    \/ EraseMonitor("erase", "wipe") \/ WipeIdentity("wipe", "summarise")
    \/ TakeSummary \/ ProveAndPublish \/ DropKey
    \/ EraseMonitor("final_erase", "final_wipe") \/ WipeIdentity("final_wipe", "done")

RunMission == VdfSquare \/ Fail \/ MissionStep

---------------------------------------------------------------------------
(* spawn_watchdog: sleep, look at the phase, look at the clock, erase.     *)

\* Mutant: an armed agent is not worth watching.
WatchdogWakeReturns ==
    /\ Running /\ watchdog = "sleeping"
    /\ watchdog' = IF st.phase \in {Erased, Armed} THEN "returned" ELSE "timing"
    /\ UNCHANGED << shared, request, mission, shutdown >>

WatchdogWake ==
    /\ Running /\ watchdog = "sleeping"
    /\ watchdog' = CASE st.phase = Erased -> "returned"
                     [] st.phase = Armed  -> "sleeping"
                     [] OTHER             -> "timing"
    /\ UNCHANGED << shared, request, mission, shutdown >>

WatchdogTime ==
    /\ Running /\ watchdog = "timing"
    /\ \/ /\ start_time /\ Elapsed >= DeadlineSecs
          /\ watchdog' = "erasing"
          /\ abort' = TRUE
       \/ /\ ~start_time \/ Elapsed < DeadlineSecs
          /\ watchdog' = "sleeping"
          /\ UNCHANGED abort
    /\ UNCHANGED << clock, st, revealed, start_time, identity, identity_proof, request,
                    mission, shutdown >>

WatchdogErase ==
    /\ Running /\ watchdog = "erasing"
    /\ Submit("Erase")
    /\ watchdog' = "wiping"
    /\ UNCHANGED << clock, revealed, start_time, identity, identity_proof, request, mission,
                    shutdown >>

WatchdogWipe ==
    /\ Running /\ watchdog = "wiping"
    /\ identity' = FALSE
    /\ watchdog' = "returned"
    /\ UNCHANGED << clock, st, revealed, start_time, abort, identity_proof, request, mission,
                    shutdown >>

Watchdog == WatchdogWake \/ WatchdogTime \/ WatchdogErase \/ WatchdogWipe

---------------------------------------------------------------------------
(* The shutdown future of main().                                          *)

Signal ==
    /\ shutdown = "waiting"
    /\ shutdown' = "erasing"
    /\ UNCHANGED << shared, request, mission, watchdog >>

ShutdownErase ==
    /\ shutdown = "erasing"
    /\ Submit("Erase")
    /\ shutdown' = "wiping"
    /\ UNCHANGED << clock, revealed, start_time, identity, identity_proof, request, mission,
                    watchdog >>

ShutdownWipe ==
    /\ shutdown = "wiping"
    /\ identity' = FALSE
    /\ shutdown' = "draining"
    /\ UNCHANGED << clock, st, revealed, start_time, abort, identity_proof, request, mission,
                    watchdog >>

\* Requests in flight are let finish; then main() returns, and dropping the
\* runtime drops the mission task and all it holds.
Exit ==
    /\ shutdown = "draining"
    /\ \A r \in Request : request[r] = Idle
    /\ shutdown' = "exited"
    /\ key' = FALSE
    /\ identity' = FALSE
    /\ UNCHANGED << clock, st, revealed, start_time, abort, identity_proof, request, task, vdf,
                    summary, attestation, watchdog >>

Shutdown == ShutdownErase \/ ShutdownWipe \/ Exit

---------------------------------------------------------------------------
(* The world, and the specification.                                       *)

Tick ==
    /\ Running /\ start_time /\ clock < MaxClock
    /\ clock' = clock + 1
    /\ UNCHANGED << st, revealed, start_time, abort, identity, identity_proof, request, mission,
                    daemons >>

RevealGrant ==
    \E i \in (1 .. Len(Grants)) \ revealed :
        /\ Running
        /\ revealed' = revealed \cup {i}
        /\ UNCHANGED << clock, st, start_time, abort, identity, identity_proof, request, mission,
                        daemons >>

Next ==
    \/ \E r \in Request, kind \in RequestKind : Receive(r, kind)
    \/ \E r \in Request : Handler(r) \/ Disconnect(r)
    \/ RunMission \/ Watchdog \/ Signal \/ Shutdown \/ Tick \/ RevealGrant

Spec == Init /\ [][Next]_vars

\* Tokio polls every ready task, a mutex is handed on in order of arrival, proving
\* and key generation end, and time passes.  Nobody has to send a request, a grant
\* or a signal, nothing has to fail, and no progress of the VDF is assumed between
\* two polls of the abort flag: on a slow host it may take any time.
Fairness ==
    /\ \A r \in Request : WF_vars(Handler(r))
    /\ WF_vars(MissionStep)
    /\ WF_vars(Watchdog)
    /\ WF_vars(Shutdown)
    /\ WF_vars(Tick)

FairSpec == Spec /\ Fairness

---------------------------------------------------------------------------
(* Properties.                                                             *)

\* Whatever the handlers, the mission, the watchdog and the signal do, the
\* monitor sees a legal sequence of calls: the agent implements the monitor.
Monitor == INSTANCE ContainmentMonitor WITH st <- st, revealed <- revealed,
                                            CallerTokens <- CallerTokens
MonitorSpec == Monitor!MonitorSpec

\* init_handler, run_mission and force_erased against the promise made about the
\* key and the identity: a second /mission/init, even one in flight beside the
\* first, never has the key opened again; no wipe comes undone, however it races
\* with the identity being set up; and what is attested is a key that was held and a
\* monitor that was erased.
KeyCustody ==
    IF key THEN "held"
    ELSE IF task \in {"none", "load", "fhe", "vdf", "open"} THEN "sealed" ELSE "gone"
IdentityCustody ==
    IF identity THEN "held"
    ELSE IF KeyCustody = "sealed" \/ (key /\ task = "identify") THEN "none" ELSE "gone"
Promised == INSTANCE Custody WITH
                key <- KeyCustody, identity <- IdentityCustody,
                erased <- st.phase = Erased, attested <- attestation # None
CustodySpec == Promised!Spec

\* The order of step 8 in run_mission: the summary is taken of a monitor that is
\* terminal, whoever erased it, so the circuit never refuses a mission that got this
\* far; and it stays true: no later request changes any figure of it (the clock is
\* not part of the summary), while it is proved or after it is published.
SummaryIsFinal ==
    summary # None =>
        /\ IsTerminal(summary[1])
        /\ [summary[1] EXCEPT !.elapsed_secs = 0] = [st EXCEPT !.elapsed_secs = 0]

\* run_mission ends erased and empty-handed on every path, a watchdog or a
\* shutdown racing with the identity being set up included.
MissionEndsClean ==
    task = "done" => st.phase = Erased /\ ~key /\ ~identity

\* MOTIVATION.md:28: the agent cannot continue operating past its mission
\* deadline.  Started, it is eventually erased.
DeadlineErases == st.phase = Active ~> st.phase = Erased

\* Erasure completes: however it was triggered, from some point on neither the
\* key nor the identity is held any more.
ErasureCompletes == st.phase = Erased ~> [](~key /\ ~identity)
===========================================================================
