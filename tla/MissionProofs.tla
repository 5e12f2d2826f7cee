--------------------------- MODULE MissionProofs ---------------------------
(***************************************************************************)
(* The agent's races, for any number of connections, any grants, budgets   *)
(* and clock: the mission ends clean, what it attests stays true, and it   *)
(* keeps the custody that it promises.                                     *)
(***************************************************************************)
EXTENDS Mission, ContainmentProofs

\* Where run_mission has not opened the key yet, and where it holds it.
Sealed == {"none", "load", "fhe", "vdf", "open"}
Holding == {"identify", "prove_identity", "lock", "erase", "wipe", "summarise", "prove",
            "drop_key"}
Ending == {"final_erase", "final_wipe", "done"}

RequestState ==
    {Idle} \cup [at : {"admit"}, kind : RequestKind, elapsed : U64]
           \cup [at : {"start", "evaluate", "cached", "sign"}]

AgentType ==
    /\ clock \in 0 .. MaxClock
    /\ start_time \in BOOLEAN /\ key \in BOOLEAN /\ identity \in BOOLEAN
    /\ request \in [Request -> RequestState]
    /\ task \in Sealed \cup Holding \cup Ending

MonitorHolds == Sound(st) /\ AnchorOnChain(st)

\* The mission is spawned by the one handler that had it admitted, once.
OneMission ==
    /\ task # "none" => st.phase # Armed
    /\ \A r \in Request : request[r].at = "start" => task = "none" /\ st.phase # Armed
    /\ \A q, r \in Request : request[q].at = "start" /\ request[r].at = "start" => q = r

\* The key and the identity are where run_mission is.
KeysFollowTask ==
    /\ key => task \in Holding
    /\ Running /\ task \in Holding => key
    /\ identity => task \notin Sealed \cup {"identify", "done"}

\* From the erasure in step 8 on, the monitor is erased; what is published was
\* summarised.
ErasureFollowsTask ==
    /\ task \in {"wipe", "summarise", "prove", "drop_key", "final_wipe", "done"}
           => st.phase = Erased
    /\ task = "prove" => summary # None
    /\ attestation # None => task \in {"drop_key"} \cup Ending

AInv ==
    /\ AgentType
    /\ MonitorHolds
    /\ OneMission
    /\ KeysFollowTask
    /\ ErasureFollowsTask
    /\ SummaryIsFinal

---------------------------------------------------------------------------
(* What an event does to the monitor.                                      *)

\* An erased monitor stays as it is, but for the clock.
LEMMA ErasedIsFixed ==
    ASSUME NEW s, Sound(s), s.phase = Erased, NEW ev \in Event
    PROVE  Step(s, ev) = s
PROOF
  <1>1. /\ s \in ContainmentState
        /\ s.granted = {"ERASURE_ATTEST"}
        /\ s.op_budget = 0 /\ s.disclosure_budget_bits = 0
    BY DEF Sound, SatisfiesTerminalState, ExpectedFinalGranted
  <1>2. AfterErase(s) = s
    BY <1>1 DEF AfterErase, ContainmentState
  <1>3. CASE ev.type \in {"Erase", "WatchdogExpiry"}
    BY <1>2, <1>3 DEF Step, Effect
  <1>4. CASE ev.type \in {"MissionInit", "KeyReleased", "Infer", "HumanCorrection"}
    <2>1. Decide(s, ev) # Admit
      BY <1>4 DEF Decide, DecideIn, DecideInfer, DecideCorrection, Require, Admit, Armed,
                  Active, Locked, Erased
    <2> QED BY <2>1 DEF Step
  <1>5. CASE ev.type \in {"IdentityAttest", "ErasureAttest", "RequestHumanVeto"}
    BY <1>5 DEF Step, Effect
  <1> QED BY <1>3, <1>4, <1>5 DEF Event, PlainEvent, InferEvent, CorrectionEvent

\* An event leaves the lattice's order alone: nothing is armed or unerased again,
\* and the figures of an erased monitor are final.
LEMMA AdmitMoves ==
    ASSUME NEW s, Sound(s), AnchorOnChain(s), NEW elapsed \in U64, NEW ev \in Event
    PROVE  LET next == AdmitAt(s, elapsed, ev)
           IN  /\ Sound(next) /\ AnchorOnChain(next)
               /\ s.phase # Armed => next.phase # Armed
               /\ s.phase = Erased =>
                     /\ next.phase = Erased
                     /\ [next EXCEPT !.elapsed_secs = 0] = [s EXCEPT !.elapsed_secs = 0]
PROOF
  <1> DEFINE now == WithElapsed(s, elapsed)
             next == AdmitAt(s, elapsed, ev)
  <1>1. /\ next = Step(now, ev)
        /\ Sound(next) /\ AnchorOnChain(next)
    BY AdmitSound
  <1>2. Sound(now) /\ AnchorOnChain(now)
    BY WithElapsedSound
  <1>3. s \in ContainmentState /\ now \in ContainmentState /\ next \in ContainmentState
    BY <1>1, <1>2 DEF Sound
  <1>4. /\ now.phase = s.phase
        /\ [now EXCEPT !.elapsed_secs = 0] = [s EXCEPT !.elapsed_secs = 0]
    BY <1>3 DEF WithElapsed, ContainmentState
  <1>5. next.phase >= s.phase
    BY <1>1, <1>2, <1>4, StepSound DEF Precedes
  <1>6. s.phase # Armed => next.phase # Armed
    BY <1>3, <1>5 DEF ContainmentState, Armed, Erased
  <1>7. s.phase = Erased => next = now
    BY <1>1, <1>2, <1>4, ErasedIsFixed
  <1> QED BY <1>1, <1>4, <1>6, <1>7

\* The verdicts that the agent goes on from.
LEMMA Verdicts ==
    ASSUME NEW s, Sound(s), AnchorOnChain(s), NEW elapsed \in U64
    PROVE  /\ AdmitAt(s, elapsed, [type |-> "Erase"]).phase = Erased
           /\ LET next == AdmitAt(s, elapsed, [type |-> "KeyReleased"])
              IN  next.phase = Erased <=> s.phase = Erased
           /\ DecisionAt(s, elapsed, [type |-> "MissionInit"]) = Admit =>
                 /\ s.phase = Armed
                 /\ AdmitAt(s, elapsed, [type |-> "MissionInit"]).phase # Armed
PROOF
  <1> DEFINE now == WithElapsed(s, elapsed)
             Plain(t) == [type |-> t]
  <1>1. Sound(now) /\ now \in ContainmentState /\ now.phase = s.phase
    BY WithElapsedSound DEF Sound, ContainmentState, WithElapsed
  <1>2. \A t \in {"Erase", "KeyReleased", "MissionInit"} :
            /\ Plain(t) \in Event
            /\ AdmitAt(s, elapsed, Plain(t)) = Step(now, Plain(t))
    BY AdmitSound DEF Event, PlainEvent
  <1>3. Step(now, Plain("Erase")).phase = Erased
    BY <1>1 DEF Step, Decide, Effect, AfterErase, ContainmentState
  <1>4. Step(now, Plain("KeyReleased")).phase = Erased <=> s.phase = Erased
    BY <1>1 DEF Step, Decide, Require, Admit, Effect, AfterKeyReleased, ContainmentState,
                Active, Locked, Erased
  <1>5. DecisionAt(s, elapsed, Plain("MissionInit")) = Admit =>
            s.phase = Armed /\ Step(now, Plain("MissionInit")).phase # Armed
    <2>1. /\ Decide(now, Plain("MissionInit")) = DecideIn(now, {Armed}, "MISSION_INIT")
          /\ Effect(now, Plain("MissionInit")) = AfterMissionInit(now)
      BY DEF Decide, Effect
    <2>2. DecideIn(now, {Armed}, "MISSION_INIT") = Admit => now.phase = Armed
      BY DEF DecideIn, Require, Admit
    <2>3. AfterMissionInit(now).phase # Armed
      BY <1>1 DEF AfterMissionInit, ContainmentState, Armed, Active
    <2> QED BY <1>1, <2>1, <2>2, <2>3 DEF DecisionAt, Step
  <1> QED BY <1>2, <1>3, <1>4, <1>5

---------------------------------------------------------------------------
(* The invariant.                                                          *)

LEMMA InitAInv == Init => AInv
PROOF
  <1> SUFFICES ASSUME Init
               PROVE  AInv
    OBVIOUS
  <1>1. 0 \in 0 .. MaxClock
    BY MissionAssumption DEF U64
  <1>2. \A r \in Request : request[r].at # "start"
    BY DEF Init, Idle
  <1>3. AgentType
    BY <1>1 DEF Init, AgentType, RequestState, Sealed
  <1>4. MonitorHolds
    BY NewStateSound DEF Init, MonitorHolds
  <1>5. OneMission
    BY <1>2 DEF Init, OneMission
  <1>6. KeysFollowTask /\ ErasureFollowsTask /\ SummaryIsFinal
    BY DEF Init, Running, KeysFollowTask, ErasureFollowsTask, SummaryIsFinal, Sealed, Holding
  <1> QED BY <1>3, <1>4, <1>5, <1>6 DEF AInv

\* A reading of the clock fits the ledger's.
LEMMA ElapsedInRange == AgentType => Elapsed \in U64
  BY MissionAssumption, WidthAssumption DEF AgentType, Elapsed, U64

\* Submitting an event, whoever does it, leaves the monitor's part of the invariant.
LEMMA SubmitPreserves ==
    ASSUME AInv, NEW elapsed \in U64, NEW ev \in Event, SubmitAt(elapsed, ev)
    PROVE  /\ MonitorHolds'
           /\ st.phase # Armed => st'.phase # Armed
           /\ st.phase = Erased => st'.phase = Erased
           /\ summary' = summary => SummaryIsFinal'
PROOF
  <1>1. /\ Sound(st') /\ AnchorOnChain(st')
        /\ st.phase # Armed => st'.phase # Armed
        /\ st.phase = Erased =>
              /\ st'.phase = Erased
              /\ [st' EXCEPT !.elapsed_secs = 0] = [st EXCEPT !.elapsed_secs = 0]
    BY AdmitMoves DEF AInv, MonitorHolds, SubmitAt
  <1>2. summary # None => st.phase = Erased
    <2> SUFFICES ASSUME summary # None
                 PROVE  st.phase = Erased
      OBVIOUS
    <2>1. /\ summary[1].phase = Erased
          /\ [summary[1] EXCEPT !.elapsed_secs = 0] = [st EXCEPT !.elapsed_secs = 0]
      BY DEF AInv, SummaryIsFinal, IsTerminal, SatisfiesTerminalState
    <2>2. [summary[1] EXCEPT !.elapsed_secs = 0].phase = [st EXCEPT !.elapsed_secs = 0].phase
      BY <2>1
    <2> QED BY <2>1, <2>2
  <1>3. summary' = summary => SummaryIsFinal'
    BY <1>1, <1>2 DEF AInv, SummaryIsFinal
  <1> QED BY <1>1, <1>3 DEF MonitorHolds

---------------------------------------------------------------------------
(* Request handlers.                                                       *)

\* A handler that goes on, or ends, without a new mission.
LEMMA HandlerMoves ==
    ASSUME AInv, NEW r \in Request, NEW value \in RequestState, value.at # "start",
           SetRequest(r, value)
    PROVE  /\ request' \in [Request -> RequestState]
           /\ \A q \in Request : request'[q].at = "start" => request[q].at = "start"
  BY DEF AInv, AgentType, SetRequest

\* An event whose admission does not start the mission.
LEMMA ArbitratePreserves ==
    ASSUME AInv, NEW r \in Request, NEW ev \in Event, NEW admitted \in RequestState,
           admitted.at # "start", request[r].at = "admit", Arbitrate(r, ev, admitted)
    PROVE  AInv'
PROOF
  <1>1. request[r].elapsed \in U64
    BY DEF AInv, AgentType, RequestState, Idle
  <1>2. /\ MonitorHolds'
        /\ st.phase # Armed => st'.phase # Armed
        /\ st.phase = Erased => st'.phase = Erased
        /\ SummaryIsFinal'
    BY <1>1, SubmitPreserves DEF Arbitrate, mission
  <1>3. Idle \in RequestState /\ Idle.at # "start"
    BY DEF RequestState, Idle
  <1>4. PICK value \in RequestState : value.at # "start" /\ SetRequest(r, value)
    BY <1>3 DEF Arbitrate
  <1>5. /\ request' \in [Request -> RequestState]
        /\ \A q \in Request : request'[q].at = "start" => request[q].at = "start"
    BY <1>4, HandlerMoves
  <1>6. UNCHANGED << clock, start_time, identity, mission, daemons >>
    BY DEF Arbitrate
  <1>7. AgentType'
    BY <1>5, <1>6 DEF AInv, AgentType, mission
  <1>8. OneMission'
    BY <1>2, <1>5, <1>6 DEF AInv, OneMission, mission
  <1>9. KeysFollowTask' /\ ErasureFollowsTask'
    BY <1>2, <1>6 DEF AInv, KeysFollowTask, ErasureFollowsTask, Running, mission, daemons
  <1> QED BY <1>2, <1>7, <1>8, <1>9 DEF AInv

\* The event that starts it: only an armed monitor admits it, when nobody has
\* started a mission yet.
LEMMA InitArbitratePreserves ==
    ASSUME AInv, NEW r \in Request, InitArbitrate(r)
    PROVE  AInv'
PROOF
  <1> DEFINE ev == [type |-> "MissionInit"]
             verdict == DecisionAt(st, request[r].elapsed, ev)
  <1>1. /\ request[r].at = "admit"
        /\ Arbitrate(r, ev, [at |-> "start"])
    BY DEF InitArbitrate, Arrived
  <1>2. ev \in Event /\ request[r].elapsed \in U64
    BY <1>1 DEF AInv, AgentType, RequestState, Idle, Event, PlainEvent
  <1>3. /\ MonitorHolds'
        /\ st.phase # Armed => st'.phase # Armed
        /\ st.phase = Erased => st'.phase = Erased
        /\ SummaryIsFinal'
    BY <1>1, <1>2, SubmitPreserves DEF Arbitrate, mission
  <1>4. UNCHANGED << clock, start_time, identity, mission, daemons >>
    BY <1>1 DEF Arbitrate
  <1>5. AgentType'
    <2>1. [at |-> "start"] \in RequestState /\ Idle \in RequestState
      BY DEF RequestState
    <2>2. request' \in [Request -> RequestState]
      BY <1>1, <2>1 DEF AInv, AgentType, Arbitrate, SetRequest
    <2> QED BY <1>4, <2>2 DEF AInv, AgentType, mission
  <1>6. OneMission'
    <2>1. CASE verdict = Admit
      <3>1. st.phase = Armed /\ st'.phase # Armed
        BY <1>1, <1>2, <2>1, Verdicts DEF AInv, MonitorHolds, Arbitrate, SubmitAt
      <3>2. task = "none" /\ \A q \in Request : request[q].at # "start"
        BY <3>1 DEF AInv, OneMission
      <3>3. request' = [request EXCEPT ![r] = [at |-> "start"]]
        BY <1>1, <2>1 DEF Arbitrate, SetRequest
      <3>4. \A q \in Request : request'[q].at = "start" => q = r
        BY <3>2, <3>3 DEF AInv, AgentType
      <3> QED BY <1>4, <3>1, <3>2, <3>4 DEF OneMission, mission
    <2>2. CASE verdict # Admit
      <3>1. request' = [request EXCEPT ![r] = Idle]
        BY <1>1, <2>2 DEF Arbitrate, SetRequest
      <3>2. \A q \in Request : request'[q].at = "start" => request[q].at = "start"
        BY <3>1 DEF AInv, AgentType, Idle
      <3> QED BY <1>3, <1>4, <3>2 DEF AInv, OneMission, mission
    <2> QED BY <2>1, <2>2
  <1>7. KeysFollowTask' /\ ErasureFollowsTask'
    BY <1>3, <1>4 DEF AInv, KeysFollowTask, ErasureFollowsTask, Running, mission, daemons
  <1> QED BY <1>3, <1>5, <1>6, <1>7 DEF AInv

\* Spawning the mission uses up the permission.
LEMMA InitSpawnPreserves ==
    ASSUME AInv, NEW r \in Request, InitSpawn(r)
    PROVE  AInv'
PROOF
  <1>1. /\ request[r].at = "start" /\ task = "none" /\ st.phase # Armed
        /\ request' = [request EXCEPT ![r] = Idle]
        /\ task' = "load" /\ clock' = 0 /\ start_time' = TRUE
        /\ UNCHANGED << st, identity, key, summary, attestation, daemons >>
    BY DEF InitSpawn, AInv, OneMission, SetRequest
  <1>2. AgentType'
    BY <1>1, MissionAssumption DEF AInv, AgentType, RequestState, Sealed, U64
  <1>3. OneMission'
    <2>1. \A q \in Request : request'[q].at # "start"
      BY <1>1 DEF AInv, AgentType, OneMission, Idle
    <2> QED BY <1>1, <2>1 DEF OneMission
  <1>4. MonitorHolds' /\ SummaryIsFinal'
    BY <1>1 DEF AInv, MonitorHolds, SummaryIsFinal
  <1>5. KeysFollowTask' /\ ErasureFollowsTask'
    BY <1>1 DEF AInv, KeysFollowTask, ErasureFollowsTask, Running, Sealed, Holding, Ending,
                daemons
  <1> QED BY <1>2, <1>3, <1>4, <1>5 DEF AInv

\* A request comes, goes on without the monitor, or is dropped.
LEMMA RequestMovePreserves ==
    ASSUME AInv, NEW r \in Request, NEW value \in RequestState, value.at # "start",
           SetRequest(r, value), UNCHANGED << shared, mission, daemons >>
    PROVE  AInv'
PROOF
  <1>1. /\ request' \in [Request -> RequestState]
        /\ \A q \in Request : request'[q].at = "start" => request[q].at = "start"
    BY HandlerMoves
  <1>2. AgentType' /\ OneMission'
    BY <1>1 DEF AInv, AgentType, OneMission, shared, mission
  <1>3. MonitorHolds' /\ SummaryIsFinal' /\ KeysFollowTask' /\ ErasureFollowsTask'
    BY DEF AInv, MonitorHolds, SummaryIsFinal, KeysFollowTask, ErasureFollowsTask, Running,
           shared, mission, daemons
  <1> QED BY <1>2, <1>3 DEF AInv

LEMMA RequestPreserves ==
    ASSUME AInv, NEW r \in Request,
           \/ \E kind \in RequestKind : Receive(r, kind)
           \/ Handler(r)
           \/ Disconnect(r)
    PROVE  AInv'
PROOF
  <1>0. /\ Idle \in RequestState /\ Idle.at # "start"
        /\ \A at \in {"evaluate", "cached", "sign"} : [at |-> at] \in RequestState
    BY DEF RequestState, Idle
  <1>1. ASSUME NEW kind \in RequestKind, Receive(r, kind)
        PROVE  AInv'
    <2>1. Elapsed \in U64
      BY ElapsedInRange DEF AInv
    <2>2. [at |-> "admit", kind |-> kind, elapsed |-> Elapsed] \in RequestState
      BY <2>1 DEF RequestState
    <2> QED BY <1>1, <2>2, RequestMovePreserves DEF Receive
  <1>2. CASE InitArbitrate(r)
    BY <1>2, InitArbitratePreserves
  <1>3. CASE InitSpawn(r)
    BY <1>3, InitSpawnPreserves
  <1>4. CASE InferArbitrate(r)
    <2>1. InferRequest \in Event
      BY MissionAssumption, WidthAssumption DEF InferRequest, Event, InferEvent, U64
    <2> QED BY <1>0, <1>4, <2>1, ArbitratePreserves DEF InferArbitrate, Arrived
  <1>5. CASE VetoArbitrate(r)
    <2>1. [type |-> "RequestHumanVeto"] \in Event
      BY DEF Event, PlainEvent
    <2> QED BY <1>0, <1>5, <2>1, ArbitratePreserves DEF VetoArbitrate, Arrived
  <1>6. CASE CorrectionArbitrate(r)
    <2>1. PICK grant \in CorrectionGrant :
              /\ request[r].at = "admit"
              /\ Arbitrate(r, [type |-> "HumanCorrection", grant |-> grant], Idle)
      BY <1>6 DEF CorrectionArbitrate, Arrived
    <2>2. [type |-> "HumanCorrection", grant |-> grant] \in Event
      BY DEF Event, CorrectionEvent
    <2> QED BY <1>0, <2>1, <2>2, ArbitratePreserves
  <1>7. CASE IdentityArbitrate(r)
    <2>1. [type |-> "IdentityAttest"] \in Event
      BY DEF Event, PlainEvent
    <2> QED BY <1>0, <1>7, <2>1, ArbitratePreserves DEF IdentityArbitrate, Arrived
  <1>8. CASE InferEvaluate(r) \/ IdentityReadCache(r) \/ IdentitySign(r) \/ Disconnect(r)
    <2>1. PICK value \in RequestState :
              /\ value.at # "start" /\ SetRequest(r, value)
              /\ UNCHANGED << shared, mission, daemons >>
      BY <1>0, <1>8 DEF InferEvaluate, IdentityReadCache, IdentitySign, Disconnect
    <2> QED BY <2>1, RequestMovePreserves
  <1> QED BY <1>1, <1>2, <1>3, <1>4, <1>5, <1>6, <1>7, <1>8 DEF Handler

---------------------------------------------------------------------------
(* run_mission.                                                            *)

\* What every step of the task keeps that leaves the monitor alone.
LEMMA TaskMoves ==
    ASSUME AInv, UNCHANGED << clock, st, start_time, request >>,
           task # "none", task' \in Holding \cup Ending \cup (Sealed \ {"none"}),
           key' \in BOOLEAN, identity' \in BOOLEAN
    PROVE  AgentType' /\ MonitorHolds' /\ OneMission'
PROOF
  <1>1. AgentType'
    BY DEF AInv, AgentType
  <1>2. MonitorHolds'
    BY DEF AInv, MonitorHolds
  <1>3. OneMission'
    BY DEF AInv, OneMission
  <1> QED BY <1>1, <1>2, <1>3

\* The same for a step that submits an event.
LEMMA TaskSubmits ==
    ASSUME AInv, NEW type \in {"KeyReleased", "Erase"}, Submit(type),
           UNCHANGED << clock, start_time, request, identity, summary >>,
           task # "none", task' \in Holding \cup Ending, key' \in BOOLEAN
    PROVE  /\ AgentType' /\ MonitorHolds' /\ OneMission' /\ SummaryIsFinal'
           /\ st.phase = Erased => st'.phase = Erased
           /\ type = "Erase" => st'.phase = Erased
           /\ type = "KeyReleased" => (st'.phase = Erased <=> st.phase = Erased)
PROOF
  <1>1. Elapsed \in U64 /\ [type |-> type] \in Event
    BY ElapsedInRange DEF AInv, Event, PlainEvent
  <1>2. /\ MonitorHolds' /\ SummaryIsFinal'
        /\ st.phase # Armed => st'.phase # Armed
        /\ st.phase = Erased => st'.phase = Erased
    BY <1>1, SubmitPreserves DEF Submit
  <1>3. AgentType'
    BY DEF AInv, AgentType
  <1>4. OneMission'
    BY <1>2 DEF AInv, OneMission
  <1>5. /\ type = "Erase" => st'.phase = Erased
        /\ type = "KeyReleased" => (st'.phase = Erased <=> st.phase = Erased)
    BY <1>1, Verdicts DEF AInv, MonitorHolds, Submit, SubmitAt
  <1> QED BY <1>2, <1>3, <1>4, <1>5

\* The steps before the key is opened, and the failures.
LEMMA SealedStepPreserves ==
    ASSUME AInv,
           LoadInputs \/ GenerateFheKeys \/ VdfAbort \/ VdfSquare \/ VdfComplete \/ Fail
    PROVE  AInv'
PROOF
  <1>1. /\ task \in Sealed \cup {"identify", "prove_identity", "prove"} /\ task # "none"
        /\ task' \in (Sealed \ {"none"}) \cup {"final_erase"}
        /\ task' # "final_erase" => task \in Sealed /\ key' = key
        /\ key' = key \/ key' = FALSE
        /\ task \notin Sealed => key' = FALSE
        /\ task = "prove" => task' = "final_erase"
        /\ UNCHANGED << shared, request, summary, attestation, daemons >>
    BY DEF LoadInputs, GenerateFheKeys, VdfAbort, VdfSquare, VdfComplete, Fail, At, Sealed
  <1>2. AgentType' /\ MonitorHolds' /\ OneMission'
    BY <1>1, TaskMoves DEF AInv, AgentType, shared, Ending
  <1>3. KeysFollowTask'
    BY <1>1 DEF AInv, KeysFollowTask, Running, Sealed, Holding, shared, daemons
  <1>4. ErasureFollowsTask' /\ SummaryIsFinal'
    BY <1>1 DEF AInv, ErasureFollowsTask, SummaryIsFinal, Sealed, Ending, shared
  <1> QED BY <1>2, <1>3, <1>4 DEF AInv

\* Opening the key, the identity, publishing, and dropping the key.
LEMMA HoldingStepPreserves ==
    ASSUME AInv,
           OpenKey \/ InitialiseIdentity \/ ProveIdentity \/ ProveAndPublish \/ DropKey
    PROVE  AInv'
PROOF
  <1>1. CASE OpenKey
    <2>1. /\ task = "open" /\ task' = "identify" /\ key' = TRUE
          /\ UNCHANGED << shared, request, summary, attestation, daemons >>
      BY <1>1 DEF OpenKey, At
    <2>2. AgentType' /\ MonitorHolds' /\ OneMission'
      BY <2>1, TaskMoves DEF AInv, AgentType, shared, Holding
    <2>3. KeysFollowTask' /\ ErasureFollowsTask' /\ SummaryIsFinal'
      BY <2>1 DEF AInv, KeysFollowTask, ErasureFollowsTask, SummaryIsFinal, Running, Sealed,
                  Holding, Ending, shared, daemons
    <2> QED BY <2>2, <2>3 DEF AInv
  <1>2. CASE InitialiseIdentity
    <2>1. /\ Running /\ task = "identify" /\ task' = "prove_identity" /\ identity' = TRUE
          /\ UNCHANGED << clock, st, start_time, request, key, summary, attestation, daemons >>
      BY <1>2 DEF InitialiseIdentity, At
    <2>2. AgentType' /\ MonitorHolds' /\ OneMission'
      BY <2>1, TaskMoves DEF AInv, AgentType, Holding
    <2>3. KeysFollowTask' /\ ErasureFollowsTask' /\ SummaryIsFinal'
      BY <2>1 DEF AInv, KeysFollowTask, ErasureFollowsTask, SummaryIsFinal, Running, Sealed,
                  Holding, Ending, daemons
    <2> QED BY <2>2, <2>3 DEF AInv
  <1>3. CASE ProveIdentity
    <2>1. /\ Running /\ task = "prove_identity" /\ task' = "lock"
          /\ UNCHANGED << clock, st, start_time, identity, request, key, summary, attestation,
                          daemons >>
      BY <1>3 DEF ProveIdentity, At
    <2>2. AgentType' /\ MonitorHolds' /\ OneMission'
      BY <2>1, TaskMoves DEF AInv, AgentType, Holding
    <2>3. KeysFollowTask' /\ ErasureFollowsTask' /\ SummaryIsFinal'
      BY <2>1 DEF AInv, KeysFollowTask, ErasureFollowsTask, SummaryIsFinal, Running, Sealed,
                  Holding, Ending, daemons
    <2> QED BY <2>2, <2>3 DEF AInv
  <1>4. CASE ProveAndPublish
    <2>1. /\ Running /\ task = "prove" /\ task' = "drop_key" /\ attestation' = summary
          /\ UNCHANGED << shared, request, key, summary, daemons >>
      BY <1>4 DEF ProveAndPublish, At
    <2>2. AgentType' /\ MonitorHolds' /\ OneMission'
      BY <2>1, TaskMoves DEF AInv, AgentType, shared, Holding
    <2>3. KeysFollowTask' /\ ErasureFollowsTask' /\ SummaryIsFinal'
      BY <2>1 DEF AInv, KeysFollowTask, ErasureFollowsTask, SummaryIsFinal, Running, Sealed,
                  Holding, Ending, shared, daemons
    <2> QED BY <2>2, <2>3 DEF AInv
  <1>5. CASE DropKey
    <2>1. /\ Running /\ task = "drop_key" /\ task' = "final_erase" /\ key' = FALSE
          /\ UNCHANGED << shared, request, summary, attestation, daemons >>
      BY <1>5 DEF DropKey, At
    <2>2. AgentType' /\ MonitorHolds' /\ OneMission'
      BY <2>1, TaskMoves DEF AInv, AgentType, shared, Ending
    <2>3. KeysFollowTask' /\ ErasureFollowsTask' /\ SummaryIsFinal'
      BY <2>1 DEF AInv, KeysFollowTask, ErasureFollowsTask, SummaryIsFinal, Running, Sealed,
                  Holding, Ending, shared, daemons
    <2> QED BY <2>2, <2>3 DEF AInv
  <1> QED BY <1>1, <1>2, <1>3, <1>4, <1>5

\* The summary of an erased monitor is one that the circuit accepts.
LEMMA TakeSummaryPreserves ==
    ASSUME AInv, TakeSummary
    PROVE  AInv'
PROOF
  <1>1. /\ Running /\ task = "summarise" /\ task' = "prove" /\ summary' = << st >>
        /\ UNCHANGED << shared, request, key, attestation, daemons >>
    BY DEF TakeSummary, At
  <1>2. AgentType' /\ MonitorHolds' /\ OneMission'
    BY <1>1, TaskMoves DEF AInv, AgentType, shared, Holding
  <1>3. IsTerminal(st)
    BY <1>1, SoundSatisfiesA6 DEF AInv, ErasureFollowsTask, MonitorHolds, Sound, IsTerminal
  <1>4. SummaryIsFinal'
    BY <1>1, <1>3 DEF SummaryIsFinal, shared
  <1>5. KeysFollowTask' /\ ErasureFollowsTask'
    BY <1>1 DEF AInv, KeysFollowTask, ErasureFollowsTask, None, Running, Sealed, Holding,
                Ending, shared, daemons
  <1> QED BY <1>2, <1>4, <1>5 DEF AInv

\* Locking: refused, the mission drops the key.
LEMMA LockMissionPreserves ==
    ASSUME AInv, LockMission
    PROVE  AInv'
PROOF
  <1>1. /\ Running /\ task = "lock" /\ Submit("KeyReleased")
        /\ \/ task' = "erase" /\ key' = key
           \/ task' = "final_erase" /\ key' = FALSE
        /\ UNCHANGED << clock, start_time, identity, request, summary, attestation, daemons >>
    BY DEF LockMission, At
  <1>2. AgentType' /\ MonitorHolds' /\ OneMission' /\ SummaryIsFinal'
    <2>1. task # "none" /\ task' \in Holding \cup Ending /\ key' \in BOOLEAN
      BY <1>1 DEF AInv, AgentType, Holding, Ending
    <2> QED BY <1>1, <2>1, TaskSubmits
  <1>3. KeysFollowTask'
    <2>1. CASE task' = "erase" /\ key' = key
      BY <1>1, <2>1 DEF AInv, KeysFollowTask, Running, Sealed, Holding, daemons
    <2>2. CASE task' = "final_erase" /\ key' = FALSE
      BY <1>1, <2>2 DEF AInv, KeysFollowTask, Running, Sealed, Holding, daemons
    <2> QED BY <1>1, <2>1, <2>2
  <1>4. ErasureFollowsTask'
    BY <1>1 DEF AInv, ErasureFollowsTask, Ending
  <1> QED BY <1>2, <1>3, <1>4 DEF AInv

\* force_erased, the first time and at the end.
LEMMA ForceErasedPreserves ==
    ASSUME AInv,
           NEW steps \in {<< "erase", "wipe", "summarise" >>,
                          << "final_erase", "final_wipe", "done" >>},
           EraseMonitor(steps[1], steps[2]) \/ WipeIdentity(steps[2], steps[3])
    PROVE  AInv'
PROOF
  <1>0. \/ steps[1] = "erase" /\ steps[2] = "wipe" /\ steps[3] = "summarise"
        \/ steps[1] = "final_erase" /\ steps[2] = "final_wipe" /\ steps[3] = "done"
    OBVIOUS
  <1>1. CASE EraseMonitor(steps[1], steps[2])
    <2>1. /\ Running /\ task = steps[1] /\ task' = steps[2] /\ Submit("Erase")
          /\ UNCHANGED << clock, start_time, identity, request, key, summary, attestation,
                          daemons >>
      BY <1>1 DEF EraseMonitor, At
    <2>2. /\ AgentType' /\ MonitorHolds' /\ OneMission' /\ SummaryIsFinal'
          /\ st'.phase = Erased
      BY <1>0, <2>1, TaskSubmits DEF AInv, AgentType, Holding, Ending
    <2>3. KeysFollowTask' /\ ErasureFollowsTask'
      BY <1>0, <2>1, <2>2 DEF AInv, KeysFollowTask, ErasureFollowsTask, Running, Sealed, Holding,
                        Ending, daemons
    <2> QED BY <2>2, <2>3 DEF AInv
  <1>2. CASE WipeIdentity(steps[2], steps[3])
    <2>1. /\ Running /\ task = steps[2] /\ task' = steps[3] /\ identity' = FALSE
          /\ UNCHANGED << clock, st, start_time, request, key, summary, attestation, daemons >>
      BY <1>2 DEF WipeIdentity, At
    <2>2. AgentType' /\ MonitorHolds' /\ OneMission'
      <3>1. /\ task # "none" /\ task' \in Holding \cup Ending
            /\ key' \in BOOLEAN /\ identity' \in BOOLEAN
        BY <1>0, <2>1 DEF AInv, AgentType, Holding, Ending
      <3> QED BY <2>1, <3>1, TaskMoves
    <2>3. KeysFollowTask' /\ ErasureFollowsTask' /\ SummaryIsFinal'
      BY <1>0, <2>1 DEF AInv, KeysFollowTask, ErasureFollowsTask, SummaryIsFinal, Running, Sealed,
                  Holding, Ending, daemons
    <2> QED BY <2>2, <2>3 DEF AInv
  <1> QED BY <1>1, <1>2

LEMMA RunMissionPreserves ==
    ASSUME AInv, RunMission
    PROVE  AInv'
PROOF
  <1>1. CASE EraseMonitor("erase", "wipe") \/ WipeIdentity("wipe", "summarise")
    BY <1>1, ForceErasedPreserves, << "erase", "wipe", "summarise" >>[1] = "erase"
  <1>2. CASE EraseMonitor("final_erase", "final_wipe") \/ WipeIdentity("final_wipe", "done")
    BY <1>2, ForceErasedPreserves, << "final_erase", "final_wipe", "done" >>[1] = "final_erase"
  <1> QED
    BY <1>1, <1>2, SealedStepPreserves, HoldingStepPreserves, TakeSummaryPreserves,
       LockMissionPreserves DEF RunMission, MissionStep

---------------------------------------------------------------------------
(* The watchdog, the signal and the world.                                 *)

\* A step that leaves the requests, the mission and the monitor alone, and may wipe
\* the identity.
LEMMA DaemonMoves ==
    ASSUME AInv, clock' \in 0 .. MaxClock, identity' = identity \/ identity' = FALSE,
           shutdown = "exited" => shutdown' = "exited",
           UNCHANGED << st, start_time, request, mission >>
    PROVE  AInv'
PROOF
  <1>1. AgentType'
    BY DEF AInv, AgentType, mission
  <1>2. MonitorHolds' /\ OneMission' /\ ErasureFollowsTask' /\ SummaryIsFinal'
    BY DEF AInv, MonitorHolds, OneMission, ErasureFollowsTask, SummaryIsFinal, mission
  <1>3. KeysFollowTask'
    <2>1. CASE identity' = identity
      BY <2>1 DEF AInv, KeysFollowTask, Running, mission
    <2>2. CASE identity' = FALSE
      BY <2>2 DEF AInv, KeysFollowTask, Running, mission
    <2> QED BY <2>1, <2>2
  <1> QED BY <1>1, <1>2, <1>3 DEF AInv

\* The watchdog and the signal erase the monitor at any moment.
LEMMA DaemonErases ==
    ASSUME AInv, Submit("Erase"), shutdown = "exited" => shutdown' = "exited",
           UNCHANGED << clock, start_time, identity, request, mission >>
    PROVE  AInv'
PROOF
  <1>1. Elapsed \in U64 /\ [type |-> "Erase"] \in Event
    BY ElapsedInRange DEF AInv, Event, PlainEvent
  <1>2. /\ MonitorHolds' /\ SummaryIsFinal'
        /\ st.phase # Armed => st'.phase # Armed
        /\ st.phase = Erased => st'.phase = Erased
    BY <1>1, SubmitPreserves DEF Submit, mission
  <1>3. AgentType' /\ OneMission'
    BY <1>2 DEF AInv, AgentType, OneMission, mission
  <1>4. KeysFollowTask' /\ ErasureFollowsTask'
    BY <1>2 DEF AInv, KeysFollowTask, ErasureFollowsTask, Running, mission
  <1> QED BY <1>2, <1>3, <1>4 DEF AInv

LEMMA WatchdogPreserves ==
    ASSUME AInv, Watchdog
    PROVE  AInv'
PROOF
  <1>0. clock \in 0 .. MaxClock
    BY DEF AInv, AgentType
  <1>1. CASE WatchdogWake \/ WatchdogTime \/ WatchdogWipe
    BY <1>0, <1>1, DaemonMoves DEF WatchdogWake, WatchdogTime, WatchdogWipe, shared
  <1>2. CASE WatchdogErase
    BY <1>2, DaemonErases DEF WatchdogErase
  <1> QED BY <1>1, <1>2 DEF Watchdog

LEMMA ShutdownPreserves ==
    ASSUME AInv, Signal \/ Shutdown
    PROVE  AInv'
PROOF
  <1>0. clock \in 0 .. MaxClock
    BY DEF AInv, AgentType
  <1>1. CASE Signal \/ ShutdownWipe
    BY <1>0, <1>1, DaemonMoves DEF Signal, ShutdownWipe, shared
  <1>2. CASE ShutdownErase
    BY <1>2, DaemonErases DEF ShutdownErase
  <1>3. CASE Exit
    <2>1. /\ key' = FALSE /\ identity' = FALSE /\ shutdown' = "exited"
          /\ UNCHANGED << clock, st, start_time, request, task, summary, attestation >>
      BY <1>3 DEF Exit
    <2>2. AgentType' /\ MonitorHolds' /\ OneMission' /\ ErasureFollowsTask' /\ SummaryIsFinal'
      BY <2>1 DEF AInv, AgentType, MonitorHolds, OneMission, ErasureFollowsTask, SummaryIsFinal
    <2>3. KeysFollowTask'
      BY <2>1 DEF KeysFollowTask, Running
    <2> QED BY <2>2, <2>3 DEF AInv
  <1> QED BY <1>1, <1>2, <1>3 DEF Shutdown

LEMMA NextPreservesAInv == AInv /\ [Next]_vars => AInv'
PROOF
  <1> SUFFICES ASSUME AInv, [Next]_vars
               PROVE  AInv'
    OBVIOUS
  <1>0. clock \in 0 .. MaxClock /\ MaxClock \in Nat
    BY MissionAssumption, WidthAssumption DEF AInv, AgentType, U64
  <1>1. CASE \E r \in Request, kind \in RequestKind : Receive(r, kind)
    BY <1>1, RequestPreserves
  <1>2. CASE \E r \in Request : Handler(r) \/ Disconnect(r)
    BY <1>2, RequestPreserves
  <1>3. CASE RunMission
    BY <1>3, RunMissionPreserves
  <1>4. CASE Watchdog
    BY <1>4, WatchdogPreserves
  <1>5. CASE Signal \/ Shutdown
    BY <1>5, ShutdownPreserves
  <1>6. CASE Tick
    BY <1>0, <1>6, DaemonMoves DEF Tick, daemons
  <1>7. CASE RevealGrant
    BY <1>0, <1>7, DaemonMoves DEF RevealGrant, daemons
  <1>8. CASE UNCHANGED vars
    BY <1>0, <1>8, DaemonMoves DEF vars, shared, daemons
  <1> QED BY <1>1, <1>2, <1>3, <1>4, <1>5, <1>6, <1>7, <1>8 DEF Next

---------------------------------------------------------------------------
(* What the invariant gives.                                               *)

\* The strengthened invariant of the agent holds in every reachable state.
THEOREM AgentInvariant == Spec => []AInv
  BY InitAInv, NextPreservesAInv, PTL DEF Spec

\* The summary that is proved is terminal and stays the monitor's, whatever is
\* requested while it is proved or after (run_mission, step 8).
THEOREM SummaryFinal == Spec => []SummaryIsFinal
PROOF
  <1>1. AInv => SummaryIsFinal
    BY DEF AInv
  <1> QED BY <1>1, AgentInvariant, PTL

\* run_mission ends with the monitor erased, without the key and without an
\* identity, on every path and under every race.
THEOREM EndsClean == Spec => []MissionEndsClean
PROOF
  <1>1. AInv => MissionEndsClean
    BY DEF AInv, KeysFollowTask, ErasureFollowsTask, MissionEndsClean, Holding
  <1> QED BY <1>1, AgentInvariant, PTL

---------------------------------------------------------------------------
(* The promise about the key and the identity.                             *)

CustodyStep == [Promised!Next]_Promised!vars

\* Nothing that the promise is about changes, but for the monitor being erased.
LEMMA OnlyErases ==
    ASSUME st.phase = Erased => st'.phase = Erased,
           UNCHANGED << identity, task, key, attestation >>
    PROVE  CustodyStep
  BY DEF CustodyStep, Promised!Next, Promised!vars, Promised!Erase, KeyCustody, IdentityCustody

\* The identity may be wiped.
LEMMA OnlyWipes ==
    ASSUME AInv, identity' = identity \/ identity' = FALSE,
           UNCHANGED << st, task, key, attestation >>
    PROVE  CustodyStep
  BY DEF AInv, KeysFollowTask, AgentType, CustodyStep, Promised!Next, Promised!vars,
         Promised!WipeIdentity, KeyCustody, IdentityCustody, Sealed

\* The requests never touch what the agent has custody of.
LEMMA RequestKeepsCustody ==
    ASSUME AInv, NEW r \in Request,
           \/ \E kind \in RequestKind : Receive(r, kind)
           \/ Handler(r)
           \/ Disconnect(r)
    PROVE  CustodyStep
PROOF
  <1>1. CASE InitSpawn(r)
    <2>1. /\ task = "none" /\ task' = "load" /\ ~key
          /\ UNCHANGED << st, identity, key, attestation >>
      BY <1>1 DEF InitSpawn, AInv, AgentType, OneMission, KeysFollowTask, Holding
    <2> QED
      BY <2>1 DEF CustodyStep, Promised!Next, Promised!vars, KeyCustody, IdentityCustody
  <1>2. ASSUME NEW ev \in Event, NEW admitted, request[r].at = "admit", Arbitrate(r, ev, admitted)
        PROVE  CustodyStep
    <2>1. request[r].elapsed \in U64
      BY <1>2 DEF AInv, AgentType, RequestState, Idle
    <2>2. st.phase = Erased => st'.phase = Erased
      BY <1>2, <2>1, SubmitPreserves DEF Arbitrate
    <2> QED BY <1>2, <2>2, OnlyErases DEF Arbitrate, mission
  <1>3. CASE InitArbitrate(r) \/ VetoArbitrate(r) \/ IdentityArbitrate(r)
    <2>1. \A type \in {"MissionInit", "RequestHumanVeto", "IdentityAttest"} :
              [type |-> type] \in Event
      BY DEF Event, PlainEvent
    <2> QED
      BY <1>2, <1>3, <2>1 DEF InitArbitrate, VetoArbitrate, IdentityArbitrate, Arrived
  <1>4. CASE InferArbitrate(r)
    <2>1. InferRequest \in Event
      BY MissionAssumption, WidthAssumption DEF InferRequest, Event, InferEvent, U64
    <2> QED BY <1>2, <1>4, <2>1 DEF InferArbitrate, Arrived
  <1>5. CASE CorrectionArbitrate(r)
    <2>1. \A grant \in CorrectionGrant : [type |-> "HumanCorrection", grant |-> grant] \in Event
      BY DEF Event, CorrectionEvent
    <2> QED BY <1>2, <1>5, <2>1 DEF CorrectionArbitrate, Arrived
  <1>6. CASE \/ \E kind \in RequestKind : Receive(r, kind)
             \/ InferEvaluate(r) \/ IdentityReadCache(r) \/ IdentitySign(r) \/ Disconnect(r)
    <2>1. UNCHANGED << shared, mission >>
      BY <1>6 DEF Receive, InferEvaluate, IdentityReadCache, IdentitySign, Disconnect
    <2> QED BY <2>1, OnlyErases DEF shared, mission
  <1> QED BY <1>1, <1>3, <1>4, <1>5, <1>6 DEF Handler

\* What run_mission does to it.
LEMMA MissionKeepsCustody ==
    ASSUME AInv, RunMission
    PROVE  CustodyStep
PROOF
  <1> USE DEF CustodyStep, Promised!Next, Promised!vars, KeyCustody, IdentityCustody
  <1>1. CASE LoadInputs \/ GenerateFheKeys \/ VdfSquare \/ VdfComplete
    BY <1>1 DEF LoadInputs, GenerateFheKeys, VdfSquare, VdfComplete, At, shared
  <1>2. CASE VdfAbort \/ Fail
    <2>1. /\ task \in Sealed \cup {"identify", "prove_identity", "prove"}
          /\ task \in Sealed => key = FALSE /\ identity = FALSE
          /\ key' = FALSE /\ task' = "final_erase"
          /\ Running /\ UNCHANGED shared /\ UNCHANGED attestation
      BY <1>2 DEF VdfAbort, Fail, At, AInv, AgentType, KeysFollowTask, Sealed, Holding
    <2>2. task \notin Sealed => key = TRUE
      BY <2>1 DEF AInv, AgentType, KeysFollowTask, Holding
    <2>3. Promised!GiveUp
      BY <2>1, <2>2 DEF Promised!GiveUp, Sealed, shared
    <2> QED BY <2>3
  <1>3. CASE OpenKey
    BY <1>3 DEF OpenKey, At, AInv, AgentType, KeysFollowTask, Sealed, Holding, shared,
                Promised!Open
  <1>4. CASE InitialiseIdentity
    BY <1>4 DEF InitialiseIdentity, At, AInv, AgentType, KeysFollowTask, Holding,
                Promised!Identify
  <1>5. CASE ProveIdentity \/ TakeSummary
    BY <1>5 DEF ProveIdentity, TakeSummary, At, AInv, AgentType, KeysFollowTask, Holding, shared
  <1>6. CASE LockMission
    <2>1. /\ Running /\ task = "lock" /\ key = TRUE
          /\ \/ task' = "erase" /\ key' = key
             \/ task' = "final_erase" /\ key' = FALSE
          /\ UNCHANGED << identity, attestation >>
      BY <1>6 DEF LockMission, At, AInv, AgentType, KeysFollowTask, Holding
    <2>2. st'.phase = Erased <=> st.phase = Erased
      BY <1>6, ElapsedInRange, Verdicts DEF LockMission, AInv, MonitorHolds, Submit, SubmitAt
    <2> QED BY <2>1, <2>2 DEF Promised!GiveUp
  <1>7. CASE \/ EraseMonitor("erase", "wipe") \/ EraseMonitor("final_erase", "final_wipe")
    <2>1. /\ \/ task = "erase" /\ task' = "wipe"
             \/ task = "final_erase" /\ task' = "final_wipe"
          /\ UNCHANGED << identity, key, attestation >>
      BY <1>7 DEF EraseMonitor, At
    <2>2. st'.phase = Erased
      BY <1>7, ElapsedInRange, Verdicts DEF EraseMonitor, AInv, MonitorHolds, Submit, SubmitAt
    <2> QED BY <2>1, <2>2 DEF Promised!Erase
  <1>8. CASE \/ WipeIdentity("wipe", "summarise") \/ WipeIdentity("final_wipe", "done")
    BY <1>8 DEF WipeIdentity, At, Promised!WipeIdentity, AInv, AgentType
  <1>9. CASE ProveAndPublish
    <2>1. /\ task = "prove" /\ task' = "drop_key" /\ key = TRUE
          /\ st.phase = Erased /\ summary # None /\ attestation = None
          /\ attestation' = summary
          /\ UNCHANGED << st, identity, key >>
      BY <1>9 DEF ProveAndPublish, At, AInv, AgentType, KeysFollowTask, ErasureFollowsTask,
                  Holding, Ending, shared
    <2> QED BY <2>1 DEF Promised!Attest
  <1>10. CASE DropKey
    BY <1>10 DEF DropKey, At, AInv, AgentType, KeysFollowTask, Holding, shared, Promised!GiveUp
  <1> QED BY <1>1, <1>2, <1>3, <1>4, <1>5, <1>6, <1>7, <1>8, <1>9, <1>10
          DEF RunMission, MissionStep

\* What the watchdog, the signal and the world do to it.
LEMMA DaemonsKeepCustody ==
    ASSUME AInv, Watchdog \/ Signal \/ Shutdown \/ Tick \/ RevealGrant \/ UNCHANGED vars
    PROVE  CustodyStep
PROOF
  <1>1. CASE WatchdogErase \/ ShutdownErase
    <2>1. Elapsed \in U64 /\ [type |-> "Erase"] \in Event
      BY ElapsedInRange DEF AInv, Event, PlainEvent
    <2>2. st.phase = Erased => st'.phase = Erased
      BY <1>1, <2>1, SubmitPreserves DEF WatchdogErase, ShutdownErase, Submit
    <2> QED BY <1>1, <2>2, OnlyErases DEF WatchdogErase, ShutdownErase, mission
  <1>2. CASE WatchdogWake \/ WatchdogTime \/ WatchdogWipe \/ Signal \/ ShutdownWipe
             \/ Tick \/ RevealGrant \/ UNCHANGED vars
    BY <1>2, OnlyWipes DEF WatchdogWake, WatchdogTime, WatchdogWipe, Signal, ShutdownWipe,
                           Tick, RevealGrant, vars, shared, mission
  <1>3. CASE Exit
    <2>1. /\ Running /\ key' = FALSE /\ identity' = FALSE
          /\ UNCHANGED << st, task, attestation >>
      BY <1>3 DEF Exit, Running
    <2>2. CASE key
      BY <2>1, <2>2 DEF AInv, KeysFollowTask, AgentType, Holding, CustodyStep, Promised!Next,
                        Promised!vars, Promised!GiveUp, KeyCustody, IdentityCustody
    <2>3. CASE ~key
      BY <2>1, <2>3, OnlyWipes DEF AInv, AgentType
    <2> QED BY <2>2, <2>3
  <1> QED BY <1>1, <1>2, <1>3 DEF Watchdog, Shutdown

\* The agent keeps the custody it promises: the key is opened and the identity set
\* up at most once, no wipe comes undone, and what is attested is a key that was
\* held and a monitor that was erased.
THEOREM ImplementsCustody == Spec => CustodySpec
PROOF
  <1>1. Init => Promised!Init
    BY NewStateSound DEF Init, None, Promised!Init, KeyCustody, IdentityCustody, NewState,
                         Armed, Erased
  <1>2. AInv /\ [Next]_vars => [Promised!Next]_Promised!vars
    BY RequestKeepsCustody, MissionKeepsCustody, DaemonsKeepCustody DEF Next, CustodyStep
  <1> QED BY <1>1, <1>2, AgentInvariant, PTL DEF Spec, CustodySpec, Promised!Spec

---------------------------------------------------------------------------
(* The agent implements the monitor.                                       *)

MonitorStep == [Monitor!MonitorNext]_Monitor!monitorVars

\* The instance's operators are the ones that the agent's model uses.
LEMMA SameArithmetic ==
    /\ \A a, b : Monitor!SaturatingAdd(a, b) = SaturatingAdd(a, b)
    /\ \A s : Monitor!NetUncertainty(s) = NetUncertainty(s)
    /\ \A s, score : Monitor!NewUncertainty(s, score) = NewUncertainty(s, score)
  BY DEF Monitor!SaturatingAdd, SaturatingAdd, Monitor!SaturatingSub, SaturatingSub,
         Monitor!NetUncertainty, NetUncertainty, Monitor!NewUncertainty, NewUncertainty

LEMMA SameEffect == \A s, ev : Monitor!Effect(s, ev) = Effect(s, ev)
PROOF
  <1>1. \A s : /\ Monitor!AfterErase(s) = AfterErase(s)
               /\ Monitor!AfterMissionInit(s) = AfterMissionInit(s)
               /\ Monitor!AfterKeyReleased(s) = AfterKeyReleased(s)
    BY DEF Monitor!AfterErase, AfterErase, Monitor!AfterMissionInit, AfterMissionInit,
           Monitor!AfterKeyReleased, AfterKeyReleased, Monitor!Active, Active, Monitor!Locked,
           Locked, Monitor!Erased, Erased
  <1>2. \A s, ev : Monitor!AfterInfer(s, ev) = AfterInfer(s, ev)
    BY SameArithmetic DEF Monitor!AfterInfer, AfterInfer
  <1>3. \A s, grant : Monitor!AfterCorrection(s, grant) = AfterCorrection(s, grant)
    BY SameArithmetic DEF Monitor!AfterCorrection, AfterCorrection
  <1> QED BY <1>1, <1>2, <1>3 DEF Monitor!Effect, Effect

LEMMA SameVerdict == \A s, ev : Monitor!Decide(s, ev) = Decide(s, ev)
PROOF
  <1> USE DEF Monitor!Require, Require, Monitor!Admit, Admit, Monitor!Active, Active
  <1>1. \A s, ev : Monitor!DecideInfer(s, ev) = DecideInfer(s, ev)
    BY SameArithmetic DEF Monitor!DecideInfer, DecideInfer
  <1>2. \A s, grant : Monitor!DecideCorrection(s, grant) = DecideCorrection(s, grant)
    BY DEF Monitor!DecideCorrection, DecideCorrection, Monitor!Authorises, Authorises,
           Monitor!Link, Link, Monitor!CHAIN_END, CHAIN_END
  <1>3. \A s, phases, capability :
            Monitor!DecideIn(s, phases, capability) = DecideIn(s, phases, capability)
    BY DEF Monitor!DecideIn, DecideIn
  <1> QED
    BY <1>1, <1>2, <1>3 DEF Monitor!Decide, Decide, Monitor!Armed, Armed, Monitor!Locked,
       Locked, Monitor!Erased, Erased

LEMMA SameStep == \A s, elapsed, ev : Monitor!AdmitAt(s, elapsed, ev) = AdmitAt(s, elapsed, ev)
PROOF
  <1>1. \A s, ev : Monitor!Step(s, ev) = Step(s, ev)
    BY SameVerdict, SameEffect DEF Monitor!Step, Step, Monitor!Admit, Admit
  <1>2. \A s, next : Monitor!Precedes(s, next) <=> Precedes(s, next)
    BY SameArithmetic DEF Monitor!Precedes, Precedes
  <1>3. \A s, ev : Monitor!Commit(s, ev) = Commit(s, ev)
    BY <1>1, <1>2 DEF Monitor!Commit, Commit
  <1>4. \A s, elapsed : Monitor!WithElapsed(s, elapsed) = WithElapsed(s, elapsed)
    BY DEF Monitor!WithElapsed, WithElapsed
  <1> QED BY <1>3, <1>4 DEF Monitor!AdmitAt, AdmitAt

\* Submitting an event is one call of the monitor.
LEMMA SubmitIsArbitrate ==
    ASSUME NEW elapsed \in U64, NEW ev, SubmitAt(elapsed, ev), UNCHANGED revealed
    PROVE  Monitor!Arbitrate(ev)
  BY SameStep DEF SubmitAt, Monitor!Arbitrate, Monitor!U64, U64

\* A handler's call carries what its kind of request says.
LEMMA RequestImplementsMonitor ==
    ASSUME AInv, NEW r \in Request,
           \/ \E kind \in RequestKind : Receive(r, kind)
           \/ Handler(r)
           \/ Disconnect(r)
    PROVE  MonitorStep
PROOF
  <1> USE DEF MonitorStep, Monitor!MonitorNext
  <1>1. ASSUME NEW ev, NEW admitted, request[r].at = "admit", Arbitrate(r, ev, admitted)
        PROVE  Monitor!Arbitrate(ev)
    <2>1. request[r].elapsed \in U64
      BY <1>1 DEF AInv, AgentType, RequestState, Idle
    <2> QED BY <1>1, <2>1, SubmitIsArbitrate DEF Arbitrate
  <1>2. CASE InitArbitrate(r)
    BY <1>1, <1>2 DEF InitArbitrate, Arrived, Monitor!MissionInit
  <1>3. CASE VetoArbitrate(r)
    BY <1>1, <1>3 DEF VetoArbitrate, Arrived, Monitor!RequestHumanVeto
  <1>4. CASE IdentityArbitrate(r)
    BY <1>1, <1>4 DEF IdentityArbitrate, Arrived, Monitor!IdentityAttest
  <1>5. CASE InferArbitrate(r)
    <2>1. InferRequest \in Monitor!InferEvent
      BY MissionAssumption, WidthAssumption DEF InferRequest, Monitor!InferEvent, Monitor!U64, U64
    <2>2. Monitor!Arbitrate(InferRequest)
      BY <1>1, <1>5 DEF InferArbitrate, Arrived
    <2> QED BY <2>1, <2>2 DEF Monitor!Infer
  <1>6. CASE CorrectionArbitrate(r)
    <2>1. PICK grant \in CorrectionGrant :
              /\ grant.token \in KnownTokens /\ request[r].at = "admit"
              /\ Arbitrate(r, [type |-> "HumanCorrection", grant |-> grant], Idle)
      BY <1>6 DEF CorrectionArbitrate, Arrived
    <2>2. Monitor!Arbitrate([type |-> "HumanCorrection", grant |-> grant])
      BY <1>1, <2>1
    <2>3. grant \in Monitor!CorrectionGrant /\ grant.token \in Monitor!KnownTokens
      BY <2>1 DEF CorrectionGrant, Monitor!CorrectionGrant, KnownTokens, Monitor!KnownTokens,
                  U64, Monitor!U64
    <2> QED BY <2>2, <2>3 DEF Monitor!HumanCorrection
  <1>7. CASE \/ \E kind \in RequestKind : Receive(r, kind)
             \/ InitSpawn(r)
             \/ InferEvaluate(r) \/ IdentityReadCache(r) \/ IdentitySign(r) \/ Disconnect(r)
    BY <1>7 DEF Receive, InitSpawn, InferEvaluate, IdentityReadCache, IdentitySign, Disconnect,
                shared, Monitor!monitorVars
  <1> QED BY <1>2, <1>3, <1>4, <1>5, <1>6, <1>7 DEF Handler

\* So do the mission task, the watchdog and the signal; the rest of what they do
\* is not the monitor's business.
LEMMA TasksImplementMonitor ==
    ASSUME AInv, RunMission \/ Watchdog \/ Signal \/ Shutdown
    PROVE  MonitorStep
PROOF
  <1> USE DEF MonitorStep, Monitor!MonitorNext
  <1>1. ASSUME NEW type \in {"KeyReleased", "Erase"}, Submit(type), UNCHANGED revealed
        PROVE  Monitor!KeyReleased \/ Monitor!Erase
    BY <1>1, ElapsedInRange, SubmitIsArbitrate DEF AInv, Submit, Monitor!KeyReleased,
       Monitor!Erase
  <1>2. CASE RunMission
    <2>1. \/ (Submit("KeyReleased") \/ Submit("Erase")) /\ UNCHANGED revealed
          \/ UNCHANGED << st, revealed >>
      BY <1>2 DEF RunMission, MissionStep, LoadInputs, GenerateFheKeys, VdfAbort, VdfSquare,
         VdfComplete, Fail, OpenKey, InitialiseIdentity, ProveIdentity, LockMission,
         EraseMonitor, WipeIdentity, TakeSummary, ProveAndPublish, DropKey, shared
    <2> QED BY <1>1, <2>1 DEF Monitor!monitorVars
  <1>3. CASE Watchdog \/ Signal \/ Shutdown
    <2>1. \/ Submit("Erase") /\ UNCHANGED revealed
          \/ UNCHANGED << st, revealed >>
      BY <1>3 DEF Watchdog, WatchdogWake, WatchdogTime, WatchdogErase, WatchdogWipe, Signal,
         Shutdown, ShutdownErase, ShutdownWipe, Exit, shared
    <2> QED BY <1>1, <2>1 DEF Monitor!monitorVars
  <1> QED BY <1>2, <1>3

\* Whatever the handlers, the mission, the watchdog and the signal do, the monitor
\* sees a legal sequence of calls: what is proved of the monitor alone holds of it
\* in the agent (StateMachine::admit).
THEOREM ImplementsMonitor == Spec => MonitorSpec
PROOF
  <1>1. Init => Monitor!MonitorInit
    BY DEF Init, Monitor!MonitorInit, NewState, Monitor!NewState, Capabilities, Monitor!Capabilities,
           AnchorAt, Monitor!AnchorAt, Link, Monitor!Link, CHAIN_END, Monitor!CHAIN_END,
           Armed, Monitor!Armed
  <1>2. AInv /\ [Next]_vars => [Monitor!MonitorNext]_Monitor!monitorVars
    <2>1. CASE Tick \/ UNCHANGED vars
      BY <2>1 DEF Tick, vars, shared, Monitor!monitorVars
    <2>2. CASE RevealGrant
      BY <2>2 DEF RevealGrant, Monitor!MonitorNext, Monitor!RevealGrant
    <2> QED BY <2>1, <2>2, RequestImplementsMonitor, TasksImplementMonitor DEF Next, MonitorStep
  <1> QED BY <1>1, <1>2, AgentInvariant, PTL DEF Spec, MonitorSpec, Monitor!MonitorSpec
===========================================================================
