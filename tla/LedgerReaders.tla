---------------------------- MODULE LedgerReaders ----------------------------
(***************************************************************************)
(* The handlers that report on the ledger (chronos-agent/src/main.rs and   *)
(* state.rs): /status collects its figures one lock after the other, a     *)
(* veto reads a figure before it is arbitrated, and both a veto and a      *)
(* correction read their answer after.  Other requests come in between.    *)
(* There is no ledger until the startup check has passed.                  *)
(***************************************************************************)
EXTENDS ContainmentLedger, AxiomCheck

\* A veto is one of the events.
ASSUME ReadersAssumption == [type |-> "RequestHumanVeto"] \in Events

VARIABLE reader     \* the handler: its kind, the figures it has, its record's place
readerVars == << vars, reader >>

NoReader == [kind |-> "none", figures |-> << >>, record |-> 0]

ReadersInit == Init /\ reader = NoReader

\* uncertainty(): one lock, so of one moment.
Trajectory ==
    [resolved |-> state.uncertainty_resolved,
     current |-> IF state.uncertainty_incurred > state.uncertainty_resolved
                 THEN state.uncertainty_incurred - state.uncertainty_resolved ELSE 0,
     peak |-> state.peak_uncertainty,
     corrections_consumed |-> state.corrections_consumed]

\* counters, current, ledger_len, chain_head_hex (the records the head covers).
Figure(name) ==
    CASE name = "counters"    -> admitted + denied
      [] name = "state"       -> state.phase
      [] name = "events"      -> next_seq
      [] name = "chain_head"  -> Len(chain_digest)
      [] name \in {"uncertainty", "answer"} -> Trajectory

\* Mutant: the length is read before the counters.
StatusOrderLengthFirst ==
    << "events", "state", "counters", "chain_head", "uncertainty" >>

\* status_handler's reads, in its order.
StatusOrder ==
    << "counters", "state", "events", "chain_head", "uncertainty" >>

\* One more figure, of now.
Read(kind, name, record) ==
    reader' = [kind |-> kind,
               figures |-> [x \in DOMAIN reader.figures \cup {name} |->
                               IF x = name THEN Figure(name) ELSE reader.figures[x]],
               record |-> record]

FiguresRead == Cardinality(DOMAIN reader.figures)
StatusRead ==
    /\ reader.kind \in {"none", "status"}
    /\ FiguresRead < Len(StatusOrder)
    /\ Read("status", StatusOrder[FiguresRead + 1], 0)
    /\ UNCHANGED vars

\* request_human_veto: the figure that it logs and returns is of before.
VetoRead ==
    /\ reader = NoReader
    /\ Read("veto", "uncertainty", 0)
    /\ UNCHANGED vars
VetoAdmit ==
    /\ reader.kind = "veto" /\ reader.record = 0
    /\ LET ev == [type |-> "RequestHumanVeto"]
       IN  /\ AdmitEvent(ev)
           /\ reader' = IF Decide(state, ev) = Admit THEN [reader EXCEPT !.record = next_seq']
                        ELSE NoReader

\* apply_human_correction.
CorrectionAdmit(ev) ==
    /\ reader = NoReader
    /\ ev.type = "HumanCorrection"
    /\ Decide(state, ev) = Admit
    /\ AdmitEvent(ev)
    /\ reader' = [NoReader EXCEPT !.kind = "correction", !.record = next_seq']

\* The uncertainty that is sent to the client of either, under another lock.
AnswerRead ==
    /\ reader.record # 0 /\ "answer" \notin DOMAIN reader.figures
    /\ Read(reader.kind, "answer", reader.record)
    /\ UNCHANGED vars

Answered ==
    \/ reader.kind = "status" /\ FiguresRead = Len(StatusOrder)
    \/ "answer" \in DOMAIN reader.figures
Respond == Answered /\ reader' = NoReader /\ UNCHANGED vars

ReadersNext ==
    \/ Next /\ UNCHANGED reader
    \/ StatusRead \/ VetoRead \/ VetoAdmit \/ AnswerRead \/ Respond
    \/ \E ev \in Events : CorrectionAdmit(ev)

ReadersSpec == ReadersInit /\ [][ReadersNext]_readerVars

-------------------------------------------------------------------------------
(* Properties.                                                             *)

\* The agent starts: the check main() makes before the ledger exists finds all
\* seven axioms to hold over its cross product of states, reachable or not, and
\* representative events.
StartupCheckPasses == ReadersInit => VerifyAxioms

After(i) == Before(i + 1)

\* Whatever is arbitrated between two reads, what a handler answers is a walk along
\* the ledger: /status shows a phase of some record between those it has counted and
\* those it gives the length of, a head over those at least, and an uncertainty from
\* there on; a veto's first figure is one the monitor has enforced by the time the
\* veto is on record; and the answer to either includes its own record.
ReportsFollowTheLedger ==
    Answered =>
        LET f == reader.figures
        IN  /\ reader.kind = "status" =>
                  /\ f.counters <= f.events /\ f.events <= f.chain_head
                  /\ \E i \in f.counters .. f.events : f.state = After(i).phase_after
                  /\ \E i \in f.chain_head .. next_seq :
                        /\ f.uncertainty.resolved = After(i).uncertainty_resolved_after
                        /\ f.uncertainty.corrections_consumed = After(i).corrections_consumed_after
            /\ reader.kind = "veto" => f.uncertainty.current <= After(reader.record).peak_uncertainty_after
            /\ reader.kind \in {"veto", "correction"} =>
                  /\ f.answer.resolved >= After(reader.record).uncertainty_resolved_after
                  /\ f.answer.peak >= After(reader.record).peak_uncertainty_after
                  /\ f.answer.corrections_consumed
                     >= After(reader.record).corrections_consumed_after
===============================================================================
