---------------------------- MODULE MCEvaluation ----------------------------
(***************************************************************************)
(* What a mission computes, one part at a time while the others rest.      *)
(*                                                                         *)
(* The inputs, next to requests for an engine without a model, which is    *)
(* how the agent runs it.  The engine with every model of a few shapes     *)
(* over four-bit words, among them the most negative word and models whose *)
(* arrays do not fit together.  Wesolowski: six-bit hashes, whose last two *)
(* candidates have no prime above them, and runs of up to eight squarings, *)
(* long enough for the quotient 2^T / ell to have several digits.  The     *)
(* hash chain: enough checkpoints to fill the channel behind a writer that *)
(* has not started.                                                        *)
(***************************************************************************)
EXTENDS Wesolowski, Posw, MissionInputs

\* The delay functions.
MCFactors == {<< 3, 5 >>, << 3, 7 >>, << 5, 7 >>}
MCSteps == 0 .. 8
MCLengths == 0 .. 8

WesolowskiAtRest == Init /\ t = 0 /\ g = 2 /\ pq = << 3, 5 >>
PoswAtRest ==
    /\ length = 0 /\ hasher = "ended" /\ step = 0 /\ queue = << >>
    /\ writer = "closed" /\ inHand = << >> /\ inFlight = << >> /\ fileError = FALSE
    /\ disk = << >> /\ cancelled = FALSE /\ outcome = "ok"

\* The engine and its models.
MCInputValues == {-2, 0, 1, 2, 3}

Words(k, values) == [1 .. k -> values]
Models(ins, units, outs, values) ==
    [hidden_weights : Words(units, Words(ins, values)),
     hidden_bias    : Words(units, values),
     output_weights : Words(outs, Words(units, values)),
     output_bias    : Words(outs, values)]

Spare == [hidden_weights |-> << << 1 >> >>, hidden_bias |-> << 0 >>,
          output_weights |-> << << 1 >> >>, output_bias |-> << 0 >>]
Misshapen == {[Spare EXCEPT !.hidden_bias = << >>], [Spare EXCEPT !.output_bias = << >>],
              [Spare EXCEPT !.output_weights = << << 1, 1 >> >>],
              [Spare EXCEPT !.hidden_weights = << >>], [Spare EXCEPT !.output_weights = << >>]}
MCModel ==
    Models(1, 1, 1, {-8, -3, -1, 0, 2, 3, 5, 7}) \cup Models(2, 1, 1, {-2, 1, 3})
    \cup Models(1, 2, 1, {-1, 1, 2}) \cup Misshapen \cup {Spare}

InputsAtRest(part) ==
    /\ BeaconInit
    /\ live = FALSE /\ stage = part /\ cert = None
EngineAtRest == FheInit /\ candidate = Spare

MCInit ==
    \/ InputsInit /\ candidate = Spare /\ WesolowskiAtRest /\ PoswAtRest
    \/ InputsAtRest("engine") /\ FheInit /\ WesolowskiAtRest /\ PoswAtRest
    \/ InputsAtRest("delay") /\ EngineAtRest /\ \/ Init /\ PoswAtRest
                                                \/ WesolowskiAtRest /\ PoswInit

MCNext ==
    \/ stage \notin {"engine", "delay"} /\ InputsNext /\ UNCHANGED << vars, poswVars >>
    \/ stage = "engine" /\ FheNext /\ UNCHANGED << beaconVars, inputVars, vars, poswVars >>
    \/ /\ stage = "delay"
       /\ \/ Next /\ UNCHANGED poswVars
          \/ PoswNext /\ UNCHANGED vars
       /\ UNCHANGED << beaconVars, inputVars, fheVars >>

MCSpec ==
    /\ MCInit /\ [][MCNext]_<< beaconVars, inputVars, fheVars, vars, poswVars >>
    /\ InputsFairness /\ PoswFairness
=============================================================================
