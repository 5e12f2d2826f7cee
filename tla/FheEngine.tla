----------------------------- MODULE FheEngine -----------------------------
(***************************************************************************)
(* The FHE engine (chronos-core/src/fhe.rs): one evaluation key and one    *)
(* model, each behind a lock of its own.  tfhe keeps the key it evaluates  *)
(* with per thread, and only the thread that generates the keys gets it.   *)
(*                                                                         *)
(* Ciphertexts are ideal: one is known by its plaintext.                   *)
(***************************************************************************)
EXTENDS Mlp

CONSTANTS
    Thread,             \* threads of the runtime
    Model,              \* models somebody may want to install
    InputValues,        \* plaintexts that are encrypted
    InputAbsMax,        \* DEFAULT_INPUT_ABS_MAX, 255 in the code
    MaxInputs           \* bound on the length of a request

ASSUME FheAssumption ==
    /\ Model \subseteq MlpWeights /\ InputValues \subseteq Word
    /\ InputAbsMax \in Nat /\ MaxInputs \in Nat

VARIABLES
    candidate,          \* the model at hand, which does not change
    server_key,         \* the engine has a key
    keyed,              \* the threads that have it
    weights,            \* the model installed: none, or << model >>
    reply               \* the last request's: its kind and, if answered, what to what
fheVars == << candidate, server_key, keyed, weights, reply >>

FheInit ==
    /\ candidate \in Model
    /\ server_key = FALSE /\ keyed = {}
    /\ weights = << >>
    /\ reply = [kind |-> "none"]

\* generate_and_install_keys; the client's key is dropped.
GenerateKeys(thread) ==
    /\ keyed' = keyed \cup {thread}
    /\ server_key' = TRUE
    /\ UNCHANGED << candidate, weights, reply >>

\* install_weights: a model that could wrap is refused.
InstallWeights(dim) ==
    /\ Validate(candidate, dim, InputAbsMax)
    /\ weights' = << candidate >>
    /\ UNCHANGED << candidate, server_key, keyed, reply >>

\* A payload over the cap, one that does not deserialise, or encrypted inputs.
Request ==
    [kind : {"oversize", "garbage"}, inputs : {<< >>}] \cup
    [kind : {"inputs"}, inputs : UNION {[1 .. n -> InputValues] : n \in 0 .. MaxInputs}]

\* evaluate_ciphertext.  An evaluation on a thread without a key panics.
EvaluateCiphertext(thread, ct) ==
    /\ LET answer == Evaluate(weights[1], ct.inputs, InputAbsMax)
       IN  reply' =
               IF ct.kind # "inputs" \/ ~server_key \/ weights = << >> \/ answer = NoAnswer
               THEN [kind |-> "error"]
               ELSE IF thread \notin keyed THEN [kind |-> "panic"]
               ELSE [kind |-> "answer", inputs |-> ct.inputs, outputs |-> answer]
    /\ UNCHANGED << candidate, server_key, keyed, weights >>

FheNext ==
    \/ \E thread \in Thread : GenerateKeys(thread)
    \/ \E dim \in 0 .. MaxInputs : InstallWeights(dim)
    \/ \E thread \in Thread, ct \in Request : EvaluateCiphertext(thread, ct)

FheSpec == FheInit /\ [][FheNext]_fheVars

---------------------------------------------------------------------------
(* Properties.                                                             *)

\* An answer to inputs within the declared bound is the model's true value: no sum
\* on the way has wrapped, and the plaintext reference agrees.
AnswersAreExact ==
    /\ reply.kind = "answer"
    /\ \A i \in DOMAIN reply.inputs : Magnitude(reply.inputs[i]) <= InputAbsMax
    => /\ reply.outputs = EvaluateExactly(candidate, reply.inputs)
       /\ reply.outputs = EvaluatePlaintext(candidate, reply.inputs)
=============================================================================
