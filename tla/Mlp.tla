-------------------------------- MODULE Mlp --------------------------------
(***************************************************************************)
(* The two-layer perceptron (chronos-core/src/mlp.rs).  FheInt64 wraps     *)
(* like an i64 and says nothing, so a model is validated statically: the   *)
(* worst magnitude of any sum must fit.                                    *)
(*                                                                         *)
(* A model is a record of the four weight arrays, as sequences; a word is  *)
(* MaxWord + 1 values on each side of zero.                                *)
(***************************************************************************)
EXTENDS Integers, Sequences

CONSTANT MaxWord        \* i64::MAX

ASSUME WordAssumption == MaxWord \in Nat
Word == -(MaxWord + 1) .. MaxWord
MlpWeights == [hidden_weights : Seq(Seq(Word)), hidden_bias : Seq(Word),
               output_weights : Seq(Seq(Word)), output_bias : Seq(Word)]

Wrap(x) == ((x + MaxWord + 1) % (2 * (MaxWord + 1))) - (MaxWord + 1)
Magnitude(x) == IF x < 0 THEN -x ELSE x
Largest(S) == CHOOSE x \in S : \A z \in S : z <= x

SumOf(terms) ==
    LET sum[i \in 0 .. Len(terms)] == IF i = 0 THEN 0 ELSE sum[i - 1] + terms[i]
    IN  sum[Len(terms)]

---------------------------------------------------------------------------
(* Encrypted evaluation: every operation wraps.                            *)

NoAnswer == << >>       \* an error, as no answer of a model is empty

\* dot_product: starts from the first term, for want of an encrypted zero.
DotProductDefined(inputs, weights) == Len(inputs) = Len(weights) /\ inputs # << >>
DotProduct(inputs, weights, bias) ==
    LET term(i) == Wrap(inputs[i] * weights[i])
        acc[i \in 1 .. Len(inputs)] ==
            IF i = 1 THEN term(1) ELSE Wrap(acc[i - 1] + term(i))
    IN  Wrap(acc[Len(inputs)] + bias)

Relu(x) == IF x >= 0 THEN x ELSE 0

\* zip pairs two sequences, a layer's rows with its biases: the longer one is cut.
Zip(a, b) == 1 .. IF Len(a) <= Len(b) THEN Len(a) ELSE Len(b)

InputDim(m) == IF m.hidden_weights = << >> THEN 0 ELSE Len(m.hidden_weights[1])

---------------------------------------------------------------------------
(* Validation.                                                             *)

RowMax(row, b, inputMax) ==
    Magnitude(b) + SumOf([i \in 1 .. Len(row) |-> Magnitude(row[i]) * inputMax])

\* Worst magnitude of one layer whose inputs reach inputMax.
LayerMax(rows, bias, inputMax) ==
    Largest({0} \cup {RowMax(rows[j], bias[j], inputMax) : j \in Zip(rows, bias)})

\* Mutant: biases fit a word, so they are not counted.
MaxIntermediateUnbiased(m, inputAbsMax) ==
    LET unbiased(bias) == [j \in 1 .. Len(bias) |-> 0]
        hidden == LayerMax(m.hidden_weights, unbiased(m.hidden_bias), inputAbsMax)
        output == LayerMax(m.output_weights, unbiased(m.output_bias), hidden)
    IN  Largest({hidden, output})

\* max_intermediate_magnitude, computed in i128.
MaxIntermediateMagnitude(m, inputAbsMax) ==
    LET hidden == LayerMax(m.hidden_weights, m.hidden_bias, inputAbsMax)
        output == LayerMax(m.output_weights, m.output_bias, hidden)
    IN  Largest({hidden, output})

\* validate: shapes first.
Validate(m, inputDim, inputAbsMax) ==
    /\ m.hidden_weights # << >> /\ m.output_weights # << >>
    /\ Len(m.hidden_weights) = Len(m.hidden_bias)
    /\ Len(m.output_weights) = Len(m.output_bias)
    /\ \A j \in 1 .. Len(m.hidden_weights) : Len(m.hidden_weights[j]) = inputDim
    /\ \A k \in 1 .. Len(m.output_weights) :
           Len(m.output_weights[k]) = Len(m.hidden_weights)
    /\ MaxIntermediateMagnitude(m, inputAbsMax) <= MaxWord

---------------------------------------------------------------------------
\* TwoLayerMlp::evaluate: validates again, with the width of these inputs.
Evaluate(m, inputs, inputAbsMax) ==
    LET hidden == [j \in Zip(m.hidden_weights, m.hidden_bias) |->
                      Relu(DotProduct(inputs, m.hidden_weights[j], m.hidden_bias[j]))]
    IN  IF /\ Validate(m, Len(inputs), inputAbsMax)
           /\ \A j \in DOMAIN hidden : DotProductDefined(inputs, m.hidden_weights[j])
           /\ \A k \in DOMAIN m.output_weights : DotProductDefined(hidden, m.output_weights[k])
        THEN [k \in Zip(m.output_weights, m.output_bias) |->
                 DotProduct(hidden, m.output_weights[k], m.output_bias[k])]
        ELSE NoAnswer

\* evaluate_plaintext: the reference, in i128 until the last conversion.
ExactSum(inputs, weights, bias) ==
    SumOf([i \in Zip(inputs, weights) |-> inputs[i] * weights[i]]) + bias

EvaluateExactly(m, inputs) ==
    LET hidden == [j \in Zip(m.hidden_weights, m.hidden_bias) |->
                      Relu(ExactSum(inputs, m.hidden_weights[j], m.hidden_bias[j]))]
    IN  [k \in Zip(m.output_weights, m.output_bias) |->
            ExactSum(hidden, m.output_weights[k], m.output_bias[k])]

EvaluatePlaintext(m, inputs) ==
    IF Len(inputs) # InputDim(m) THEN NoAnswer
    ELSE LET exact == EvaluateExactly(m, inputs)
         IN  [k \in DOMAIN exact |-> Wrap(exact[k])]
=============================================================================
