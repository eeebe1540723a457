---------------------------- MODULE Quantization ----------------------------
(***************************************************************************)
(* Quantization (quantize/__init__.py): observers and the range they have  *)
(* seen, scales and zero points, and the conversion of a model's layers.   *)
(*                                                                         *)
(* Abstracted: a model is one row of modules; a tensor is the least and    *)
(* the greatest of its integer values; a scale is a fraction, its          *)
(* numerator and denominator.  quantize_tensor() neither rounds nor clamps.*)
(***************************************************************************)
EXTENDS Integers, Sequences, SequencesExt, FiniteSets

CONSTANTS
  BatchValues,        \* of a batch
  QuantBits,
  ModelSize,          \* how many modules the model has
  MaxBatches,    \* bound on the batches observed since the last reset
  NothingSeen          \* no value

\* Of numbers: a power of two, and that the next one is its double.
ASSUME QuantizationAssumption ==
  /\ BatchValues \subseteq Int /\ NothingSeen \notin BatchValues \X BatchValues
  /\ QuantBits \in Nat \ {0} /\ 2 ^ (QuantBits - 1) \in Nat \ {0}
  /\ 2 ^ QuantBits = 2 * 2 ^ (QuantBits - 1)

VARIABLES
  method, scheme,      \* of the observer: what it watches, and of its scale
  range,               \* [min_val, max_val] of the observer, or NothingSeen
  observed,            \* the batches it has been given since its last reset
  granularity, dynamic,
  model,               \* what stands at each place of the model
  observers,           \* the places whose module has an observer beside it
  raised,              \* the last call has raised
  frozen               \* the range a FakeQuantize took its scale from, or NothingSeen

calibrationVars == <<method, scheme, range, observed, frozen>>
conversionVars == <<granularity, dynamic, model, observers, raised>>
quantizationVars == <<calibrationVars, conversionVars>>

Places == 1..ModelSize
Lesser(a, b) == IF a <= b THEN a ELSE b
Greater(a, b) == IF a >= b THEN a ELSE b
Abs(a) == IF a >= 0 THEN a ELSE -a
Ranges == {r \in BatchValues \X BatchValues : r[1] <= r[2]}
-----------------------------------------------------------------------------
\* round() of num / den, den > 0: to the nearest, halves to the even one.
Rounded(num, den) ==
  LET down == num \div den
      twice == 2 * (num % den) IN
  IF twice < den \/ (twice = den /\ down % 2 = 0) THEN down ELSE down + 1

QMin == IF scheme = "symmetric" THEN -(2 ^ (QuantBits - 1)) ELSE 0
QMax == IF scheme = "symmetric" THEN 2 ^ (QuantBits - 1) - 1 ELSE 2 ^ QuantBits - 1

\* calculate_qparams() of a tensor, a channel or a group, and of an observer.
QParams(r) ==
  IF scheme = "symmetric"
  THEN LET most == Greater(Abs(r[1]), Abs(r[2])) IN
       [num |-> IF most > 0 THEN most ELSE 1, den |-> IF most > 0 THEN QMax ELSE 1, zero |-> 0]
  ELSE LET wide == r[2] > r[1]
           num == IF wide THEN r[2] - r[1] ELSE 1
           den == IF wide THEN QMax - QMin ELSE 1 IN
       [num |-> num, den |-> den, zero |-> Rounded(QMin * num - r[1] * den, num)]

\* quantize_tensor(): value / scale + zero_point, times q.num.
QuantizedBy(q, value) == value * q.den + q.zero * q.num

\* What an observer that has seen nothing says is zero.
Seen == IF range = NothingSeen THEN <<0, 0>> ELSE range
-----------------------------------------------------------------------------
\* The observers of other methods watch nothing yet.
Observe(batch) ==
  /\ Len(observed) < MaxBatches /\ observed' = Append(observed, batch)
  /\ range' = IF method # "min_max" THEN range
              ELSE IF range = NothingSeen THEN batch
              ELSE <<Lesser(range[1], batch[1]), Greater(range[2], batch[2])>>
  /\ UNCHANGED <<method, scheme, frozen, conversionVars>>

Reset ==
  /\ range' = NothingSeen /\ observed' = <<>>
  /\ UNCHANGED <<method, scheme, frozen, conversionVars>>

\* The first tensor decides on the scale of all that follow.
FakeQuantize(batch) ==
  /\ frozen' = IF frozen = NothingSeen THEN batch ELSE frozen
  /\ UNCHANGED <<method, scheme, range, observed, conversionVars>>
-----------------------------------------------------------------------------
\* A model with a tensor cannot be copied: its storage holds a lock.
Copyable == \A p \in Places : model[p] = "plain"
Fails == /\ raised' = TRUE
         /\ UNCHANGED <<granularity, dynamic, model, observers, calibrationVars>>

\* prepare_calibration(), of modules that the configuration names.  An observer put beside
\* any module but the last is put into a dictionary that is being walked.
PrepareCalibration(named) ==
  IF ~Copyable \/ named \ {ModelSize} # {} THEN Fails
  ELSE /\ observers' = named /\ raised' = FALSE
       /\ UNCHANGED <<granularity, dynamic, model, calibrationVars>>

\* The scales of a weight's rows are divided along its columns, so a weight by channels has
\* to be square.
FitsWeight(kind) == granularity = "per_tensor" \/ kind = "square"
Misfits(named) == {p \in named : model[p] \in {"square", "tall"} /\ ~FitsWeight(model[p])}

\* convert(), from the first module to the first that raises: what is before stays converted.
ConvertModel(named, inplace) ==
  IF ~inplace /\ ~Copyable THEN Fails
  ELSE LET reached == {p \in Places : \A q \in Misfits(named) : p < q} IN
       /\ model' = [p \in Places |->
                      IF p \in reached \cap named /\ model[p] \in {"square", "tall"}
                      THEN IF dynamic THEN "dynamic" ELSE "quantized" ELSE model[p]]
       /\ observers' = observers \ reached /\ raised' = (Misfits(named) # {})
       /\ UNCHANGED <<granularity, dynamic, calibrationVars>>

\* quantize() and the engine for training work on copies: a model with a layer to quantize
\* has a tensor, and raises.
QuantizeCopy == ~Copyable /\ Fails

CalibrationInit ==
  /\ method \in {"min_max", "percentile"} /\ scheme \in {"symmetric", "asymmetric"}
  /\ range = NothingSeen /\ observed = <<>> /\ frozen = NothingSeen

ConversionInit ==
  /\ granularity \in {"per_tensor", "per_channel"} /\ dynamic \in BOOLEAN
  /\ model \in [Places -> {"plain", "square", "tall"}] /\ observers = {} /\ raised = FALSE

CalibrationNext == Reset \/ \E batch \in Ranges : Observe(batch) \/ FakeQuantize(batch)

ConversionNext ==
  \/ QuantizeCopy
  \/ \E named \in SUBSET Places : \/ PrepareCalibration(named)
                                  \/ \E inplace \in BOOLEAN : ConvertModel(named, inplace)

QuantizationNext == CalibrationNext \/ ConversionNext
QuantizationSpec == CalibrationInit /\ ConversionInit /\ [][QuantizationNext]_quantizationVars
-----------------------------------------------------------------------------
QuantizationTypeOK ==
  /\ range \in Ranges \cup {NothingSeen} /\ frozen \in Ranges \cup {NothingSeen}
  /\ observers \subseteq Places
  /\ \A p \in Places : model[p] # (IF dynamic THEN "quantized" ELSE "dynamic")

(* Whatever batches an observer of the least and the greatest has been given since it was
   reset, each of their values quantizes to a number of that many bits; in the asymmetric
   scheme, to within the half that rounding the zero point takes. *)
ObservedInRange ==
  method = "min_max" =>
    LET q == QParams(Seen)
        half == IF scheme = "symmetric" THEN 0 ELSE q.num IN
    \A k \in DOMAIN observed : \A i \in {1, 2} :
      /\ 2 * QuantizedBy(q, observed[k][i]) >= 2 * QMin * q.num - half
      /\ 2 * QuantizedBy(q, observed[k][i]) <= 2 * QMax * q.num + half
=============================================================================
