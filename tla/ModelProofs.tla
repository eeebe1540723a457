----------------------------- MODULE ModelProofs -----------------------------
(***************************************************************************)
(* For any shapes, types, tensors, layers, modules and batches: a tensor   *)
(* has the shape and the type that it was promised to have, and all of it  *)
(* lies in its storage, whatever views are taken of views; a layer that    *)
(* fits keeps the rows; a module loads what it saved; and quantization     *)
(* represents what calibration has seen.                                   *)
(***************************************************************************)
EXTENDS Layers, Modules, Quantization, SequenceLemmas

-----------------------------------------------------------------------------
(* Quantization. *)

(* Rounding misses by a half at most. *)
LEMMA RoundedIsNear ==
  ASSUME NEW num \in Int, NEW den \in Nat \ {0}
  PROVE  /\ Rounded(num, den) \in Int
         /\ 2 * (Rounded(num, den) * den) - 2 * num \in -den..den
<1> DEFINE down == num \div den
           left == num % den
<1>1. down \in Int /\ left \in 0..(den - 1) /\ num = den * down + left
  BY Z3
<1> HIDE DEF down, left
<1>2. CASE Rounded(num, den) = down /\ 2 * left <= den
  <2>1. 2 * (down * den) - 2 * num = -2 * left
    BY <1>1, Z3
  <2> QED
    BY <1>1, <1>2, <2>1
<1>3. CASE Rounded(num, den) = down + 1 /\ 2 * left >= den
  <2>1. (down + 1) * den = den * down + den
    BY <1>1, Z3
  <2>2. 2 * ((down + 1) * den) - 2 * num = 2 * den - 2 * left
    BY <1>1, <2>1, Z3
  <2> QED
    BY <1>1, <1>3, <2>2
<1>4. \/ Rounded(num, den) = down /\ 2 * left <= den
      \/ Rounded(num, den) = down + 1 /\ 2 * left >= den
  <2>1. Rounded(num, den) = IF 2 * left < den \/ (2 * left = den /\ down % 2 = 0)
                            THEN down ELSE down + 1
    BY DEF Rounded, down, left
  <2> QED
    BY <1>1, <2>1
<1> QED
  BY <1>2, <1>3, <1>4

(* The least and the greatest number of the given bits. *)
LEMMA BitsAreNumbers ==
  /\ QMin \in Int /\ QMax \in Nat
  /\ scheme = "symmetric" => QMin = -QMax - 1
  /\ scheme # "symmetric" => QMin = 0 /\ QMax > 0
<1> DEFINE half == 2 ^ (QuantBits - 1)
<1>1. half \in Nat \ {0} /\ 2 ^ QuantBits = 2 * half
  BY QuantizationAssumption
<1>2. QMin = IF scheme = "symmetric" THEN -half ELSE 0
  BY DEF QMin
<1>3. QMax = IF scheme = "symmetric" THEN half - 1 ELSE 2 * half - 1
  BY <1>1 DEF QMax
<1> HIDE DEF half
<1> QED
  BY <1>1, <1>2, <1>3

LEMMA Scaled ==
  ASSUME NEW a \in Int, NEW b \in Int, NEW c \in Nat, a <= b PROVE a * c <= b * c /\ a * c \in Int /\ b * c \in Int
  BY Z3

(* Values within a range, in the symmetric scheme. *)
LEMMA SymmetricInRange ==
  ASSUME NEW low \in Int, NEW high \in Int, low <= high, NEW v \in low..high,
         scheme = "symmetric"
  PROVE  LET q == QParams(<<low, high>>) IN
         /\ 2 * QuantizedBy(q, v) >= 2 * QMin * q.num
         /\ 2 * QuantizedBy(q, v) <= 2 * QMax * q.num
<1> DEFINE most == Greater(Abs(low), Abs(high))
           q == QParams(<<low, high>>)
<1>1. most \in Nat /\ v <= most /\ -most <= v /\ (most = 0 => v = 0)
  BY DEF Greater, Abs
<1>2. /\ q.num = IF most > 0 THEN most ELSE 1
      /\ q.den = IF most > 0 THEN QMax ELSE 1
      /\ q.zero = 0
  BY DEF QParams
<1>3. QMin \in Int /\ QMax \in Nat /\ QMin = -QMax - 1
  BY BitsAreNumbers
<1> HIDE DEF most, q
<1>4. QuantizedBy(q, v) = v * q.den
  <2>1. q.den \in Int /\ q.num \in Int
    BY <1>1, <1>2, <1>3
  <2> QED
    BY <1>2, <2>1 DEF QuantizedBy
<1>5. CASE most = 0
  <2>1. QuantizedBy(q, v) = 0 /\ q.num = 1
    BY <1>1, <1>2, <1>4, <1>5
  <2> QED
    BY <1>3, <2>1 DEF q
<1>6. CASE most > 0
  <2>1. QuantizedBy(q, v) = v * QMax /\ q.num = most
    BY <1>1, <1>2, <1>4, <1>6
  <2>2. v * QMax <= most * QMax /\ (-most) * QMax <= v * QMax /\ v * QMax \in Int
    BY <1>1, <1>3, Scaled
  <2>3. 2 * QMax * most = 2 * (most * QMax) /\ 2 * QMin * most = 2 * ((-most) * QMax) - 2 * most
    BY <1>1, <1>3, Z3
  <2>4. (-most) * QMax \in Int /\ most * QMax \in Int
    BY <1>1, <1>3
  <2>5. 2 * (v * QMax) <= 2 * (most * QMax) /\ 2 * (v * QMax) >= 2 * ((-most) * QMax) - 2 * most
    <3> DEFINE a == v * QMax  b == most * QMax  c == (-most) * QMax
    <3>1. a \in Int /\ b \in Int /\ c \in Int /\ a <= b /\ c <= a
      BY <2>2, <2>4
    <3> HIDE DEF a, b, c
    <3>2. 2 * a <= 2 * b /\ 2 * a >= 2 * c - 2 * most
      BY <1>1, <3>1
    <3> QED
      BY <3>2 DEF a, b, c
  <2> QED
    BY <2>1, <2>3, <2>5 DEF q
<1> QED
  BY <1>1, <1>5, <1>6

(* And in the asymmetric one, within the half that the zero point is off. *)
LEMMA AsymmetricInRange ==
  ASSUME NEW low \in Int, NEW high \in Int, low <= high, NEW v \in low..high,
         scheme # "symmetric"
  PROVE  LET q == QParams(<<low, high>>) IN
         /\ 2 * QuantizedBy(q, v) >= 2 * QMin * q.num - q.num
         /\ 2 * QuantizedBy(q, v) <= 2 * QMax * q.num + q.num
<1> DEFINE q == QParams(<<low, high>>)
<1>1. QMin = 0 /\ QMax \in Nat /\ QMax > 0
  BY BitsAreNumbers
<1>2. /\ q.num = IF high > low THEN high - low ELSE 1
      /\ q.den = IF high > low THEN QMax ELSE 1
      /\ q.zero = Rounded(QMin * q.num - low * q.den, q.num)
  <2>1. QMax - QMin = QMax
    BY <1>1
  <2> QED
    BY <2>1 DEF QParams
<1> HIDE DEF q
<1>3. q.num \in Nat \ {0} /\ q.den \in Nat \ {0} /\ q.den <= QMax
  BY <1>1, <1>2
<1> DEFINE d == q.den  n == q.num  z == q.zero
<1>4. QMin * q.num - low * q.den = -(low * d) /\ low * d \in Int
  BY <1>1, <1>3, Z3
<1>5. z \in Int /\ 2 * (z * n) - 2 * (-(low * d)) \in -n..n
  <2>1. -(low * d) \in Int
    BY <1>4
  <2>2. z = Rounded(-(low * d), n)
    BY <1>2, <1>4
  <2>3. n \in Nat \ {0}
    BY <1>3
  <2> HIDE DEF d, n, z
  <2>4. /\ Rounded(-(low * d), n) \in Int
        /\ 2 * (Rounded(-(low * d), n) * n) - 2 * (-(low * d)) \in -n..n
    BY <2>1, <2>3, RoundedIsNear
  <2> QED
    BY <2>2, <2>4
<1>6. QuantizedBy(q, v) = v * d + z * n
  BY DEF QuantizedBy
<1>7. (v - low) * d = v * d - low * d /\ (high - low) * d = (high - low) * d
  BY <1>3, Z3
<1>8. 0 <= (v - low) * d
  <2>1. 0 * d <= (v - low) * d
    BY <1>3, Scaled
  <2> QED
    BY <1>3, <2>1
<1>9. (v - low) * d <= QMax * n
  <2>1. (v - low) * d <= (high - low) * d
    BY <1>3, Scaled
  <2>2. (high - low) * d <= QMax * n
    <3>1. CASE high > low
      <4>1. n = high - low /\ d = QMax
        BY <1>2, <3>1
      <4>2. (high - low) * QMax = QMax * (high - low)
        BY <1>1, Z3
      <4> QED
        BY <4>1, <4>2, <1>1
    <3>2. CASE high = low
      <4>1. (high - low) * d = 0
        BY <1>3, <3>2, Z3
      <4>2. QMax * n \in Nat
        BY <1>1, <1>3, Z3
      <4> QED
        BY <4>1, <4>2
    <3> QED
      BY <3>1, <3>2
  <2>3. (v - low) * d \in Int /\ (high - low) * d \in Int /\ QMax * n \in Int
    BY <1>1, <1>3
  <2> QED
    BY <2>1, <2>2, <2>3
<1> DEFINE p == (v - low) * d  top == QMax * n  e == z * n + low * d
<1>10. /\ p \in Int /\ top \in Int /\ e \in Int
       /\ 2 * e \in -n..n /\ QuantizedBy(q, v) = p + e /\ 0 <= p /\ p <= top
  <2>1. p \in Int /\ top \in Int
    BY <1>1, <1>3
  <2>2. z * n \in Int /\ v * d \in Int
    BY <1>3, <1>5
  <2>3. e \in Int
    BY <2>2, <1>4
  <2>4. 2 * e \in -n..n
    <3> DEFINE zn == z * n  ld == low * d
    <3>1. zn \in Int /\ ld \in Int /\ 2 * zn - 2 * (-ld) \in -n..n
      BY <1>4, <1>5, <2>2
    <3> HIDE DEF zn, ld, n
    <3>2. 2 * (zn + ld) = 2 * zn - 2 * (-ld)
      BY <3>1
    <3> QED
      BY <3>1, <3>2 DEF zn, ld
  <2>5. QuantizedBy(q, v) = p + e
    <3> DEFINE zn == z * n  ld == low * d  vd == v * d
    <3>1. zn \in Int /\ ld \in Int /\ vd \in Int /\ p = vd - ld
      BY <1>4, <1>7, <2>2
    <3> HIDE DEF zn, ld, vd, p
    <3>2. vd + zn = p + (zn + ld)
      BY <3>1
    <3> QED
      BY <3>2, <1>6 DEF zn, ld, vd
  <2> QED
    BY <2>1, <2>3, <2>4, <2>5, <1>8, <1>9
<1>11. n \in Nat /\ 2 * QMin * n = 0 /\ 2 * QMax * n = 2 * top
  BY <1>1, <1>3, Z3
<1> HIDE DEF p, top, e, n
<1>12. 2 * (p + e) >= 0 - n /\ 2 * (p + e) <= 2 * top + n
  BY <1>10, <1>11
<1> QED
  BY <1>10, <1>11, <1>12 DEF n, q

(* An observer of the least and the greatest has a range that holds all that it has been
   given since its reset. *)
Watched ==
  \A k \in DOMAIN observed :
    /\ range # NothingSeen
    /\ \A i \in {1, 2} : observed[k][i] \in range[1]..range[2]

QuantizationInvariant ==
  /\ observed \in Seq(Ranges)
  /\ range \in Ranges \cup {NothingSeen}
  /\ frozen \in Ranges \cup {NothingSeen}
  /\ method = "min_max" => Watched

LEMMA RangesAre ==
  ASSUME NEW r \in Ranges
  PROVE  /\ r \in BatchValues \X BatchValues /\ r[1] \in Int /\ r[2] \in Int /\ r[1] <= r[2]
         /\ r = <<r[1], r[2]>> /\ r # NothingSeen
<1>1. r \in BatchValues \X BatchValues /\ r[1] <= r[2]
  BY DEF Ranges
<1>2. r[1] \in BatchValues /\ r[2] \in BatchValues /\ r = <<r[1], r[2]>>
  BY <1>1
<1>3. r # NothingSeen
  BY <1>1, QuantizationAssumption
<1>4. r[1] \in Int /\ r[2] \in Int
  BY <1>2, QuantizationAssumption
<1> QED
  BY <1>1, <1>2, <1>3, <1>4

LEMMA ObservedIs == ASSUME QuantizationInvariant PROVE ObservedInRange
<1> SUFFICES ASSUME method = "min_max", NEW k \in DOMAIN observed, NEW i \in {1, 2}
             PROVE  LET q == QParams(Seen)
                        half == IF scheme = "symmetric" THEN 0 ELSE q.num IN
                    /\ 2 * QuantizedBy(q, observed[k][i]) >= 2 * QMin * q.num - half
                    /\ 2 * QuantizedBy(q, observed[k][i]) <= 2 * QMax * q.num + half
  BY DEF ObservedInRange
<1>1. range \in Ranges /\ observed[k][i] \in range[1]..range[2] /\ Seen = range
  BY DEF QuantizationInvariant, Watched, Seen
<1> DEFINE low == range[1]  high == range[2]  v == observed[k][i]  q == QParams(<<low, high>>)
<1>2. low \in Int /\ high \in Int /\ low <= high /\ v \in low..high /\ Seen = <<low, high>>
  BY <1>1, RangesAre
<1> HIDE DEF low, high, v
<1>3. CASE scheme = "symmetric"
  <2>1. /\ 2 * QuantizedBy(q, v) >= 2 * QMin * q.num
        /\ 2 * QuantizedBy(q, v) <= 2 * QMax * q.num
    BY <1>2, <1>3, SymmetricInRange
  <2>2. 2 * QMin * q.num \in Int /\ 2 * QMax * q.num \in Int
    <3>1. q.num \in Int
      BY <1>2, <1>3 DEF QParams, Greater, Abs
    <3>2. QMin \in Int /\ QMax \in Int
      BY BitsAreNumbers
    <3> HIDE DEF q
    <3> QED
      BY <3>1, <3>2
  <2>3. 2 * QMin * q.num - 0 = 2 * QMin * q.num /\ 2 * QMax * q.num + 0 = 2 * QMax * q.num
    <3> DEFINE a == 2 * QMin * q.num  b == 2 * QMax * q.num
    <3>1. a \in Int /\ b \in Int
      BY <2>2
    <3> HIDE DEF a, b
    <3>2. a - 0 = a /\ b + 0 = b
      BY <3>1
    <3> QED
      BY <3>2 DEF a, b
  <2> QED
    BY <1>2, <1>3, <2>1, <2>3 DEF v
<1>4. CASE scheme # "symmetric"
  <2>1. /\ 2 * QuantizedBy(q, v) >= 2 * QMin * q.num - q.num
        /\ 2 * QuantizedBy(q, v) <= 2 * QMax * q.num + q.num
    BY <1>2, <1>4, AsymmetricInRange
  <2> QED
    BY <1>2, <1>4, <2>1 DEF v
<1> QED
  BY <1>3, <1>4

LEMMA ObserveWidens ==
  ASSUME NEW r \in Ranges, NEW b \in Ranges
  PROVE  LET wide == <<Lesser(r[1], b[1]), Greater(r[2], b[2])>> IN
         /\ wide \in Ranges
         /\ \A v \in r[1]..r[2] : v \in wide[1]..wide[2]
         /\ \A v \in b[1]..b[2] : v \in wide[1]..wide[2]
<1> DEFINE w1 == Lesser(r[1], b[1])  w2 == Greater(r[2], b[2])
<1>1. /\ r[1] \in BatchValues /\ r[2] \in BatchValues /\ b[1] \in BatchValues /\ b[2] \in BatchValues
      /\ r[1] \in Int /\ r[2] \in Int /\ b[1] \in Int /\ b[2] \in Int
      /\ r[1] <= r[2] /\ b[1] <= b[2]
  BY RangesAre
<1>2. /\ w1 \in BatchValues /\ w2 \in BatchValues /\ w1 \in Int /\ w2 \in Int
      /\ w1 <= r[1] /\ w1 <= b[1] /\ r[2] <= w2 /\ b[2] <= w2
  BY <1>1 DEF Lesser, Greater
<1> HIDE DEF w1, w2
<1>3. <<w1, w2>> \in Ranges
  BY <1>1, <1>2 DEF Ranges
<1>4. \A v \in r[1]..r[2] : v \in w1..w2
  BY <1>1, <1>2
<1>5. \A v \in b[1]..b[2] : v \in w1..w2
  BY <1>1, <1>2
<1> QED
  BY <1>3, <1>4, <1>5 DEF w1, w2

LEMMA ObserveKeeps ==
  ASSUME QuantizationInvariant, NEW batch \in Ranges, Observe(batch)
  PROVE  QuantizationInvariant'
<1>1. /\ observed' = Append(observed, batch)
      /\ range' = IF method # "min_max" THEN range
                  ELSE IF range = NothingSeen THEN batch
                  ELSE <<Lesser(range[1], batch[1]), Greater(range[2], batch[2])>>
      /\ method' = method /\ frozen' = frozen
  BY DEF Observe
<1>2. observed \in Seq(Ranges) /\ range \in Ranges \cup {NothingSeen}
  BY DEF QuantizationInvariant
<1>3. /\ observed' \in Seq(Ranges) /\ DOMAIN observed' = 1..(Len(observed) + 1)
      /\ DOMAIN observed = 1..Len(observed) /\ Len(observed) \in Nat
      /\ observed'[Len(observed) + 1] = batch
      /\ \A k \in 1..Len(observed) : observed'[k] = observed[k]
  BY <1>1, <1>2, AppendProperties, LenProperties
<1>4. CASE method # "min_max"
  BY <1>1, <1>2, <1>3, <1>4 DEF QuantizationInvariant
<1>5. CASE method = "min_max"
  <2>1. /\ range' \in Ranges
        /\ \A v \in batch[1]..batch[2] : v \in range'[1]..range'[2]
        /\ range # NothingSeen => \A v \in range[1]..range[2] : v \in range'[1]..range'[2]
    <3>1. CASE range = NothingSeen
      BY <1>1, <1>5, <3>1
    <3>2. CASE range # NothingSeen
      <4>1. range \in Ranges /\ range' = <<Lesser(range[1], batch[1]), Greater(range[2], batch[2])>>
        BY <1>1, <1>2, <1>5, <3>2
      <4> QED
        BY <4>1, ObserveWidens
    <3> QED
      BY <3>1, <3>2
  <2>2. ASSUME NEW k \in DOMAIN observed', NEW i \in {1, 2}
        PROVE  range' # NothingSeen /\ observed'[k][i] \in range'[1]..range'[2]
    <3>1. range' # NothingSeen
      BY <2>1, RangesAre
    <3>2. CASE k = Len(observed) + 1
      <4>1. observed'[k] = batch
        BY <1>3, <3>2
      <4>2. batch[i] \in batch[1]..batch[2]
        BY RangesAre
      <4> QED
        BY <2>1, <3>1, <4>1, <4>2
    <3>3. CASE k # Len(observed) + 1
      <4>1. k \in DOMAIN observed /\ observed'[k] = observed[k]
        BY <1>3, <3>3
      <4>2. range # NothingSeen /\ observed[k][i] \in range[1]..range[2]
        BY <1>5, <4>1 DEF QuantizationInvariant, Watched
      <4> QED
        BY <2>1, <3>1, <4>1, <4>2
    <3> QED
      BY <3>2, <3>3
  <2>3. Watched'
    BY <2>2 DEF Watched
  <2> QED
    BY <1>1, <1>2, <1>3, <2>1, <2>3 DEF QuantizationInvariant
<1> QED
  BY <1>4, <1>5

LEMMA QuantizationStart ==
  ASSUME CalibrationInit PROVE QuantizationInvariant
<1>1. observed = <<>> /\ range = NothingSeen /\ frozen = NothingSeen
  BY DEF CalibrationInit
<1>2. observed \in Seq(Ranges) /\ DOMAIN observed = {}
  BY <1>1
<1> QED
  BY <1>1, <1>2 DEF QuantizationInvariant, Watched

LEMMA CalibrationStep ==
  ASSUME QuantizationInvariant, CalibrationNext \/ UNCHANGED calibrationVars
  PROVE  QuantizationInvariant'
<1>1. CASE Reset
  <2>1. observed' = <<>> /\ range' = NothingSeen /\ frozen' = frozen /\ method' = method
    BY <1>1 DEF Reset
  <2>2. observed' \in Seq(Ranges) /\ DOMAIN observed' = {}
    BY <2>1
  <2> QED
    BY <2>1, <2>2 DEF QuantizationInvariant, Watched
<1>2. ASSUME NEW batch \in Ranges, Observe(batch) PROVE QuantizationInvariant'
  BY <1>2, ObserveKeeps
<1>3. ASSUME NEW batch \in Ranges, FakeQuantize(batch) PROVE QuantizationInvariant'
  BY <1>3 DEF FakeQuantize, QuantizationInvariant, Watched
<1>4. CASE UNCHANGED calibrationVars
  BY <1>4 DEF QuantizationInvariant, Watched, calibrationVars
<1> QED
  BY <1>1, <1>2, <1>3, <1>4 DEF CalibrationNext

LEMMA ConversionKeeps ==
  ASSUME ConversionNext PROVE UNCHANGED calibrationVars
<1>1. ASSUME Fails PROVE UNCHANGED calibrationVars
  BY <1>1 DEF Fails
<1>2. CASE QuantizeCopy
  BY <1>1, <1>2 DEF QuantizeCopy
<1>3. ASSUME NEW named \in SUBSET Places, PrepareCalibration(named)
      PROVE  UNCHANGED calibrationVars
  BY <1>1, <1>3 DEF PrepareCalibration
<1>4. ASSUME NEW named \in SUBSET Places, NEW inplace \in BOOLEAN, ConvertModel(named, inplace)
      PROVE  UNCHANGED calibrationVars
  BY <1>1, <1>4 DEF ConvertModel
<1> QED
  BY <1>2, <1>3, <1>4 DEF ConversionNext

(* For any bits and values: what an observer has been given since its reset is represented
   by the scale and zero point that it computes (CalibrationObserver.calculate_qparams). *)
THEOREM ObservedIsRepresented == QuantizationSpec => []ObservedInRange
<1>1. QuantizationInvariant => ObservedInRange
  BY ObservedIs
<1>2. QuantizationInvariant /\ [QuantizationNext]_quantizationVars => QuantizationInvariant'
  <2> SUFFICES ASSUME QuantizationInvariant, [QuantizationNext]_quantizationVars
               PROVE  QuantizationInvariant'
    OBVIOUS
  <2>1. CalibrationNext \/ UNCHANGED calibrationVars
    BY ConversionKeeps DEF QuantizationNext, quantizationVars
  <2> QED
    BY <2>1, CalibrationStep
<1>3. CalibrationInit => QuantizationInvariant
  BY QuantizationStart
<1> QED
  BY <1>1, <1>2, <1>3, PTL DEF QuantizationSpec
-----------------------------------------------------------------------------
(* Modules. *)

(* Every child of a module is a later one. *)
Below(below) ==
  \A m \in Mods, n \in Names : below[m][n] = Nothing \/ below[m][n] \in {c \in Mods : c > m}

\* What the recursion of Paths makes of module m.
PathsOf(own, below, f, m) ==
  {<<n>> : n \in own[m]} \cup
  UNION {{<<n>> \o path : path \in f[below[m][n]]} : n \in {k \in Names : below[m][k] # Nothing}}

LEMMA PathsChosen ==
  ASSUME NEW own, NEW below
  PROVE  Paths(own, below) = CHOOSE f : f = [m \in Mods |-> PathsOf(own, below, f, m)]
  BY DEF Paths, PathsOf

(* What is found below a module depends only on what is found below its children. *)
LEMMA PathsDepend ==
  ASSUME NEW own, NEW below, Below(below), NEW f, NEW g, NEW m \in Mods,
         \A c \in Mods : c > m => f[c] = g[c]
  PROVE  PathsOf(own, below, f, m) = PathsOf(own, below, g, m)
<1>1. \A n \in {k \in Names : below[m][k] # Nothing} : f[below[m][n]] = g[below[m][n]]
  BY DEF Below
<1> DEFINE K == {k \in Names : below[m][k] # Nothing}
           Each(u, n) == {<<n>> \o path : path \in u[below[m][n]]}
<1>2. \A n \in K : Each(f, n) = Each(g, n)
  BY <1>1
<1>3. {Each(f, n) : n \in K} = {Each(g, n) : n \in K}
  <2> HIDE DEF Each, K
  <2> QED
    BY <1>2
<1>4. /\ PathsOf(own, below, f, m) = {<<n>> : n \in own[m]} \cup UNION {Each(f, n) : n \in K}
      /\ PathsOf(own, below, g, m) = {<<n>> : n \in own[m]} \cup UNION {Each(g, n) : n \in K}
  BY DEF PathsOf
<1> QED
  BY <1>3, <1>4

(* The recursion ends: there is a function that it defines. *)
LEMMA PathsExist ==
  ASSUME NEW own, NEW below, Below(below)
  PROVE  \E f : f = [m \in Mods |-> PathsOf(own, below, f, m)]
<1> DEFINE n == Cardinality(Mods)
           Done(f, k) == \A m \in Mods : m > n - k => f[m] = PathsOf(own, below, f, m)
           Has(k) == \E f : f = [m \in Mods |-> f[m]] /\ Done(f, k)
           P == {k \in 0..n : Has(k)}
<1>1. n \in Nat /\ Mods = 1..n
  BY ModuleAssumption
<1>2. Has(0)
  <2> DEFINE f == [m \in Mods |-> {}]
  <2>1. f = [m \in Mods |-> f[m]] /\ Done(f, 0)
    BY <1>1
  <2> QED
    BY <2>1
<1>3. ASSUME NEW k \in 1..n, Has(k - 1) PROVE Has(k)
  <2>1. PICK f : f = [m \in Mods |-> f[m]] /\ Done(f, k - 1)
    BY <1>3
  <2> DEFINE t == n - k + 1
             g == [m \in Mods |-> IF m = t THEN PathsOf(own, below, f, t) ELSE f[m]]
  <2>2. t \in Mods /\ \A m \in Mods : m > n - k => m = t \/ (m > t /\ m > n - (k - 1))
    BY <1>1
  <2>3. \A c \in Mods : c # t => f[c] = g[c]
    OBVIOUS
  <2>4. g[t] = PathsOf(own, below, f, t)
    BY <2>2
  <2>5. g = [m \in Mods |-> g[m]]
    OBVIOUS
  <2> HIDE DEF t, g
  <2>6. ASSUME NEW m \in Mods, m > n - k PROVE g[m] = PathsOf(own, below, g, m)
    <3>0. t \in Int /\ m \in Int
      BY <1>1, <2>2
    <3>1. CASE m = t
      <4>1. \A c \in Mods : c > t => f[c] = g[c]
        BY <1>1, <2>2, <2>3
      <4>2. PathsOf(own, below, f, t) = PathsOf(own, below, g, t)
        BY <2>2, <4>1, PathsDepend
      <4> QED
        BY <2>4, <3>1, <4>2
    <3>2. CASE m > t /\ m > n - (k - 1)
      <4>1. f[m] = PathsOf(own, below, f, m)
        BY <2>1, <3>2
      <4>2. g[m] = f[m]
        BY <2>3, <3>0, <3>2
      <4>3. \A c \in Mods : c > m => f[c] = g[c]
        BY <1>1, <2>2, <2>3, <3>2
      <4>4. PathsOf(own, below, f, m) = PathsOf(own, below, g, m)
        BY <4>3, PathsDepend
      <4> QED
        BY <4>1, <4>2, <4>4
    <3> QED
      BY <2>2, <2>6, <3>1, <3>2
  <2>7. Done(g, k)
    BY <2>6
  <2> QED
    BY <2>5, <2>7
<1> HIDE DEF Has, n
<1>4. 0 \in P /\ \A k \in 1..n : k - 1 \in P => k \in P
  BY <1>1, <1>2, <1>3
<1>5. n \in P
  <2> HIDE DEF P
  <2>1. \A k \in 0..n : k \in P
    BY <1>1, <1>4, NaturalInduction
  <2> QED
    BY <1>1, <2>1
<1>6. PICK f : f = [m \in Mods |-> f[m]] /\ Done(f, n)
  BY <1>5 DEF Has
<1>7. \A m \in Mods : f[m] = PathsOf(own, below, f, m)
  BY <1>1, <1>6
<1>8. f = [m \in Mods |-> PathsOf(own, below, f, m)]
  BY <1>6, <1>7
<1> QED
  BY <1>8

LEMMA PathsUnfold ==
  ASSUME NEW own, NEW below, Below(below)
  PROVE  \A m \in Mods : Paths(own, below)[m] = PathsOf(own, below, Paths(own, below), m)
<1> DEFINE f == Paths(own, below)
<1>1. f = CHOOSE g : g = [m \in Mods |-> PathsOf(own, below, g, m)]
  BY PathsChosen
<1>2. \E g : g = [m \in Mods |-> PathsOf(own, below, g, m)]
  BY PathsExist
<1> HIDE DEF f
<1>3. f = [m \in Mods |-> PathsOf(own, below, f, m)]
  BY <1>1, <1>2
<1>4. \A m \in Mods : f[m] = PathsOf(own, below, f, m)
  BY <1>3
<1> QED
  BY <1>4 DEF f

(* From the last module to the first. *)
LEMMA FromTheLast ==
  ASSUME NEW P, \A m \in Mods : (\A c \in Mods : c > m => c \in P) => m \in P
  PROVE  \A m \in Mods : m \in P
<1> DEFINE n == Cardinality(Mods)
           Q == {k \in 0..n : \A m \in Mods : m > n - k => m \in P}
<1>1. n \in Nat /\ Mods = 1..n
  BY ModuleAssumption
<1> HIDE DEF n
<1>2. 0 \in Q
  BY <1>1
<1>3. ASSUME NEW k \in 1..n, k - 1 \in Q PROVE k \in Q
  <2>1. \A m \in Mods : m > n - (k - 1) => m \in P
    BY <1>3
  <2>2. n - k + 1 \in Mods /\ \A c \in Mods : c > n - k + 1 => c \in P
    BY <1>1, <2>1
  <2>3. n - k + 1 \in P
    BY <2>2
  <2>4. \A m \in Mods : m > n - k => m = n - k + 1 \/ m > n - (k - 1)
    BY <1>1
  <2>5. \A m \in Mods : m > n - k => m \in P
    BY <2>1, <2>3, <2>4
  <2>6. k \in 0..n
    BY <1>1
  <2> QED
    BY <2>5, <2>6
<1>4. n \in Q
  <2> HIDE DEF Q
  <2>1. \A k \in 0..n : k \in Q
    BY <1>1, <1>2, <1>3, NaturalInduction
  <2> QED
    BY <1>1, <2>1
<1> QED
  BY <1>1, <1>4

(* The paths to what two dictionaries have are the paths to what one of both has. *)
LEMMA PathsTogether ==
  ASSUME NEW a, NEW b, NEW both, NEW below, Below(below),
         \A m \in Mods : both[m] = a[m] \cup b[m]
  PROVE  \A m \in Mods : Paths(both, below)[m] = Paths(a, below)[m] \cup Paths(b, below)[m]
<1> DEFINE f == Paths(a, below)  g == Paths(b, below)  h == Paths(both, below)
           P == {m \in Mods : h[m] = f[m] \cup g[m]}
<1>1. \A m \in Mods : /\ f[m] = PathsOf(a, below, f, m) /\ g[m] = PathsOf(b, below, g, m)
                      /\ h[m] = PathsOf(both, below, h, m)
  BY PathsUnfold
<1> HIDE DEF f, g, h
<1>2. ASSUME NEW m \in Mods, \A c \in Mods : c > m => c \in P PROVE m \in P
  <2> DEFINE K == {k \in Names : below[m][k] # Nothing}
             Via(u) == UNION {{<<n>> \o path : path \in u[below[m][n]]} : n \in K}
  <2>1. \A n \in K : h[below[m][n]] = f[below[m][n]] \cup g[below[m][n]]
    BY <1>2 DEF Below
  <2>2. Via(h) = Via(f) \cup Via(g)
    <3>1. ASSUME NEW n \in K
          PROVE  {<<n>> \o path : path \in h[below[m][n]]}
                 = {<<n>> \o path : path \in f[below[m][n]]} \cup {<<n>> \o path : path \in g[below[m][n]]}
      BY <2>1
    <3> DEFINE Each(u, n) == {<<n>> \o path : path \in u[below[m][n]]}
    <3>2. \A n \in K : Each(h, n) = Each(f, n) \cup Each(g, n)
      BY <3>1
    <3> HIDE DEF Each, K
    <3>3. UNION {Each(h, n) : n \in K}
            = (UNION {Each(f, n) : n \in K}) \cup (UNION {Each(g, n) : n \in K})
      BY <3>2
    <3>4. \A u : Via(u) = UNION {Each(u, n) : n \in K}
      BY DEF Each
    <3> HIDE DEF Via
    <3> QED
      BY <3>3, <3>4
  <2>3. /\ h[m] = {<<n>> : n \in both[m]} \cup Via(h)
        /\ f[m] = {<<n>> : n \in a[m]} \cup Via(f)
        /\ g[m] = {<<n>> : n \in b[m]} \cup Via(g)
    BY <1>1 DEF PathsOf
  <2>4. {<<n>> : n \in both[m]} = {<<n>> : n \in a[m]} \cup {<<n>> : n \in b[m]}
    <3>1. both[m] = a[m] \cup b[m]
      OBVIOUS
    <3> QED
      BY <3>1
  <2> HIDE DEF Via
  <2>5. h[m] = f[m] \cup g[m]
    BY <2>2, <2>3, <2>4
  <2> QED
    BY <2>5
<1>3. \A m \in Mods : m \in P
  <2> HIDE DEF P
  <2> QED
    BY <1>2, FromTheLast
<1> QED
  BY <1>3 DEF f, g, h

\* The order of _parameters has each name that holds a parameter once.
OrderFits(o, p) ==
  /\ o \in Seq(Names) /\ \A i, j \in DOMAIN o : o[i] = o[j] => i = j
  /\ \A n \in Names : n \in ToSet(o) <=> p[n] # Nothing

(* Types of a tree of modules, with the one place of every name that is registered. *)
ModuleInvariant ==
  /\ params \in [Mods -> [Names -> Parameters \cup {Nothing}]]
  /\ order \in [Mods -> Seq(Names)]
  /\ \A m \in Mods : OrderFits(order[m], params[m])
  /\ buffers \in [Mods -> [Names -> {"kept", "volatile", Nothing}]]
  /\ children \in [Mods -> [Names -> Mods \cup {Nothing}]]
  /\ ModuleTypeOK

LEMMA ModuleStart == ASSUME ModuleInit PROVE ModuleInvariant
<1>1. /\ params = [m \in Mods |-> [n \in Names |-> Nothing]]
      /\ order = [m \in Mods |-> <<>>]
      /\ buffers = [m \in Mods |-> [n \in Names |-> Nothing]]
      /\ children = [m \in Mods |-> [n \in Names |-> Nothing]]
  BY DEF ModuleInit
<1>2. \A m \in Mods : OrderFits(order[m], params[m])
  <2>1. <<>> \in Seq(Names) /\ ToSet(<<>>) = {} /\ DOMAIN <<>> = {}
    BY EmptySeq DEF ToSet
  <2> QED
    BY <1>1, <2>1 DEF OrderFits
<1> QED
  BY <1>1, <1>2 DEF ModuleInvariant, ModuleTypeOK, Child

(* A name that is not in a list is not taken from it, and one that is leaves its place. *)
LEMMA FirstRemoved ==
  ASSUME NEW S, NEW s \in Seq(S), NEW e
  PROVE  /\ e \notin ToSet(s) => RemoveFirst(s, e) = s
         /\ e \in ToSet(s) => \E i \in 1..Len(s) : s[i] = e /\ RemoveFirst(s, e) = RemoveAt(s, i)
<1>1. Len(s) \in Nat /\ DOMAIN s = 1..Len(s)
  BY LenProperties
<1>2. e \in ToSet(s) <=> \E i \in 1..Len(s) : s[i] = e
  BY <1>1 DEF ToSet
<1>3. ASSUME e \notin ToSet(s) PROVE RemoveFirst(s, e) = s
  BY <1>2, <1>3 DEF RemoveFirst
<1>4. ASSUME e \in ToSet(s)
      PROVE  \E i \in 1..Len(s) : s[i] = e /\ RemoveFirst(s, e) = RemoveAt(s, i)
  <2> DEFINE I == {i \in 1..Len(s) : s[i] = e}
             first == CHOOSE i \in I : \A j \in I : i <= j
  <2>1. I # {} /\ I \in SUBSET Nat
    BY <1>1, <1>2, <1>4
  <2>2. \E i \in I : \A j \in I : i <= j
    <3> HIDE DEF I
    <3> QED
      BY <2>1, LeastNatural
  <2>3. first \in I
    <3> HIDE DEF I
    <3> QED
      BY <2>2
  <2>4. RemoveFirst(s, e) = RemoveAt(s, first)
    BY <1>2, <1>4, <2>1 DEF RemoveFirst, SelectInSeq, Min
  <2> QED
    BY <2>3, <2>4
<1> QED
  BY <1>3, <1>4

(* What becomes of the order when a name gets a parameter, another one or none. *)
Reorder(o, p, n, v) ==
  IF v = Nothing THEN RemoveFirst(o, n) ELSE IF p[n] = Nothing THEN Append(o, n) ELSE o

LEMMA ReorderFits ==
  ASSUME NEW p \in [Names -> Parameters \cup {Nothing}], NEW o, OrderFits(o, p),
         NEW n \in Names, NEW v \in Parameters \cup {Nothing}
  PROVE  OrderFits(Reorder(o, p, n, v), [p EXCEPT ![n] = v])
<1> DEFINE q == [p EXCEPT ![n] = v]
<1>0. o \in Seq(Names) /\ Len(o) \in Nat /\ DOMAIN o = 1..Len(o)
  BY LenProperties DEF OrderFits
<1>1. q[n] = v /\ \A k \in Names \ {n} : q[k] = p[k]
  OBVIOUS
<1> HIDE DEF q
<1>2. CASE v = Nothing
  <2>1. Reorder(o, p, n, v) = RemoveFirst(o, n)
    BY <1>2 DEF Reorder
  <2>2. CASE n \notin ToSet(o)
    <3>1. Reorder(o, p, n, v) = o
      BY <2>1, <2>2, <1>0, FirstRemoved
    <3> QED
      BY <3>1, <2>2, <1>1, <1>2 DEF OrderFits
  <2>3. CASE n \in ToSet(o)
    <3>1. PICK i \in 1..Len(o) : o[i] = n /\ RemoveFirst(o, n) = RemoveAt(o, i)
      BY <2>3, <1>0, FirstRemoved
    <3> DEFINE r == RemoveAt(o, i)
    <3>2. /\ r \in Seq(Names) /\ DOMAIN r = 1..(Len(o) - 1)
          /\ \A j \in 1..(Len(o) - 1) : r[j] = IF j < i THEN o[j] ELSE o[j + 1]
      BY <1>0, RemoveAtKeeps
    <3>3. ToSet(r) = ToSet(o) \ {o[i]}
      BY <1>0, RemoveAtTakes DEF OrderFits
    <3> HIDE DEF r
    <3>4. \A j, k \in DOMAIN r : r[j] = r[k] => j = k
      <4> SUFFICES ASSUME NEW j \in 1..(Len(o) - 1), NEW k \in 1..(Len(o) - 1), r[j] = r[k]
                   PROVE  j = k
        BY <3>2
      <4> DEFINE a == IF j < i THEN j ELSE j + 1
                 b == IF k < i THEN k ELSE k + 1
      <4>1. a \in 1..Len(o) /\ b \in 1..Len(o) /\ r[j] = o[a] /\ r[k] = o[b]
        BY <1>0, <3>2
      <4>2. a = b
        <5> HIDE DEF a, b
        <5> QED
          BY <4>1, <1>0 DEF OrderFits
      <4> QED
        BY <4>2, <1>0
    <3>5. r = Reorder(o, p, n, v)
      BY <2>1, <3>1 DEF r
    <3> QED
      BY <3>1, <3>2, <3>3, <3>4, <3>5, <1>1, <1>2 DEF OrderFits, q
  <2> QED
    BY <2>2, <2>3
<1>3. CASE v # Nothing /\ p[n] = Nothing
  <2> DEFINE r == Append(o, n)
  <2>1. Reorder(o, p, n, v) = r
    BY <1>3 DEF Reorder
  <2>2. ToSet(r) = ToSet(o) \cup {n}
    BY <1>0, AppendAdds
  <2>3. /\ r \in Seq(Names) /\ DOMAIN r = 1..(Len(o) + 1)
        /\ \A j \in 1..Len(o) : r[j] = o[j]
        /\ r[Len(o) + 1] = n
    BY <1>0, AppendProperties, LenProperties
  <2>4. \A j \in 1..Len(o) : o[j] # n
    BY <1>0, <1>3 DEF OrderFits, ToSet
  <2> HIDE DEF r
  <2>5. \A j, k \in DOMAIN r : r[j] = r[k] => j = k
    <3> SUFFICES ASSUME NEW j \in 1..(Len(o) + 1), NEW k \in 1..(Len(o) + 1), r[j] = r[k]
                 PROVE  j = k
      BY <2>3
    <3>1. (j \in 1..Len(o) \/ j = Len(o) + 1) /\ (k \in 1..Len(o) \/ k = Len(o) + 1)
      BY <1>0
    <3> QED
      BY <1>0, <2>3, <2>4, <3>1 DEF OrderFits
  <2> QED
    BY <2>1, <2>2, <2>3, <2>5, <1>1, <1>3 DEF OrderFits, q
<1>4. CASE v # Nothing /\ p[n] # Nothing
  BY <1>1, <1>4 DEF OrderFits, Reorder, q
<1> QED
  BY <1>2, <1>3, <1>4

(* One name of one module is registered anew, as at most one of the three. *)
OneName(m, n, p, b, c) ==
  /\ params' = [params EXCEPT ![m][n] = p]
  /\ order' = [order EXCEPT ![m] = Reorder(order[m], params[m], n, p)]
  /\ buffers' = [buffers EXCEPT ![m][n] = b]
  /\ children' = [children EXCEPT ![m][n] = c]

LEMMA OneNameKeeps ==
  ASSUME ModuleInvariant, NEW m \in Mods, NEW n \in Names, NEW p \in Parameters \cup {Nothing},
         NEW b \in {"kept", "volatile", Nothing}, NEW c,
         c = Nothing \/ c \in {d \in Mods : d > m},
         p # Nothing => b = Nothing, p # Nothing \/ b # Nothing => c = Nothing,
         OneName(m, n, p, b, c)
  PROVE  ModuleInvariant'
<1>1. /\ params \in [Mods -> [Names -> Parameters \cup {Nothing}]]
      /\ order \in [Mods -> Seq(Names)]
      /\ buffers \in [Mods -> [Names -> {"kept", "volatile", Nothing}]]
      /\ children \in [Mods -> [Names -> Mods \cup {Nothing}]]
  BY DEF ModuleInvariant
<1> DEFINE q == Reorder(order[m], params[m], n, p)
<1>2. /\ params' = [params EXCEPT ![m] = [params[m] EXCEPT ![n] = p]]
      /\ order' = [order EXCEPT ![m] = q]
      /\ buffers' = [buffers EXCEPT ![m] = [buffers[m] EXCEPT ![n] = b]]
      /\ children' = [children EXCEPT ![m] = [children[m] EXCEPT ![n] = c]]
  BY DEF OneName
<1>q. OrderFits(q, [params[m] EXCEPT ![n] = p])
  <2>1. params[m] \in [Names -> Parameters \cup {Nothing}] /\ OrderFits(order[m], params[m])
    BY <1>1 DEF ModuleInvariant
  <2> QED
    BY <2>1, ReorderFits
<1> HIDE DEF q
<1>3. /\ params' \in [Mods -> [Names -> Parameters \cup {Nothing}]]
      /\ order' \in [Mods -> Seq(Names)]
      /\ buffers' \in [Mods -> [Names -> {"kept", "volatile", Nothing}]]
      /\ children' \in [Mods -> [Names -> Mods \cup {Nothing}]]
  <2>1. q \in Seq(Names)
    BY <1>q DEF OrderFits
  <2> QED
    BY <1>1, <1>2, <2>1
<1>o. \A k \in Mods : OrderFits(order'[k], params'[k])
  <2> SUFFICES ASSUME NEW k \in Mods PROVE OrderFits(order'[k], params'[k])
    OBVIOUS
  <2>1. CASE k = m
    <3>1. order'[k] = q /\ params'[k] = [params[m] EXCEPT ![n] = p]
      BY <1>1, <1>2, <2>1
    <3> QED
      BY <3>1, <1>q
  <2>2. CASE k # m
    <3>1. order'[k] = order[k] /\ params'[k] = params[k]
      BY <1>1, <1>2, <2>2
    <3> QED
      BY <3>1 DEF ModuleInvariant
  <2> QED
    BY <2>1, <2>2
<1>4. ASSUME NEW k \in Mods, NEW l \in Names, k # m \/ l # n
      PROVE  /\ children'[k][l] = children[k][l] /\ buffers'[k][l] = buffers[k][l]
             /\ params'[k][l] = params[k][l]
  BY <1>1, <1>2, <1>4
<1>5. /\ children'[m][n] = c /\ buffers'[m][n] = b /\ params'[m][n] = p
  BY <1>1, <1>2
<1>6. ModuleTypeOK'
  <2> SUFFICES ASSUME NEW k \in Mods, NEW l \in Names
               PROVE  /\ children'[k][l] = Nothing \/ children'[k][l] \in {d \in Mods : d > k}
                      /\ params'[k][l] # Nothing => buffers'[k][l] = Nothing
                      /\ (params'[k][l] # Nothing \/ buffers'[k][l] # Nothing) => children'[k][l] = Nothing
    BY DEF ModuleTypeOK, Child
  <2>1. CASE k = m /\ l = n
    BY <1>5, <2>1
  <2>2. CASE k # m \/ l # n
    <3>1. /\ children[k][l] = Nothing \/ children[k][l] \in {d \in Mods : d > k}
          /\ params[k][l] # Nothing => buffers[k][l] = Nothing
          /\ (params[k][l] # Nothing \/ buffers[k][l] # Nothing) => children[k][l] = Nothing
      BY DEF ModuleInvariant, ModuleTypeOK, Child
    <3> QED
      BY <1>4, <2>2, <3>1
  <2> QED
    BY <2>1, <2>2
<1> QED
  BY <1>3, <1>o, <1>6 DEF ModuleInvariant

(* What stays as it is may be written as if it were set. *)
LEMMA Stays ==
  ASSUME ModuleInvariant, NEW m \in Mods, NEW n \in Names
  PROVE  /\ params[m][n] = Nothing =>
              /\ params = [params EXCEPT ![m] = [params[m] EXCEPT ![n] = Nothing]]
              /\ order = [order EXCEPT ![m] = Reorder(order[m], params[m], n, Nothing)]
         /\ buffers = [buffers EXCEPT ![m] = [buffers[m] EXCEPT ![n] = buffers[m][n]]]
         /\ children = [children EXCEPT ![m] = [children[m] EXCEPT ![n] = children[m][n]]]
<1>1. /\ params \in [Mods -> [Names -> Parameters \cup {Nothing}]]
      /\ order \in [Mods -> Seq(Names)]
      /\ buffers \in [Mods -> [Names -> {"kept", "volatile", Nothing}]]
      /\ children \in [Mods -> [Names -> Mods \cup {Nothing}]]
      /\ OrderFits(order[m], params[m])
  BY DEF ModuleInvariant
<1>2. ASSUME params[m][n] = Nothing
      PROVE  Reorder(order[m], params[m], n, Nothing) = order[m]
  <2>1. order[m] \in Seq(Names) /\ n \notin ToSet(order[m])
    BY <1>1, <1>2 DEF OrderFits
  <2> QED
    BY <2>1, FirstRemoved DEF Reorder
<1>3. ASSUME params[m][n] = Nothing PROVE params[m] = [params[m] EXCEPT ![n] = Nothing]
  BY <1>1, <1>3
<1>4. params = [params EXCEPT ![m] = params[m]] /\ order = [order EXCEPT ![m] = order[m]]
  BY <1>1
<1>5. buffers[m] = [buffers[m] EXCEPT ![n] = buffers[m][n]]
  BY <1>1
<1>6. children[m] = [children[m] EXCEPT ![n] = children[m][n]]
  BY <1>1
<1>7. buffers = [buffers EXCEPT ![m] = buffers[m]] /\ children = [children EXCEPT ![m] = children[m]]
  BY <1>1
<1> QED
  BY <1>2, <1>3, <1>4, <1>5, <1>6, <1>7

LEMMA ModuleStep ==
  ASSUME ModuleInvariant, [ModuleNext]_moduleVars PROVE ModuleInvariant'
<1>0. \A m \in Mods, n \in Names :
        /\ params[m][n] \in Parameters \cup {Nothing}
        /\ buffers[m][n] \in {"kept", "volatile", Nothing}
        /\ children[m][n] = Nothing \/ children[m][n] \in {c \in Mods : c > m}
        /\ params[m][n] # Nothing => buffers[m][n] = Nothing
        /\ (params[m][n] # Nothing \/ buffers[m][n] # Nothing) => children[m][n] = Nothing
  BY DEF ModuleInvariant, ModuleTypeOK, Child
<1>u. ASSUME NEW m \in Mods, NEW n \in Names, Unregister(m, n)
      PROVE  /\ params' = [params EXCEPT ![m][n] = Nothing]
             /\ order' = [order EXCEPT ![m] = Reorder(order[m], params[m], n, Nothing)]
  BY <1>u DEF Unregister, Reorder
<1>1. ASSUME NEW m \in Mods, NEW n \in Names, NEW p \in Parameters, SetParameter(m, n, p)
      PROVE  ModuleInvariant'
  <2>1. p # Nothing
    BY ModuleAssumption
  <2>2. OneName(m, n, p, Nothing, Nothing)
    BY <1>1, <2>1 DEF SetParameter, OneName, Reorder
  <2> QED
    BY <2>2, OneNameKeeps
<1>2. ASSUME NEW m \in Mods, NEW n \in Names, NEW form \in {"kept", "volatile"},
             SetBuffer(m, n, form)
      PROVE  ModuleInvariant'
  <2>1. OneName(m, n, Nothing, form, Nothing)
    BY <1>2, <1>u DEF SetBuffer, OneName
  <2> QED
    BY <2>1, OneNameKeeps
<1>3. ASSUME NEW m \in Mods, NEW n \in Names, NEW c \in Mods, SetModule(m, n, c)
      PROVE  ModuleInvariant'
  <2>1. c \in {d \in Mods : d > m}
    BY <1>3, ModuleAssumption DEF SetModule
  <2>2. OneName(m, n, Nothing, Nothing, c)
    BY <1>3, <1>u DEF SetModule, OneName
  <2> QED
    BY <2>1, <2>2, OneNameKeeps
<1>4. ASSUME NEW m \in Mods, NEW n \in Names, SetPlain(m, n) PROVE ModuleInvariant'
  BY <1>4 DEF SetPlain, ModuleInvariant, ModuleTypeOK, Child
<1>5. ASSUME NEW m \in Mods, NEW n \in Names, DelAttr(m, n) PROVE ModuleInvariant'
  <2>1. CASE params[m][n] # Nothing /\ Unregister(m, n) /\ UNCHANGED <<buffers, children, plain>>
    <3>1. buffers[m][n] = Nothing /\ children[m][n] = Nothing
      BY <1>0, <2>1
    <3>2. /\ buffers = [buffers EXCEPT ![m] = [buffers[m] EXCEPT ![n] = Nothing]]
          /\ children = [children EXCEPT ![m] = [children[m] EXCEPT ![n] = Nothing]]
      BY <3>1, Stays
    <3>3. OneName(m, n, Nothing, Nothing, Nothing)
      BY <2>1, <3>2, <1>u DEF OneName
    <3> QED
      BY <3>3, OneNameKeeps
  <2>2. CASE /\ params[m][n] = Nothing /\ UNCHANGED <<params, order>> /\ buffers[m][n] # Nothing
             /\ buffers' = [buffers EXCEPT ![m][n] = Nothing] /\ UNCHANGED <<children, plain>>
    <3>1. children[m][n] = Nothing
      BY <1>0, <2>2
    <3>2. /\ params = [params EXCEPT ![m] = [params[m] EXCEPT ![n] = Nothing]]
          /\ order = [order EXCEPT ![m] = Reorder(order[m], params[m], n, Nothing)]
          /\ children = [children EXCEPT ![m] = [children[m] EXCEPT ![n] = Nothing]]
      BY <2>2, <3>1, Stays
    <3>3. OneName(m, n, Nothing, Nothing, Nothing)
      BY <2>2, <3>2 DEF OneName
    <3> QED
      BY <3>3, OneNameKeeps
  <2>3. CASE /\ params[m][n] = Nothing /\ UNCHANGED <<params, order>> /\ buffers[m][n] = Nothing
             /\ Child(m, n) # Nothing
             /\ children' = [children EXCEPT ![m][n] = Nothing] /\ UNCHANGED <<buffers, plain>>
    <3>2. /\ params = [params EXCEPT ![m] = [params[m] EXCEPT ![n] = Nothing]]
          /\ order = [order EXCEPT ![m] = Reorder(order[m], params[m], n, Nothing)]
          /\ buffers = [buffers EXCEPT ![m] = [buffers[m] EXCEPT ![n] = Nothing]]
      BY <2>3, Stays
    <3>3. OneName(m, n, Nothing, Nothing, Nothing)
      BY <2>3, <3>2 DEF OneName
    <3> QED
      BY <3>3, OneNameKeeps
  <2>4. CASE UNCHANGED <<params, order, buffers, children>>
    BY <2>4 DEF ModuleInvariant, ModuleTypeOK, Child
  <2> QED
    BY <1>5, <2>1, <2>2, <2>3, <2>4 DEF DelAttr
<1>6. ASSUME NEW m \in Mods, NEW c \in Mods, AppendModule(m, c) PROVE ModuleInvariant'
  <2> DEFINE n == Cardinality({k \in Names : Child(m, k) # Nothing})
  <2>1. /\ n \in Names /\ m < c /\ params[m][n] = Nothing /\ buffers[m][n] = Nothing
        /\ children' = [children EXCEPT ![m][n] = c] /\ UNCHANGED <<params, order, buffers, plain>>
    BY <1>6 DEF AppendModule
  <2> HIDE DEF n
  <2>2. /\ params = [params EXCEPT ![m] = [params[m] EXCEPT ![n] = Nothing]]
        /\ order = [order EXCEPT ![m] = Reorder(order[m], params[m], n, Nothing)]
        /\ buffers = [buffers EXCEPT ![m] = [buffers[m] EXCEPT ![n] = Nothing]]
    BY <2>1, Stays
  <2>3. OneName(m, n, Nothing, Nothing, c)
    BY <2>1, <2>2 DEF OneName
  <2>4. c \in {d \in Mods : d > m}
    BY <2>1, ModuleAssumption
  <2> QED
    BY <2>1, <2>3, <2>4, OneNameKeeps
<1>7. CASE UNCHANGED moduleVars
  BY <1>7 DEF ModuleInvariant, ModuleTypeOK, Child, moduleVars
<1> QED
  BY <1>1, <1>2, <1>3, <1>4, <1>5, <1>6, <1>7 DEF ModuleNext

(* The memo leaves each parameter under its first name, and under no other. *)
LEMMA ListedOnce ==
  ASSUME ModuleInvariant, NEW m \in Mods
  PROVE  /\ ListedNames[m] \subseteq ParameterNames[m]
         /\ \A n \in ParameterNames[m] :
              \E k \in ListedNames[m] : \A l \in ListedNames[m] : params[m][l] = params[m][n] <=> l = k
<1> DEFINE o == order[m]  p == params[m]
           First(i) == \A j \in 1..(i - 1) : p[o[j]] # p[o[i]]
<1>1. OrderFits(o, p)
  BY DEF ModuleInvariant
<1>2. ListedNames[m] = {o[i] : i \in {j \in DOMAIN o : First(j)}}
  BY DEF ListedNames, FirstName
<1>3. ParameterNames[m] = {n \in Names : p[n] # Nothing}
  BY DEF ParameterNames
<1> HIDE DEF o, p
<1>4. Len(o) \in Nat /\ DOMAIN o = 1..Len(o) /\ \A i \in 1..Len(o) : o[i] \in Names
  BY <1>1, LenProperties, ElementOfSeq DEF OrderFits
<1>5. \A n \in Names : p[n] # Nothing <=> \E i \in 1..Len(o) : o[i] = n
  BY <1>1, <1>4 DEF OrderFits, ToSet
<1>6. ListedNames[m] \subseteq ParameterNames[m]
  <2> SUFFICES ASSUME NEW i \in 1..Len(o) PROVE o[i] \in ParameterNames[m]
    BY <1>2, <1>4
  <2> QED
    BY <1>3, <1>4, <1>5
<1>7. ASSUME NEW n \in ParameterNames[m]
      PROVE  \E k \in ListedNames[m] : \A l \in ListedNames[m] : p[l] = p[n] <=> l = k
  <2> DEFINE I == {i \in 1..Len(o) : p[o[i]] = p[n]}
  <2>1. I # {} /\ I \in SUBSET Nat
    BY <1>3, <1>4, <1>5, <1>7
  <2>2. PICK i \in I : \A j \in I : i <= j
    <3> HIDE DEF I
    <3> QED
      BY <2>1, LeastNatural
  <2>3. i \in 1..Len(o) /\ p[o[i]] = p[n] /\ \A j \in 1..Len(o) : p[o[j]] = p[n] => i <= j
    BY <2>2
  <2>4. First(i)
    BY <1>4, <2>3
  <2>5. o[i] \in ListedNames[m]
    BY <1>2, <1>4, <2>3, <2>4
  <2>6. ASSUME NEW l \in ListedNames[m], p[l] = p[n] PROVE l = o[i]
    <3>1. PICK j \in 1..Len(o) : l = o[j] /\ First(j)
      BY <1>2, <1>4
    <3>2. i <= j
      BY <2>3, <2>6, <3>1
    <3>3. i \in 1..(j - 1) => p[o[i]] # p[o[j]]
      BY <3>1
    <3>4. ~(i \in 1..(j - 1))
      BY <2>3, <2>6, <3>1, <3>3
    <3>5. i = j
      BY <1>4, <2>3, <3>1, <3>2, <3>4
    <3> QED
      BY <3>1, <3>5
  <2> QED
    BY <2>3, <2>5, <2>6
<1> QED
  BY <1>6, <1>7 DEF p

(* Reading and loading walk the same tree. *)
LEMMA RoundTripIs == ASSUME ModuleInvariant PROVE RoundTrip
<1> DEFINE both == [k \in Mods |-> ParameterNames[k] \cup Kept[k]]
<1>1. Below(children)
  BY DEF ModuleInvariant, ModuleTypeOK, Child, Below
<1>2. \A m \in Mods : Paths(both, children)[m] = Paths(ParameterNames, children)[m] \cup Paths(Kept, children)[m]
  <2>1. \A m \in Mods : both[m] = ParameterNames[m] \cup Kept[m]
    OBVIOUS
  <2> HIDE DEF both
  <2> QED
    BY <1>1, <2>1, PathsTogether
<1>3. \A m \in Mods : ModuleStateDict(m) = Wanted(m)
  BY <1>2 DEF ModuleStateDict, Wanted
<1>4. \A m \in Mods : LoadModuleState(m, ModuleStateDict(m)) = [missing |-> {}, unexpected |-> {}]
  BY <1>3 DEF LoadModuleState
<1>5. \A m \in Mods : Paths(Kept, children)[m] \subseteq Paths(AnyBuffer, children)[m]
  <2>1. \A m \in Mods : AnyBuffer[m] = Kept[m] \cup AnyBuffer[m]
    BY ModuleAssumption DEF Kept, AnyBuffer
  <2>2. \A m \in Mods : Paths(AnyBuffer, children)[m] = Paths(Kept, children)[m] \cup Paths(AnyBuffer, children)[m]
    BY <1>1, <2>1, PathsTogether
  <2> QED
    BY <2>2
<1>6. \A m \in Mods : ModuleStateDict(m) \subseteq Paths(ParameterNames, children)[m] \cup NamedBuffers(m)
  BY <1>3, <1>5 DEF Wanted, NamedBuffers
<1>7. \A m \in Mods : NamedParameters(m) \subseteq ModuleStateDict(m)
  <2>1. \A m \in Mods : ParameterNames[m] = ListedNames[m] \cup ParameterNames[m]
    BY ListedOnce
  <2>2. \A m \in Mods : Paths(ParameterNames, children)[m]
                          = Paths(ListedNames, children)[m] \cup Paths(ParameterNames, children)[m]
    BY <1>1, <2>1, PathsTogether
  <2> QED
    BY <1>3, <2>2 DEF NamedParameters, Wanted
<1> QED
  BY <1>4, <1>6, <1>7, ListedOnce DEF RoundTrip

(* For any number of modules, names and parameters: a module loads what it saved
   (Module.state_dict and load_state_dict), and named_parameters() lists each parameter of a
   module under one name, which is saved, however the attributes were set, tied, hidden and
   deleted before. *)
THEOREM SavedCanBeLoaded == ModuleSpec => []RoundTrip
<1>1. ModuleInvariant => RoundTrip
  BY RoundTripIs
<1>2. ModuleInvariant /\ [ModuleNext]_moduleVars => ModuleInvariant'
  BY ModuleStep
<1> QED
  BY <1>1, <1>2, ModuleStart, PTL DEF ModuleSpec
-----------------------------------------------------------------------------
(* Shapes, and layers. *)

(* Shapes. *)

SizeFolds(shape, c) ==
  c = [s \in SUBSET (DOMAIN shape) |->
         IF s = {} THEN 1 ELSE c[s \ {Max(s)}] * shape[Max(s)]]

\* The steps of the fold stay in A, and the values it goes through are in it.
SizeStays(shape, n, A) == \A k \in 1..n, a \in A : a * shape[k] \in A
SizePasses(shape, n, A) ==
  \E h \in [0..n -> A] : /\ h[0] = 1 /\ h[n] = Size(shape)
                         /\ \A k \in 1..n : h[k] = h[k - 1] * shape[k]

LEMMA SizeReachesUnfolds ==
  ASSUME NEW shape
  PROVE  Size(shape) = (CHOOSE c : SizeFolds(shape, c))[DOMAIN shape]
  BY DEF Size, FoldLeft, MapThenFoldSet, SizeFolds

(* The size of a shape is multiplied up from the first dimension on. *)
LEMMA SizeReaches ==
  ASSUME NEW shape, NEW n \in Nat, DOMAIN shape = 1..n,
         NEW A, 1 \in A,
         SizeStays(shape, n, A)
  PROVE  SizePasses(shape, n, A)
<1> DEFINE step == [p \in (1..n) \X A |-> p[2] * shape[p[1]]]
           c == CHOOSE c : SizeFolds(shape, c)
           h == [k \in 0..n |-> c[1..k]]
<1>2. \A k \in 1..n, a \in A : step[<<k, a>>] = a * shape[k]
  OBVIOUS
<1>3. PICK g \in [SUBSET (1..n) -> A] : Folds(1, step, n, g)
  <2>1. \A k \in 1..n, a \in A : step[<<k, a>>] \in A
    <3> HIDE DEF step
    <3>1. QED
      BY <1>2 DEF SizeStays
  <2> HIDE DEF step
  <2>2. QED
    BY <2>1, FoldExists
<1>4. SizeFolds(shape, g)
  <2>1. ASSUME NEW s \in SUBSET (1..n), s # {}
        PROVE  step[<<Max(s), g[s \ {Max(s)}]>>] = g[s \ {Max(s)}] * shape[Max(s)]
    <3>1. Max(s) \in 1..n
      BY <2>1, GreatestOf
    <3>2. s \ {Max(s)} \in SUBSET (1..n)
      OBVIOUS
    <3>3. g[s \ {Max(s)}] \in A
      BY <3>2
    <3> HIDE DEF step
    <3>4. QED
      BY <1>2, <3>1, <3>3
  <2> HIDE DEF step
  <2>2. QED
    BY <1>3, <2>1 DEF SizeFolds, Folds
<1>5. SizeFolds(shape, c)
  <2> HIDE DEF step
  <2>1. \E d : SizeFolds(shape, d)
    BY <1>4
  <2>2. QED
    BY <2>1
<1> HIDE DEF step, c
<1>6. c[{}] = 1 /\ \A k \in 1..n : c[1..k] = c[1..(k - 1)] * shape[k]
  <2>1. c[{}] = 1
    BY <1>5 DEF SizeFolds
  <2>2. ASSUME NEW k \in 1..n PROVE c[1..k] = c[1..(k - 1)] * shape[k]
    <3>1. /\ 1..k \in SUBSET (1..n) /\ 1..k # {}
          /\ Max(1..k) = k /\ (1..k) \ {k} = 1..(k - 1)
      BY PrefixEnds
    <3>2. QED
      BY <1>5, <3>1 DEF SizeFolds
  <2>3. QED
    BY <2>1, <2>2
<1>7. h[0] = 1 /\ \A k \in 1..n : h[k] = h[k - 1] * shape[k]
  BY <1>6
<1>8. h \in [0..n -> A]
  <2>1. h = [k \in 0..n |-> h[k]]
    OBVIOUS
  <2> HIDE DEF h
  <2>2. \A k \in 1..n : h[k - 1] \in A => h[k] \in A
    BY <1>7 DEF SizeStays
  <2>3. \A k \in 0..n : h[k] \in A
    BY <1>7, <2>2, FoldStays
  <2>4. QED
    BY <2>1, <2>3
<1>9. Size(shape) = h[n]
  BY SizeReachesUnfolds DEF c
<1>10. QED
  BY <1>7, <1>8, <1>9 DEF SizePasses

LEMMA DescendingOfOne == ASSUME NEW d \in Int PROVE Descending(<<d>>) = <<d>>
<1> DEFINE s == <<d>>
           rank(i) == Cardinality({j \in DOMAIN s : s[j] > s[i] \/ (s[j] = s[i] /\ j <= i)})
<1>1. DOMAIN s = {1} /\ s[1] = d
  OBVIOUS
<1>2. rank(1) = 1
  <2>1. {j \in DOMAIN s : s[j] > s[1] \/ (s[j] = s[1] /\ j <= 1)} = {1}
    BY <1>1
  <2> QED
    BY <2>1, FS_Singleton
<1>3. Descending(s) = [k \in DOMAIN s |-> s[CHOOSE i \in DOMAIN s : rank(i) = k]]
  BY DEF Descending
<1> HIDE DEF rank
<1> DEFINE nth(k) == CHOOSE i \in DOMAIN s : rank(i) = k
<1>4. nth(1) = 1 /\ Descending(s) = [k \in DOMAIN s |-> s[nth(k)]]
  BY <1>1, <1>2, <1>3
<1> HIDE DEF nth
<1>5. Descending(s) = [k \in {1} |-> d]
  BY <1>1, <1>4
<1>6. <<d>> = [k \in {1} |-> d]
  OBVIOUS
<1> QED
  BY <1>5, <1>6

\* Dimensions are dropped one after the other.
Popped(shape, dims) == FoldLeft(PopDim, shape, dims)
PoppedFolds(shape, dims, c) ==
  c = [s \in SUBSET (DOMAIN dims) |->
         IF s = {} THEN shape ELSE PopDim(c[s \ {Max(s)}], dims[Max(s)])]

\* The steps of the fold stay in A, and the values it goes through are in it.
PoppedStays(shape, dims, n, A) == \A k \in 1..n, a \in A : PopDim(a, dims[k]) \in A
PoppedPasses(shape, dims, n, A) ==
  \E h \in [0..n -> A] : /\ h[0] = shape /\ h[n] = Popped(shape, dims)
                         /\ \A k \in 1..n : h[k] = PopDim(h[k - 1], dims[k])

LEMMA PopReachesUnfolds ==
  ASSUME NEW shape, NEW dims
  PROVE  Popped(shape, dims) = (CHOOSE c : PoppedFolds(shape, dims, c))[DOMAIN dims]
  BY DEF Popped, FoldLeft, MapThenFoldSet, PoppedFolds

(* The shape after the last one is dropped is reached from the shape in steps. *)
LEMMA PopReaches ==
  ASSUME NEW shape, NEW dims, NEW n \in Nat, DOMAIN dims = 1..n,
         NEW A, shape \in A,
         PoppedStays(shape, dims, n, A)
  PROVE  PoppedPasses(shape, dims, n, A)
<1> DEFINE step == [p \in (1..n) \X A |-> PopDim(p[2], dims[p[1]])]
           c == CHOOSE c : PoppedFolds(shape, dims, c)
           h == [k \in 0..n |-> c[1..k]]
<1>2. \A k \in 1..n, a \in A : step[<<k, a>>] = PopDim(a, dims[k])
  OBVIOUS
<1>3. PICK g \in [SUBSET (1..n) -> A] : Folds(shape, step, n, g)
  <2>1. \A k \in 1..n, a \in A : step[<<k, a>>] \in A
    <3> HIDE DEF step
    <3>1. QED
      BY <1>2 DEF PoppedStays
  <2> HIDE DEF step
  <2>2. QED
    BY <2>1, FoldExists
<1>4. PoppedFolds(shape, dims, g)
  <2>1. ASSUME NEW s \in SUBSET (1..n), s # {}
        PROVE  step[<<Max(s), g[s \ {Max(s)}]>>] = PopDim(g[s \ {Max(s)}], dims[Max(s)])
    <3>1. Max(s) \in 1..n
      BY <2>1, GreatestOf
    <3>2. s \ {Max(s)} \in SUBSET (1..n)
      OBVIOUS
    <3>3. g[s \ {Max(s)}] \in A
      BY <3>2
    <3> HIDE DEF step
    <3>4. QED
      BY <1>2, <3>1, <3>3
  <2> HIDE DEF step
  <2>2. QED
    BY <1>3, <2>1 DEF PoppedFolds, Folds
<1>5. PoppedFolds(shape, dims, c)
  <2> HIDE DEF step
  <2>1. \E d : PoppedFolds(shape, dims, d)
    BY <1>4
  <2>2. QED
    BY <2>1
<1> HIDE DEF step, c
<1>6. c[{}] = shape /\ \A k \in 1..n : c[1..k] = PopDim(c[1..(k - 1)], dims[k])
  <2>1. c[{}] = shape
    BY <1>5 DEF PoppedFolds
  <2>2. ASSUME NEW k \in 1..n PROVE c[1..k] = PopDim(c[1..(k - 1)], dims[k])
    <3>1. /\ 1..k \in SUBSET (1..n) /\ 1..k # {}
          /\ Max(1..k) = k /\ (1..k) \ {k} = 1..(k - 1)
      BY PrefixEnds
    <3>2. QED
      BY <1>5, <3>1 DEF PoppedFolds
  <2>3. QED
    BY <2>1, <2>2
<1>7. h[0] = shape /\ \A k \in 1..n : h[k] = PopDim(h[k - 1], dims[k])
  BY <1>6
<1>8. h \in [0..n -> A]
  <2>1. h = [k \in 0..n |-> h[k]]
    OBVIOUS
  <2> HIDE DEF h
  <2>2. \A k \in 1..n : h[k - 1] \in A => h[k] \in A
    BY <1>7 DEF PoppedStays
  <2>3. \A k \in 0..n : h[k] \in A
    BY <1>7, <2>2, FoldStays
  <2>4. QED
    BY <2>1, <2>3
<1>9. Popped(shape, dims) = h[n]
  BY PopReachesUnfolds DEF c
<1>10. QED
  BY <1>7, <1>8, <1>9 DEF PoppedPasses

(* A dimension is dropped. *)
PoppedTo(shape, dims, r) == FoldLeft(PopDim, shape, dims) = r

LEMMA PopOnly ==
  ASSUME NEW shape, NEW e \in Int PROVE PoppedTo(shape, <<e>>, PopDim(shape, e))
<1> DEFINE dims == <<e>>
           c == CHOOSE c : PoppedFolds(shape, dims, c)
           g == [s \in SUBSET {1} |-> IF s = {} THEN shape ELSE PopDim(shape, e)]
<1>1. DOMAIN dims = {1} /\ dims[1] = e
  OBVIOUS
<1> HIDE DEF dims
<1>2. SUBSET {1} = {{}, {1}} /\ {1} # {} /\ Max({1}) = 1 /\ {1} \ {1} = {}
  <2>1. \A u \in {1} : 1 >= u
    OBVIOUS
  <2>2. Max({1}) \in {1}
    BY <2>1 DEF Max
  <2> QED
    BY <2>2
<1>3. PoppedFolds(shape, dims, g)
  <2>1. \A s \in SUBSET {1} : g[s] = IF s = {} THEN shape ELSE PopDim(g[s \ {Max(s)}], dims[Max(s)])
    <3>1. g[{}] = shape
      BY <1>2
    <3>2. g[{1}] = PopDim(g[{1} \ {Max({1})}], dims[Max({1})])
      BY <1>1, <1>2, <3>1
    <3> HIDE DEF g
    <3> QED
      BY <1>2, <3>1, <3>2
  <2>2. g = [s \in SUBSET {1} |-> g[s]]
    OBVIOUS
  <2> HIDE DEF g
  <2>3. g = [s \in SUBSET {1} |-> IF s = {} THEN shape ELSE PopDim(g[s \ {Max(s)}], dims[Max(s)])]
    BY <2>1, <2>2
  <2> QED
    BY <1>1, <2>3 DEF PoppedFolds
<1>4. PoppedFolds(shape, dims, c)
  <2> HIDE DEF g
  <2>1. \E d : PoppedFolds(shape, dims, d)
    BY <1>3
  <2> QED
    BY <2>1
<1>5. Popped(shape, dims) = c[{1}]
  BY <1>1, PopReachesUnfolds
<1> HIDE DEF c
<1>6. c = [s \in SUBSET {1} |-> IF s = {} THEN shape ELSE PopDim(c[s \ {Max(s)}], dims[Max(s)])]
  BY <1>1, <1>4 DEF PoppedFolds
<1>7. c[{}] = shape
  BY <1>2, <1>6
<1>8. c[{1}] = PopDim(c[{1} \ {Max({1})}], dims[Max({1})])
  BY <1>2, <1>6
<1> QED
  BY <1>1, <1>2, <1>5, <1>7, <1>8 DEF Popped, PoppedTo, dims

(* A shape of two, three and four dimensions. *)
LEMMA SizeRuns ==
  ASSUME NEW shape \in Seq(Nat), NEW n \in Nat, DOMAIN shape = 1..n
  PROVE  SizePasses(shape, n, Nat)
<1>1. \A k \in 1..n, m \in Nat : m * shape[k] \in Nat
  <2>1. \A k \in 1..n : shape[k] \in Nat
    OBVIOUS
  <2> QED
    BY <2>1
<1>2. SizeStays(shape, n, Nat)
  BY <1>1 DEF SizeStays
<1> QED
  BY <1>2, SizeReaches

SizeOfThree(a, b, c) == Size(<<a, b, c>>) = a * b * c
SizeOfFour(a, b, c, d) == Size(<<a, b, c, d>>) = a * b * c * d

LEMMA ThreeSized ==
  ASSUME NEW a \in Nat, NEW b \in Nat, NEW c \in Nat PROVE SizeOfThree(a, b, c)
<1> DEFINE s == <<a, b, c>>
<1>1. s \in Seq(Nat) /\ DOMAIN s = 1..3 /\ s[1] = a /\ s[2] = b /\ s[3] = c
  OBVIOUS
<1> HIDE DEF s
<1>2. PICK h \in [0..3 -> Nat] : /\ h[0] = 1 /\ h[3] = Size(s)
                                 /\ \A k \in 1..3 : h[k] = h[k - 1] * s[k]
  <2>1. SizePasses(s, 3, Nat)
    BY <1>1, SizeRuns
  <2> QED
    BY <2>1 DEF SizePasses
<1>3. h[1] = h[0] * s[1] /\ h[2] = h[1] * s[2] /\ h[3] = h[2] * s[3]
  <2>1. h[1] = h[1 - 1] * s[1] /\ h[2] = h[2 - 1] * s[2] /\ h[3] = h[3 - 1] * s[3]
    BY <1>2
  <2> QED
    BY <2>1
<1>4. h[1] = a
  BY <1>1, <1>2, <1>3
<1>5. h[3] = a * b * c
  BY <1>1, <1>3, <1>4
<1> QED
  BY <1>2, <1>5 DEF s, SizeOfThree

LEMMA FourSized ==
  ASSUME NEW a \in Nat, NEW b \in Nat, NEW c \in Nat, NEW d \in Nat PROVE SizeOfFour(a, b, c, d)
<1> DEFINE s == <<a, b, c, d>>
<1>1. s \in Seq(Nat) /\ DOMAIN s = 1..4 /\ s[1] = a /\ s[2] = b /\ s[3] = c /\ s[4] = d
  OBVIOUS
<1> HIDE DEF s
<1>2. PICK h \in [0..4 -> Nat] : /\ h[0] = 1 /\ h[4] = Size(s)
                                 /\ \A k \in 1..4 : h[k] = h[k - 1] * s[k]
  <2>1. SizePasses(s, 4, Nat)
    BY <1>1, SizeRuns
  <2> QED
    BY <2>1 DEF SizePasses
<1>3. h[1] = h[0] * s[1] /\ h[2] = h[1] * s[2] /\ h[3] = h[2] * s[3] /\ h[4] = h[3] * s[4]
  <2>1. h[1] = h[1 - 1] * s[1] /\ h[2] = h[2 - 1] * s[2] /\ h[3] = h[3 - 1] * s[3]
        /\ h[4] = h[4 - 1] * s[4]
    BY <1>2
  <2> QED
    BY <2>1
<1>4. h[1] = a
  BY <1>1, <1>2, <1>3
<1>5. h[4] = a * b * c * d
  BY <1>1, <1>3, <1>4
<1> QED
  BY <1>2, <1>5 DEF s, SizeOfFour

LEMMA ShapeIs ==
  ASSUME NEW s \in Seq(Nat)
  PROVE  Len(s) \in Nat /\ DOMAIN s = 1..Len(s) /\ \A i \in 1..Len(s) : s[i] \in Nat
  OBVIOUS

LEMMA FromRightIs ==
  ASSUME NEW s \in Seq(Nat), NEW i \in Nat
  PROVE  /\ FromRight(s, i) \in Nat
         /\ i < Len(s) => FromRight(s, i) = s[Len(s) - i]
         /\ i >= Len(s) => FromRight(s, i) = 1
  BY DEF FromRight

LEMMA RanksAre ==
  ASSUME NEW m \in Nat, NEW n \in Nat
  PROVE  Max({m, n}) = IF m >= n THEN m ELSE n
<1>1. \E u \in {m, n} : \A v \in {m, n} : u >= v
  OBVIOUS
<1>2. Max({m, n}) \in {m, n} /\ \A v \in {m, n} : Max({m, n}) >= v
  BY <1>1 DEF Max
<1> QED
  BY <1>2

LEMMA BroadcastIsShape ==
  ASSUME NEW a \in Seq(Nat), NEW b \in Seq(Nat)
  PROVE  /\ BroadcastShapes(a, b) \in Seq(Nat)
         /\ Len(BroadcastShapes(a, b)) = Ranks(a, b)
         /\ Ranks(a, b) = IF Len(a) >= Len(b) THEN Len(a) ELSE Len(b)
<1>1. Ranks(a, b) = IF Len(a) >= Len(b) THEN Len(a) ELSE Len(b)
  BY ShapeIs, RanksAre DEF Ranks
<1>2. Ranks(a, b) \in Nat
  BY <1>1
<1>3. \A j \in 1..Ranks(a, b) : LET i == Ranks(a, b) - j IN
        (IF FromRight(a, i) = 1 THEN FromRight(b, i) ELSE FromRight(a, i)) \in Nat
  <2>1. \A j \in 1..Ranks(a, b) : Ranks(a, b) - j \in Nat
    BY <1>2
  <2> QED
    BY <2>1, FromRightIs
<1> QED
  BY <1>1, <1>2, <1>3 DEF BroadcastShapes

(* Each dimension of t, from the right, is one of s or 1: t is broadcast to s. *)
Inside(t, s) ==
  /\ Len(t) <= Len(s)
  /\ \A i \in 0..(Len(t) - 1) : FromRight(t, i) = 1 \/ FromRight(t, i) = FromRight(s, i)

LEMMA Absorbs ==
  ASSUME NEW s \in Seq(Nat), NEW t \in Seq(Nat), Inside(t, s)
  PROVE  Broadcasts(s, t) /\ BroadcastShapes(s, t) = s
<1>1. Len(s) \in Nat /\ Len(t) \in Nat /\ Len(t) <= Len(s) /\ Ranks(s, t) = Len(s)
  BY ShapeIs, BroadcastIsShape DEF Inside
<1>2. ASSUME NEW i \in 0..(Len(s) - 1)
      PROVE  /\ FromRight(s, i) = FromRight(t, i) \/ 1 = FromRight(t, i)
             /\ (IF FromRight(s, i) = 1 THEN FromRight(t, i) ELSE FromRight(s, i)) = s[Len(s) - i]
  <2>0. i \in Nat /\ i < Len(s)
    BY <1>1
  <2>1. FromRight(s, i) = s[Len(s) - i]
    BY <2>0, FromRightIs
  <2>2. CASE i < Len(t)
    <3>1. FromRight(t, i) = 1 \/ FromRight(t, i) = FromRight(s, i)
      BY <1>1, <2>2 DEF Inside
    <3> QED
      BY <2>1, <3>1
  <2>3. CASE ~(i < Len(t))
    <3>1. FromRight(t, i) = 1
      BY <1>1, <2>0, <2>3, FromRightIs
    <3> QED
      BY <2>1, <3>1
  <2> QED
    BY <2>2, <2>3
<1>3. Broadcasts(s, t)
  <2>1. \A i \in 0..(Ranks(s, t) - 1) :
          FromRight(s, i) = FromRight(t, i) \/ 1 \in {FromRight(s, i), FromRight(t, i)}
    BY <1>1, <1>2
  <2> QED
    BY <2>1 DEF Broadcasts
<1>4. BroadcastShapes(s, t) = s
  <2>1. ASSUME NEW j \in 1..Len(s) PROVE BroadcastShapes(s, t)[j] = s[j]
    <3>1. Len(s) - j \in 0..(Len(s) - 1) /\ Len(s) - (Len(s) - j) = j
      BY <1>1
    <3>2. BroadcastShapes(s, t)[j] =
            IF FromRight(s, Len(s) - j) = 1 THEN FromRight(t, Len(s) - j)
            ELSE FromRight(s, Len(s) - j)
      BY <1>1 DEF BroadcastShapes
    <3> QED
      BY <1>2, <3>1, <3>2
  <2>2. BroadcastShapes(s, t) \in Seq(Nat) /\ Len(BroadcastShapes(s, t)) = Len(s)
    BY <1>1, BroadcastIsShape
  <2> QED
    BY <2>1, <2>2, ShapeIs, SeqEqual
<1> QED
  BY <1>3, <1>4
-----------------------------------------------------------------------------
(* The activations that layers pass on, and what may be one. *)
Activations == Seq(Nat) \cup {Raises}

LEMMA RaisesIsNone == \A s \in Seq(Nat) : s # Raises
  BY LayerAssumption

LEMMA PlusAbsorbs ==
  ASSUME NEW s \in Seq(Nat), NEW t \in Seq(Nat), Inside(t, s)
  PROVE  Plus(s, t) = s
  BY RaisesIsNone, Absorbs DEF Plus

LEMMA PlusPasses ==
  ASSUME NEW a \in Activations, NEW b \in Activations
  PROVE  Plus(a, b) \in Activations
  BY RaisesIsNone, BroadcastIsShape DEF Plus, Activations

IsBatch(t, s) ==
  /\ t \in Seq(Nat) /\ Len(t) = Len(s) - 2
  /\ \A i \in 1..(Len(s) - 2) : t[i] = s[i]

LEMMA BatchIs ==
  ASSUME NEW s \in Seq(Nat), Len(s) >= 2
  PROVE  IsBatch(Batch(s), s)
<1>1. Len(s) \in Nat /\ Len(s) - 2 \in 0..Len(s) /\ \A i \in 1..Len(s) : s[i] \in Nat
  BY ShapeIs
<1>2. SubSeq(s, 1, Len(s) - 2) \in Seq(Nat)
  BY <1>1, SubSeqProperties, Z3
<1> DEFINE k == Len(s) - 2
<1>3. k \in Nat /\ k <= Len(s) /\ 1 \in 1..(Len(s) + 1) /\ k \in 0..Len(s)
  BY <1>1
<1> HIDE DEF k
<1>4. Len(SubSeq(s, 1, k)) = k /\ \A i \in 1..k : SubSeq(s, 1, k)[i] = s[i]
  BY <1>1, <1>3, SubSeqProperties, Z3
<1> QED
  BY <1>2, <1>3, <1>4 DEF Batch, IsBatch, k

LEMMA MatmulIsShape ==
  ASSUME NEW a \in Seq(Nat), NEW b \in Seq(Nat), a # <<>>, b # <<>>
  PROVE  MatmulShape(a, b) \in Seq(Nat)
<1>1. Len(a) >= 1 /\ Len(b) >= 1 /\ Len(a) \in Nat /\ Len(b) \in Nat
  OBVIOUS
<1>2. CASE Len(a) = 1 /\ Len(b) = 1
  BY <1>2 DEF MatmulShape
<1>3. CASE Len(a) = 1 /\ Len(b) # 1
  <2>1. Batch(b) \in Seq(Nat) /\ Last(b) \in Nat
    <3>1. Len(b) >= 2 /\ Len(b) \in 1..Len(b)
      <4>1. \A m \in Nat : m >= 1 /\ m # 1 => m >= 2
        OBVIOUS
      <4> QED
        BY <1>1, <1>3, <4>1
    <3>2. IsBatch(Batch(b), b)
      BY <3>1, BatchIs
    <3> QED
      BY <3>1, <3>2, ShapeIs DEF IsBatch, Last
  <2>2. MatmulShape(a, b) = Append(Batch(b), Last(b))
    BY <1>3 DEF MatmulShape
  <2> QED
    BY <2>1, <2>2
<1>4. CASE Len(a) # 1 /\ Len(b) = 1
  <2>1. MatmulShape(a, b) = SubSeq(a, 1, Len(a) - 1)
    BY <1>4 DEF MatmulShape, Front
  <2>2. SubSeq(a, 1, Len(a) - 1) \in Seq(Nat)
    BY <1>1
  <2> QED
    BY <2>1, <2>2
<1>5. CASE Len(a) # 1 /\ Len(b) # 1
  <2>0. Len(a) >= 2 /\ Len(b) >= 2
    <3>1. \A m \in Nat : m >= 1 /\ m # 1 => m >= 2
      OBVIOUS
    <3> QED
      BY <1>1, <1>5, <3>1
  <2>1. Batch(a) \in Seq(Nat) /\ Batch(b) \in Seq(Nat)
    BY <2>0, BatchIs DEF IsBatch
  <2>2. BroadcastShapes(Batch(a), Batch(b)) \in Seq(Nat)
    BY <2>1, BroadcastIsShape
  <2>3. <<a[Len(a) - 1], Last(b)>> \in Seq(Nat)
    <3>0. Len(a) - 1 \in 1..Len(a) /\ Len(b) \in 1..Len(b)
      BY <1>1, <2>0
    <3>1. a[Len(a) - 1] \in Nat /\ Last(b) \in Nat
      BY <3>0, ShapeIs DEF Last
    <3> QED
      BY <3>1
  <2>4. MatmulShape(a, b) = BroadcastShapes(Batch(a), Batch(b)) \o <<a[Len(a) - 1], Last(b)>>
    BY <1>5 DEF MatmulShape
  <2> HIDE DEF MatmulShape
  <2> QED
    BY <2>2, <2>3, <2>4, ConcatProperties
<1> QED
  BY <1>2, <1>3, <1>4, <1>5

LEMMA TimesPasses ==
  ASSUME NEW a \in Activations, NEW b \in Activations
  PROVE  Times(a, b) \in Activations
<1>1. CASE a = Raises \/ b = Raises \/ <<>> \in {a, b} \/ ~Broadcasts(Batch(a), Batch(b))
  BY <1>1 DEF Times, Activations
<1>2. CASE ~(a = Raises \/ b = Raises \/ <<>> \in {a, b} \/ ~Broadcasts(Batch(a), Batch(b)))
  <2>1. /\ a \in Seq(Nat) /\ b \in Seq(Nat) /\ a # <<>> /\ b # <<>>
        /\ Times(a, b) = MatmulShape(a, b)
    BY <1>2 DEF Times, Activations
  <2> QED
    BY <2>1, MatmulIsShape DEF Activations
<1> QED
  BY <1>1, <1>2
LEMMA OneDim ==
  /\ -1 \in Int /\ DOMAIN <<-1>> = {1} /\ <<-1>>[1] = -1
  /\ ToSet(<<-1>>) = {-1} /\ <<-1>> # Whole
<1>1. -1 \in Int /\ <<-1>> \in Seq(Int) /\ DOMAIN <<-1>> = {1} /\ <<-1>>[1] = -1
  OBVIOUS
<1>2. <<-1>> # Whole
  BY <1>1, TensorAssumption
<1> QED
  BY <1>1, <1>2 DEF ToSet

(* Along the last dimension, which is kept with one place. *)
LEMMA LastReduced ==
  ASSUME NEW s \in Seq(Nat), s # <<>>
  PROVE  LET r == Reduced(s, <<-1>>, TRUE) IN r \in Seq(Nat) /\ Inside(r, s)
<1> DEFINE r == [i \in DOMAIN s |-> IF i = Len(s) THEN 1 ELSE s[i]]
<1>1. Len(s) \in Nat /\ Len(s) >= 1 /\ DOMAIN s = 1..Len(s) /\ \A i \in 1..Len(s) : s[i] \in Nat
  OBVIOUS
<1>2. ToSet(<<-1>>) = {-1} /\ Index(Len(s), -1) = Len(s) /\ <<-1>> # Whole
  <2>1. Index(Len(s), -1) = Len(s)
    BY <1>1 DEF Index
  <2> QED
    BY <2>1, OneDim
<1>3. Reduced(s, <<-1>>, TRUE) = r
  <2>1. \A d \in ToSet(<<-1>>) : Index(Len(s), d) \in DOMAIN s
    BY <1>1, <1>2
  <2>2. Reduced(s, <<-1>>, TRUE) = ReduceShape(s, <<-1>>, TRUE)
    BY <2>1, RaisesIsNone DEF Reduced
  <2>3. ReduceShape(s, <<-1>>, TRUE) =
          [i \in DOMAIN s |-> IF \E d \in {-1} : Index(Len(s), d) = i THEN 1 ELSE s[i]]
    BY <1>2 DEF ReduceShape
  <2>4. \A i \in DOMAIN s : (\E d \in {-1} : Index(Len(s), d) = i) <=> i = Len(s)
    BY <1>2
  <2> QED
    BY <2>2, <2>3, <2>4
<1>4. r \in Seq(Nat) /\ Len(r) = Len(s)
  BY <1>1
<1>5. ASSUME NEW i \in 0..(Len(r) - 1) PROVE FromRight(r, i) = 1 \/ FromRight(r, i) = FromRight(s, i)
  <2>1. FromRight(r, i) = r[Len(s) - i] /\ FromRight(s, i) = s[Len(s) - i]
    <3>1. i \in Nat /\ i < Len(r) /\ i < Len(s)
      BY <1>1, <1>4
    <3> HIDE DEF r
    <3> QED
      BY <1>4, <3>1, FromRightIs
  <2>2. Len(s) - i \in DOMAIN s
    BY <1>1, <1>4
  <2> QED
    BY <2>1, <2>2
<1>6. Inside(r, s)
  BY <1>1, <1>4, <1>5 DEF Inside
<1> QED
  BY <1>3, <1>4, <1>6

LEMMA LastReducedPasses ==
  ASSUME NEW a \in Activations PROVE Reduced(a, <<-1>>, TRUE) \in Activations
<1>1. CASE a = Raises
  BY <1>1 DEF Reduced, Activations
<1>2. CASE a = <<>>
  <2>1. ToSet(<<-1>>) = {-1} /\ Index(Len(a), -1) = 0 /\ DOMAIN a = {} /\ <<-1>> # Whole
    <3>1. Index(Len(a), -1) = 0
      BY <1>2 DEF Index
    <3> QED
      BY <1>2, <3>1, OneDim
  <2>2. Reduced(a, <<-1>>, TRUE) = Raises
    BY <2>1 DEF Reduced
  <2> QED
    BY <2>2 DEF Activations
<1>3. CASE a \in Seq(Nat) /\ a # <<>>
  BY <1>3, LastReduced DEF Activations
<1> QED
  BY <1>1, <1>2, <1>3 DEF Activations

LEMMA InsideItself == ASSUME NEW s \in Seq(Nat) PROVE Inside(s, s)
  BY ShapeIs DEF Inside

LEMMA NothingInside == ASSUME NEW s \in Seq(Nat) PROVE <<>> \in Seq(Nat) /\ Inside(<<>>, s)
  BY ShapeIs DEF Inside

(* A vector of the last dimension. *)
LEMMA WidthInside ==
  ASSUME NEW s \in Seq(Nat), s # <<>>, NEW e \in Nat, Last(s) = e
  PROVE  <<e>> \in Seq(Nat) /\ Inside(<<e>>, s)
<1>1. Len(s) \in Nat /\ Len(s) >= 1 /\ s[Len(s)] = e
  BY DEF Last
<1>2. Len(<<e>>) = 1 /\ <<e>>[1] = e /\ <<e>> \in Seq(Nat)
  OBVIOUS
<1>3. FromRight(<<e>>, 0) = e /\ FromRight(s, 0) = e
  BY <1>1, <1>2 DEF FromRight
<1> QED
  BY <1>1, <1>2, <1>3 DEF Inside
-----------------------------------------------------------------------------
(* The activation of a layer: three dimensions. *)
Rows(a, b, c) == <<a, b, c>>

LEMMA RowsAre ==
  ASSUME NEW a \in Nat, NEW b \in Nat, NEW c \in Nat
  PROVE  LET s == <<a, b, c>> IN
         /\ s \in Seq(Nat) /\ s # <<>> /\ Len(s) = 3 /\ Last(s) = c /\ DOMAIN s = 1..3
         /\ s[1] = a /\ s[2] = b /\ s[3] = c
  BY DEF Last

JoinOf(s, t, u, m, n) ==
  /\ s \in Seq(Nat) /\ t \in Seq(Nat) /\ u \in Seq(Nat)
  /\ Len(s) = m /\ Len(t) = n /\ Len(u) = m + n
  /\ \A i \in 1..(m + n) : u[i] = IF i <= m THEN s[i] ELSE t[i - m]
IsJoin(s, t, u) == s \o t = u

LEMMA JoinIs ==
  ASSUME NEW s, NEW t, NEW u, NEW m \in Nat, NEW n \in Nat, JoinOf(s, t, u, m, n)
  PROVE  IsJoin(s, t, u)
<1> DEFINE v == s \o t
<1>1. /\ s \in Seq(Nat) /\ t \in Seq(Nat) /\ u \in Seq(Nat)
      /\ Len(s) = m /\ Len(t) = n /\ Len(u) = m + n
      /\ \A i \in 1..(m + n) : u[i] = IF i <= m THEN s[i] ELSE t[i - m]
  BY DEF JoinOf
<1>2. v \in Seq(Nat) /\ Len(v) = m + n
      /\ \A i \in 1..(m + n) : v[i] = IF i <= m THEN s[i] ELSE t[i - m]
  BY <1>1, ConcatProperties, Zenon
<1> HIDE DEF v
<1>3. Len(v) = Len(u) /\ \A i \in 1..Len(v) : v[i] = u[i]
  BY <1>1, <1>2
<1>4. v = u
  BY <1>1, <1>2, <1>3, SeqEqual
<1> QED
  BY <1>4 DEF v, IsJoin

LEMMA TuplesJoined ==
  ASSUME NEW a \in Nat, NEW b \in Nat, NEW c \in Nat, NEW d \in Nat
  PROVE  /\ IsJoin(<<a>>, <<b, c>>, <<a, b, c>>)
         /\ IsJoin(<<a, b>>, <<c, d>>, <<a, b, c, d>>)
<1>2. IsJoin(<<a>>, <<b, c>>, <<a, b, c>>)
  <2> DEFINE s == <<a>>  t == <<b, c>>  u == <<a, b, c>>
  <2>1. JoinOf(s, t, u, 1, 2)
    BY DEF JoinOf
  <2> HIDE DEF s, t, u
  <2>2. IsJoin(s, t, u)
    BY <2>1, JoinIs
  <2> QED
    BY <2>2 DEF s, t, u
<1>3. IsJoin(<<a, b>>, <<c, d>>, <<a, b, c, d>>)
  <2> DEFINE s == <<a, b>>  t == <<c, d>>  u == <<a, b, c, d>>
  <2>1. JoinOf(s, t, u, 2, 2)
    BY DEF JoinOf
  <2> HIDE DEF s, t, u
  <2>2. IsJoin(s, t, u)
    BY <2>1, JoinIs
  <2> QED
    BY <2>2 DEF s, t, u
<1> QED
  BY <1>2, <1>3

(* Multiplication by a matrix replaces the last dimension. *)
LEMMA TimesMatrix ==
  ASSUME NEW a \in Nat, NEW b \in Nat, NEW c \in Nat, NEW in \in Nat, NEW out \in Nat
  PROVE  Times(<<a, b, c>>, <<in, out>>) = <<a, b, out>>
<1> DEFINE s == <<a, b, c>>  w == <<in, out>>
<1>1. s \in Seq(Nat) /\ s # <<>> /\ Len(s) = 3 /\ s[1] = a /\ s[2] = b
  BY RowsAre
<1>2. w \in Seq(Nat) /\ w # <<>> /\ Len(w) = 2 /\ Last(w) = out
  BY DEF Last
<1> HIDE DEF s, w
<1>3. Batch(s) \in Seq(Nat) /\ Len(Batch(s)) = 1 /\ Batch(s)[1] = a
  <2>0. Len(s) >= 2
    BY <1>1
  <2>1. Batch(s) \in Seq(Nat) /\ Len(Batch(s)) = Len(s) - 2 /\ \A i \in 1..(Len(s) - 2) : Batch(s)[i] = s[i]
    BY <1>1, <2>0, BatchIs DEF IsBatch
  <2>2. Len(s) - 2 = 1 /\ 1 \in 1..1
    BY <1>1
  <2> QED
    BY <1>1, <2>1, <2>2
<1>4. Batch(w) \in Seq(Nat) /\ Batch(w) = <<>>
  <2>0. Len(w) >= 2
    BY <1>2
  <2>1. Batch(w) \in Seq(Nat) /\ Len(Batch(w)) = Len(w) - 2
    BY <1>2, <2>0, BatchIs DEF IsBatch
  <2> QED
    BY <1>2, <2>1
<1>5. Broadcasts(Batch(s), Batch(w)) /\ BroadcastShapes(Batch(s), Batch(w)) = Batch(s)
  BY <1>3, <1>4, NothingInside, Absorbs
<1>6. Times(s, w) = Batch(s) \o <<b, out>>
  <2>1. Times(s, w) = MatmulShape(s, w)
    BY <1>1, <1>2, <1>5, RaisesIsNone DEF Times
  <2>2. MatmulShape(s, w) = BroadcastShapes(Batch(s), Batch(w)) \o <<s[Len(s) - 1], Last(w)>>
    BY <1>1, <1>2 DEF MatmulShape
  <2>3. s[Len(s) - 1] = b
    BY <1>1
  <2> QED
    BY <1>2, <1>5, <2>1, <2>2, <2>3
<1>7. Batch(s) = <<a>>
  BY <1>3
<1>8. <<a>> \o <<b, out>> = <<a, b, out>>
  <2>1. IsJoin(<<a>>, <<b, out>>, <<a, b, out>>)
    BY TuplesJoined
  <2> QED
    BY <2>1 DEF IsJoin
<1> QED
  BY <1>6, <1>7, <1>8 DEF s, w

\* Whatever the width of the input.
LinearGives(a, b, c, in, out) ==
  \A bias \in BOOLEAN : Linear(<<a, b, c>>, in, out, bias) = <<a, b, out>>

LEMMA LinearOfRows ==
  ASSUME NEW a \in Nat, NEW b \in Nat, NEW c \in Nat, NEW in \in Nat, NEW out \in Nat
  PROVE  LinearGives(a, b, c, in, out)
<1>1. Times(<<a, b, c>>, <<in, out>>) = <<a, b, out>>
  BY TimesMatrix
<1> DEFINE y == <<a, b, out>>
<1>2. y \in Seq(Nat) /\ y # <<>> /\ Last(y) = out
  BY RowsAre
<1>3. \A bias \in BOOLEAN : Linear(<<a, b, c>>, in, out, bias) = IF bias THEN Plus(y, <<out>>) ELSE y
  BY <1>1 DEF Linear
<1> HIDE DEF y
<1>4. Plus(y, <<out>>) = y
  BY <1>2, WidthInside, PlusAbsorbs
<1> QED
  BY <1>3, <1>4 DEF y, LinearGives

LEMMA LinearPasses ==
  ASSUME NEW a \in Activations, NEW in \in Nat, NEW out \in Nat, NEW bias \in BOOLEAN
  PROVE  Linear(a, in, out, bias) \in Activations
<1>1. <<in, out>> \in Activations /\ <<out>> \in Activations
  BY DEF Activations
<1>2. Times(a, <<in, out>>) \in Activations
  BY <1>1, TimesPasses
<1>3. Plus(Times(a, <<in, out>>), <<out>>) \in Activations
  BY <1>1, <1>2, PlusPasses
<1> QED
  BY <1>2, <1>3 DEF Linear

(* Normalizing, activating and dropping keep the shape. *)
LEMMA NormDims == ASSUME NEW e PROVE [i \in DOMAIN <<e>> |-> -i] = <<-1>>
<1>1. DOMAIN <<e>> = {1}
  OBVIOUS
<1>2. \A f, g : f = [i \in {1} |-> -i] /\ g = <<-1>> => f = g
  <2>1. DOMAIN <<-1>> = {1} /\ <<-1>>[1] = -1
    BY OneDim
  <2>2. <<-1>> = [i \in {1} |-> <<-1>>[i]]
    OBVIOUS
  <2>3. \A i \in {1} : <<-1>>[i] = -i
    BY <2>1
  <2> QED
    BY <2>2, <2>3
<1> QED
  BY <1>1, <1>2

LEMMA LayerNormKeeps ==
  ASSUME NEW s \in Seq(Nat), s # <<>>, NEW e \in Nat, Last(s) = e
  PROVE  LayerNorm(s, <<e>>) = s
<1> DEFINE mean == Reduced(s, <<-1>>, TRUE)
<1>1. mean \in Seq(Nat) /\ Inside(mean, s)
  BY LastReduced
<1>2. <<e>> \in Seq(Nat) /\ Inside(<<e>>, s)
  BY WidthInside
<1>3. LayerNorm(s, <<e>>) = Plus(Plus(Plus(s, mean), <<e>>), <<e>>)
  BY NormDims DEF LayerNorm
<1> HIDE DEF mean
<1>4. Plus(s, mean) = s /\ Plus(s, <<e>>) = s
  BY <1>1, <1>2, PlusAbsorbs
<1> QED
  BY <1>3, <1>4

LEMMA LayerNormPasses ==
  ASSUME NEW a \in Activations, NEW e \in Nat PROVE LayerNorm(a, <<e>>) \in Activations
<1> DEFINE mean == Reduced(a, <<-1>>, TRUE)
<1>1. mean \in Activations
  BY LastReducedPasses
<1>2. <<e>> \in Activations
  BY DEF Activations
<1>3. LayerNorm(a, <<e>>) = Plus(Plus(Plus(a, mean), <<e>>), <<e>>)
  BY NormDims DEF LayerNorm
<1> HIDE DEF mean
<1> QED
  BY <1>1, <1>2, <1>3, PlusPasses

LEMMA RMSNormKeeps ==
  ASSUME NEW s \in Seq(Nat), s # <<>>, NEW e \in Nat, Last(s) = e
  PROVE  RMSNorm(s, e) = s
<1>1. Plus(s, Reduced(s, <<-1>>, TRUE)) = s
  BY LastReduced, PlusAbsorbs
<1>2. Plus(s, <<e>>) = s
  BY WidthInside, PlusAbsorbs
<1> QED
  BY <1>1, <1>2 DEF RMSNorm

LEMMA RMSNormPasses ==
  ASSUME NEW a \in Activations, NEW e \in Nat PROVE RMSNorm(a, e) \in Activations
<1>0. <<e>> \in Activations
  BY DEF Activations
<1>1. Reduced(a, <<-1>>, TRUE) \in Activations /\ <<e>> \in Activations
  BY <1>0, LastReducedPasses
<1>2. Plus(a, Reduced(a, <<-1>>, TRUE)) \in Activations
  BY <1>1, PlusPasses
<1> QED
  BY <1>1, <1>2, PlusPasses DEF RMSNorm

LEMMA ActivationKeeps ==
  ASSUME NEW s \in Seq(Nat) PROVE Activation(s) = s /\ Dropout(s) = s
  BY InsideItself, NothingInside, PlusAbsorbs DEF Activation, Dropout

LEMMA ActivationPasses ==
  ASSUME NEW a \in Activations PROVE Activation(a) \in Activations /\ Dropout(a) \in Activations
<1>1. <<>> \in Activations
  BY DEF Activations
<1> QED
  BY <1>1, PlusPasses DEF Activation, Dropout

LEMMA SoftmaxKeeps ==
  ASSUME NEW s \in Seq(Nat), s # <<>> PROVE Softmax(s) = s
  BY LastReduced, PlusAbsorbs DEF Softmax

LEMMA SoftmaxPasses == ASSUME NEW a \in Activations PROVE Softmax(a) \in Activations
  BY LastReducedPasses, PlusPasses DEF Softmax

(* The statistics of a batch are over the first dimension, which is dropped; the running
   ones are a vector of the features. *)
LEMMA FirstReduced ==
  ASSUME NEW s \in Seq(Nat), s # <<>>
  PROVE  /\ Reduced(s, <<0>>, FALSE) = RemoveAt(s, 1)
         /\ RemoveAt(s, 1) \in Seq(Nat) /\ DOMAIN RemoveAt(s, 1) = 1..(Len(s) - 1)
         /\ \A j \in 1..(Len(s) - 1) : RemoveAt(s, 1)[j] = s[j + 1]
<1>1. Len(s) \in Nat /\ Len(s) >= 1 /\ DOMAIN s = 1..Len(s)
  OBVIOUS
<1>2. <<0>> \in Seq(Int) /\ <<0>> # Whole /\ ToSet(<<0>>) = {0} /\ DOMAIN <<0>> = {1} /\ <<0>>[1] = 0
  <2>1. <<0>> \in Seq(Int) /\ DOMAIN <<0>> = {1} /\ <<0>>[1] = 0
    OBVIOUS
  <2>2. <<0>> # Whole
    BY <2>1, TensorAssumption
  <2> QED
    BY <2>1, <2>2 DEF ToSet
<1>3. Index(Len(s), 0) = 1
  BY DEF Index
<1>4. Reduced(s, <<0>>, FALSE) = FoldLeft(PopDim, s, Descending(<<0>>))
  <2>1. \A d \in ToSet(<<0>>) : Index(Len(s), d) \in DOMAIN s
    BY <1>1, <1>2, <1>3
  <2>2. Reduced(s, <<0>>, FALSE) = ReduceShape(s, <<0>>, FALSE)
    BY <1>2, <2>1, RaisesIsNone DEF Reduced
  <2> QED
    BY <1>2, <2>2 DEF ReduceShape
<1>5. Descending(<<0>>) = <<0>>
  BY <1>2, DescendingOfOne
<1>6. FoldLeft(PopDim, s, <<0>>) = PopDim(s, 0)
  BY PopOnly, 0 \in Int DEF PoppedTo
<1>7. PopDim(s, 0) = RemoveAt(s, 1)
  BY <1>3 DEF PopDim
<1>8. /\ RemoveAt(s, 1) \in Seq(Nat) /\ DOMAIN RemoveAt(s, 1) = 1..(Len(s) - 1)
      /\ \A j \in 1..(Len(s) - 1) : RemoveAt(s, 1)[j] = IF j < 1 THEN s[j] ELSE s[j + 1]
  <2>1. 1 \in 1..Len(s)
    BY <1>1
  <2> QED
    BY <2>1, RemoveAtKeeps
<1>9. \A j \in 1..(Len(s) - 1) : RemoveAt(s, 1)[j] = s[j + 1]
  <2>1. \A j \in 1..(Len(s) - 1) : ~(j < 1)
    BY <1>1
  <2> QED
    BY <1>8, <2>1
<1>10. Reduced(s, <<0>>, FALSE) = RemoveAt(s, 1)
  BY <1>4, <1>5, <1>6, <1>7, Zenon
<1> QED
  BY <1>8, <1>9, <1>10

LEMMA BatchNormKeeps ==
  ASSUME NEW a \in Nat, NEW b \in Nat, NEW c \in Nat, NEW training \in BOOLEAN
  PROVE  BatchNorm1d(<<a, b, c>>, c, training) = <<a, b, c>>
<1> DEFINE s == <<a, b, c>>
           r == RemoveAt(s, 1)
<1>1. s \in Seq(Nat) /\ s # <<>> /\ Len(s) = 3 /\ s[1] = a /\ s[2] = b /\ s[3] = c /\ Last(s) = c
  BY RowsAre
<1> HIDE DEF s
<1>2. /\ Reduced(s, <<0>>, FALSE) = r /\ r \in Seq(Nat) /\ DOMAIN r = 1..2
      /\ r[1] = s[2] /\ r[2] = s[3]
  <2>1. /\ Reduced(s, <<0>>, FALSE) = r /\ r \in Seq(Nat) /\ DOMAIN r = 1..(Len(s) - 1)
        /\ \A j \in 1..(Len(s) - 1) : r[j] = s[j + 1]
    BY <1>1, FirstReduced
  <2>2. Len(s) - 1 = 2 /\ 1 \in 1..2 /\ 2 \in 1..2 /\ 1 + 1 = 2 /\ 2 + 1 = 3
    BY <1>1
  <2> HIDE DEF r
  <2> QED
    BY <2>1, <2>2
<1> HIDE DEF r
<1>3. Inside(r, s)
  <2>1. Len(r) = 2
    BY <1>2
  <2>2. ASSUME NEW i \in 0..(Len(r) - 1) PROVE FromRight(r, i) = FromRight(s, i)
    <3>1. i \in Nat /\ i < Len(r) /\ i < Len(s) /\ (i = 0 \/ i = 1)
      BY <1>1, <2>1
    <3>2. FromRight(r, i) = r[Len(r) - i] /\ FromRight(s, i) = s[Len(s) - i]
      BY <1>1, <1>2, <3>1, FromRightIs
    <3> QED
      BY <1>1, <1>2, <2>1, <3>1, <3>2
  <2> QED
    BY <1>1, <2>1, <2>2 DEF Inside
<1>4. <<c>> \in Seq(Nat) /\ Inside(<<c>>, s)
  BY <1>1, WidthInside
<1>5. Plus(s, r) = s /\ Plus(s, <<c>>) = s
  BY <1>1, <1>2, <1>3, <1>4, PlusAbsorbs
<1>6. BatchNorm1d(s, c, training) = s
  BY <1>2, <1>5 DEF BatchNorm1d
<1> QED
  BY <1>6 DEF s

LEMMA BatchNormPasses ==
  ASSUME NEW a \in Activations, NEW c \in Nat, NEW training \in BOOLEAN
  PROVE  BatchNorm1d(a, c, training) \in Activations
<1>1. Reduced(a, <<0>>, FALSE) \in Activations
  <2>1. CASE a = Raises
    BY <2>1 DEF Reduced, Activations
  <2>2. CASE a = <<>>
    <3>1. <<0>> \in Seq(Int) /\ DOMAIN <<0>> = {1} /\ <<0>>[1] = 0
      OBVIOUS
    <3>2. <<0>> # Whole /\ 0 \in ToSet(<<0>>) /\ Index(Len(a), 0) \notin DOMAIN a
      <4>1. <<0>> # Whole
        BY <3>1, TensorAssumption
      <4>2. 0 \in ToSet(<<0>>)
        BY <3>1 DEF ToSet
      <4> QED
        BY <2>2, <4>1, <4>2 DEF Index
    <3>3. Reduced(a, <<0>>, FALSE) = Raises
      BY <3>2 DEF Reduced
    <3> QED
      BY <3>3 DEF Activations
  <2>3. CASE a \in Seq(Nat) /\ a # <<>>
    BY <2>3, FirstReduced DEF Activations
  <2> QED
    BY <2>1, <2>2, <2>3 DEF Activations
<1>2. <<c>> \in Activations
  BY DEF Activations
<1> DEFINE mean == IF training THEN Reduced(a, <<0>>, FALSE) ELSE <<c>>
<1>3. mean \in Activations /\ BatchNorm1d(a, c, training) = Plus(Plus(a, mean), <<c>>)
  BY <1>1, <1>2 DEF BatchNorm1d
<1> HIDE DEF mean
<1> QED
  BY <1>2, <1>3, PlusPasses
-----------------------------------------------------------------------------
(* Attention.  The heads' products fit each other whatever the query, and its rows are kept
   if it has the embedding's width. *)
LEMMA HeadsDivide ==
  ASSUME NEW e \in Nat, NEW heads \in Nat \ {0}, e % heads = 0
  PROVE  e \div heads \in Nat /\ heads * (e \div heads) = e
<1> DEFINE dim == e \div heads
<1>1. e = heads * dim + (e % heads) /\ dim \in Int
  BY Z3
<1>2. dim >= 0
  BY Z3
<1> QED
  BY <1>1, <1>2

LEMMA TimesHeads ==
  ASSUME NEW a \in Nat, NEW b \in Nat, NEW m \in Nat, NEW n \in Nat, NEW k \in Nat, NEW l \in Nat
  PROVE  Times(<<a, b, m, n>>, <<a, b, k, l>>) = <<a, b, m, l>>
<1> DEFINE s == <<a, b, m, n>>  w == <<a, b, k, l>>
<1>1. s \in Seq(Nat) /\ s # <<>> /\ Len(s) = 4 /\ s[1] = a /\ s[2] = b /\ s[3] = m /\ s[4] = n
  OBVIOUS
<1>2. w \in Seq(Nat) /\ w # <<>> /\ Len(w) = 4 /\ w[1] = a /\ w[2] = b /\ w[4] = l /\ Last(w) = l
  BY DEF Last
<1> HIDE DEF s, w
<1>3. ASSUME NEW u \in Seq(Nat), Len(u) = 4, u[1] = a, u[2] = b PROVE Batch(u) = <<a, b>>
  <2>0. Len(u) >= 2
    BY <1>3
  <2>1. IsBatch(Batch(u), u)
    BY <2>0, BatchIs
  <2>2. Batch(u) \in Seq(Nat) /\ Len(Batch(u)) = 2
    BY <1>3, <2>1 DEF IsBatch
  <2>3. Batch(u)[1] = a /\ Batch(u)[2] = b
    BY <1>3, <2>1 DEF IsBatch
  <2> QED
    BY <2>2, <2>3
<1>4. Batch(s) = <<a, b>> /\ Batch(w) = <<a, b>>
  BY <1>1, <1>2, <1>3
<1>5. <<a, b>> \in Seq(Nat)
  OBVIOUS
<1>6. Broadcasts(<<a, b>>, <<a, b>>) /\ BroadcastShapes(<<a, b>>, <<a, b>>) = <<a, b>>
  BY <1>5, InsideItself, Absorbs
<1>7. Times(s, w) = <<a, b>> \o <<m, l>>
  <2>1. Times(s, w) = MatmulShape(s, w)
    BY <1>1, <1>2, <1>4, <1>6, RaisesIsNone DEF Times
  <2>2. MatmulShape(s, w) = BroadcastShapes(Batch(s), Batch(w)) \o <<s[Len(s) - 1], Last(w)>>
    BY <1>1, <1>2 DEF MatmulShape
  <2>3. s[Len(s) - 1] = m
    BY <1>1
  <2> QED
    BY <1>2, <1>4, <1>6, <2>1, <2>2, <2>3
<1>8. <<a, b>> \o <<m, l>> = <<a, b, m, l>>
  <2>1. IsJoin(<<a, b>>, <<m, l>>, <<a, b, m, l>>)
    BY TuplesJoined
  <2> QED
    BY <2>1 DEF IsJoin
<1> QED
  BY <1>7, <1>8 DEF s, w

LEMMA SwappedRows ==
  ASSUME NEW a \in Nat, NEW b \in Nat, NEW c \in Nat
  PROVE  Swapped(<<a, b, c>>) = <<b, a, c>>
<1> DEFINE s == <<a, b, c>>
<1>1. s \in Seq(Nat) /\ Len(s) = 3 /\ s[1] = a /\ s[2] = b /\ s[3] = c
  BY RowsAre
<1> HIDE DEF s
<1>2. SubSeq(s, 3, Len(s)) = <<c>>
  <2>1. 2 \in 0..Len(s) /\ 2 + 1 = 3 /\ Len(s) - 2 = 1 /\ 1 \in 1..1
    BY <1>1
  <2>2. /\ SubSeq(s, 2 + 1, Len(s)) \in Seq(Nat)
        /\ Len(SubSeq(s, 2 + 1, Len(s))) = Len(s) - 2
        /\ \A i \in 1..(Len(s) - 2) : SubSeq(s, 2 + 1, Len(s))[i] = s[2 + i]
    BY <1>1, <2>1, RestKeeps
  <2> DEFINE r == SubSeq(s, 3, Len(s))
  <2>3. r \in Seq(Nat) /\ Len(r) = 1 /\ r[1] = s[2 + 1]
    BY <2>1, <2>2
  <2> HIDE DEF r
  <2>4. r = <<c>>
    BY <1>1, <2>3
  <2> QED
    BY <2>4 DEF r
<1>3. <<b, a>> \o <<c>> = <<b, a, c>>
  <2> DEFINE t == <<b, a>>  u == <<c>>  v == <<b, a, c>>
  <2>1. JoinOf(t, u, v, 2, 1)
    BY DEF JoinOf
  <2> HIDE DEF t, u, v
  <2>2. IsJoin(t, u, v)
    BY <2>1, JoinIs
  <2> QED
    BY <2>2 DEF t, u, v, IsJoin
<1>4. Swapped(s) = <<s[2], s[1]>> \o SubSeq(s, 3, Len(s))
  BY <1>1, RaisesIsNone DEF Swapped
<1> QED
  BY <1>1, <1>2, <1>3, <1>4 DEF s

(* What the heads make of any three-dimensional input, before the output projection. *)
Heads(s, e, heads) ==
  LET dim  == e \div heads
      proj == View3(Linear(s, e, e, TRUE), <<s[1], s[2], heads, dim>>)
      head == IF proj = Raises THEN Raises ELSE <<s[2], heads, s[1], dim>>
      weights == Times(head, IF head = Raises THEN Raises ELSE <<s[2], heads, dim, s[1]>>)
  IN View3(Times(Softmax(weights), head), s)

LEMMA HeadsAre ==
  ASSUME NEW a \in Nat, NEW b \in Nat, NEW c \in Nat, NEW e \in Nat, NEW heads \in Nat \ {0},
         e % heads = 0
  PROVE  /\ Heads(<<a, b, c>>, e, heads) \in {<<a, b, c>>, Raises}
         /\ c = e => Heads(<<a, b, c>>, e, heads) = <<a, b, c>>
<1> DEFINE s    == <<a, b, c>>
           dim  == e \div heads
           proj == View3(Linear(s, e, e, TRUE), <<a, b, heads, dim>>)
           q    == <<b, heads, a, dim>>
           k    == <<b, heads, dim, a>>
           w    == <<b, heads, a, a>>
<1>1. dim \in Nat /\ heads * dim = e
  BY HeadsDivide
<1> HIDE DEF dim
<1>2. Linear(s, e, e, TRUE) = <<a, b, e>>
  <2>1. LinearGives(a, b, c, e, e)
    BY LinearOfRows
  <2> QED
    BY <2>1 DEF LinearGives
<1>3. Size(<<a, b, e>>) = a * b * e /\ Size(<<a, b, heads, dim>>) = a * b * heads * dim
  <2>1. SizeOfThree(a, b, e) /\ SizeOfFour(a, b, heads, dim)
    BY <1>1, ThreeSized, FourSized
  <2> QED
    BY <2>1 DEF SizeOfThree, SizeOfFour
<1>4. a * b * heads * dim = a * b * e
  <2>1. a * b * heads * dim = a * b * (heads * dim)
    BY <1>1, Z3
  <2> QED
    BY <1>1, <2>1
<1>5. <<a, b, e>> \in Seq(Nat) /\ <<a, b, heads, dim>> \in Seq(Nat) /\ s \in Seq(Nat)
  BY <1>1
<1>6. proj = <<a, b, heads, dim>> /\ proj # Raises
  BY <1>2, <1>3, <1>4, <1>5, RaisesIsNone DEF View3
<1>7. q \in Seq(Nat) /\ k \in Seq(Nat) /\ w \in Seq(Nat) /\ q # Raises /\ w # <<>>
  <2>1. q \in Seq(Nat) /\ k \in Seq(Nat) /\ w \in Seq(Nat) /\ w # <<>>
    BY <1>1
  <2> QED
    BY <2>1, RaisesIsNone
<1>8. Times(q, k) = w
  BY <1>1, TimesHeads
<1>9. Softmax(w) = w
  <2> HIDE DEF w
  <2> QED
    BY <1>7, SoftmaxKeeps
<1>10. Times(w, q) = q
  BY <1>1, TimesHeads
<1>11. Heads(s, e, heads) = View3(q, s)
  <2>1. s[1] = a /\ s[2] = b
    OBVIOUS
  <2>2. Heads(s, e, heads) = View3(Times(Softmax(Times(q, k)), q), s)
    BY <1>6, <1>7, <2>1 DEF Heads, dim
  <2> HIDE DEF q, k, w, s
  <2> QED
    BY <1>8, <1>9, <1>10, <2>2
<1>12. View3(q, s) = IF Size(q) = Size(s) THEN s ELSE Raises
  <2> HIDE DEF q, s
  <2> QED
    BY <1>7 DEF View3
<1>13. c = e => Size(q) = Size(s)
  <2>1. Size(q) = b * heads * a * dim /\ Size(s) = a * b * c
    <3>1. SizeOfFour(b, heads, a, dim) /\ SizeOfThree(a, b, c)
      BY <1>1, ThreeSized, FourSized
    <3> QED
      BY <3>1 DEF SizeOfThree, SizeOfFour
  <2>2. b * heads * a * dim = a * b * (heads * dim)
    BY <1>1, Z3
  <2> QED
    BY <1>1, <2>1, <2>2
<1> QED
  BY <1>11, <1>12, <1>13 DEF s

HeadsKeep(a, b, c, e, heads) ==
  /\ Heads(<<a, b, c>>, e, heads) \in {<<a, b, c>>, Raises}
  /\ c = e => Heads(<<a, b, c>>, e, heads) = <<a, b, c>>

LEMMA HeadsDo ==
  ASSUME NEW a \in Nat, NEW b \in Nat, NEW c \in Nat, NEW e \in Nat, NEW heads \in Nat \ {0},
         e % heads = 0
  PROVE  HeadsKeep(a, b, c, e, heads)
  BY HeadsAre DEF HeadsKeep

(* The heads and the projection of their output. *)
Projected(s, e, heads) == Linear(Heads(s, e, heads), e, e, TRUE)
ProjectedIs(a, b, c, e, heads) ==
  /\ Projected(<<a, b, c>>, e, heads) \in {<<a, b, e>>, Raises}
  /\ c = e => Projected(<<a, b, c>>, e, heads) = <<a, b, e>>

LEMMA Projects ==
  ASSUME NEW a \in Nat, NEW b \in Nat, NEW c \in Nat, NEW e \in Nat, NEW heads \in Nat \ {0},
         e % heads = 0
  PROVE  ProjectedIs(a, b, c, e, heads)
<1> DEFINE s == <<a, b, c>>  o == <<a, b, e>>
<1>1. Heads(s, e, heads) \in {s, Raises} /\ (c = e => Heads(s, e, heads) = s)
  <2>1. HeadsKeep(a, b, c, e, heads)
    BY HeadsDo
  <2> QED
    BY <2>1 DEF HeadsKeep
<1>2. Linear(s, e, e, TRUE) = o
  <2>1. LinearGives(a, b, c, e, e)
    BY LinearOfRows
  <2> QED
    BY <2>1 DEF LinearGives
<1>3. Linear(Raises, e, e, TRUE) = Raises
  BY DEF Linear, Times, Plus
<1> HIDE DEF s, o
<1>4. Projected(s, e, heads) \in {o, Raises} /\ (c = e => Projected(s, e, heads) = o)
  BY <1>1, <1>2, <1>3 DEF Projected
<1> QED
  BY <1>4 DEF ProjectedIs, s, o

Attends(a, b, c, e, heads, first) ==
  /\ MultiheadAttention(<<a, b, c>>, e, heads, first) \in {<<a, b, e>>, Raises}
  /\ c = e => MultiheadAttention(<<a, b, c>>, e, heads, first) = <<a, b, c>>
SwappedIs(a, b, c) == Swapped(<<a, b, c>>) = <<b, a, c>>

LEMMA Swaps == ASSUME NEW a \in Nat, NEW b \in Nat, NEW c \in Nat PROVE SwappedIs(a, b, c)
  BY SwappedRows DEF SwappedIs

LEMMA AttentionIs ==
  ASSUME NEW a \in Nat, NEW b \in Nat, NEW c \in Nat, NEW e \in Nat, NEW heads \in Nat \ {0},
         e % heads = 0, NEW first \in BOOLEAN
  PROVE  Attends(a, b, c, e, heads, first)
<1> DEFINE q == <<a, b, c>>
           z == <<b, a, c>>
<1>1. q \in Seq(Nat) /\ Len(q) = 3
  BY RowsAre
<1>2. q # Raises
  BY <1>1, RaisesIsNone
<1>3. CASE first
  <2>1. Swapped(q) = z /\ Swapped(<<b, a, e>>) = <<a, b, e>>
    <3>1. SwappedIs(a, b, c) /\ SwappedIs(b, a, e)
      BY Swaps
    <3> QED
      BY <3>1 DEF SwappedIs
  <2>2. MultiheadAttention(q, e, heads, first) = Swapped(Projected(z, e, heads))
    <3> HIDE DEF q, z
    <3> QED
      BY <1>1, <1>2, <1>3, <2>1 DEF MultiheadAttention, Projected, Heads
  <2>3. /\ Projected(z, e, heads) \in {<<b, a, e>>, Raises}
        /\ c = e => Projected(z, e, heads) = <<b, a, e>>
    <3>1. ProjectedIs(b, a, c, e, heads)
      BY Projects
    <3> QED
      BY <3>1 DEF ProjectedIs
  <2>4. Swapped(Raises) = Raises
    BY DEF Swapped
  <2> DEFINE o == <<b, a, e>>  p == <<a, b, e>>
  <2>5. c = e => p = q
    OBVIOUS
  <2> HIDE DEF q, z, o, p
  <2>6. /\ MultiheadAttention(q, e, heads, first) \in {p, Raises}
        /\ c = e => MultiheadAttention(q, e, heads, first) = q
    BY <2>1, <2>2, <2>3, <2>4, <2>5 DEF o, p
  <2> QED
    BY <2>6 DEF Attends, q, p
<1>4. CASE ~first
  <2>2. MultiheadAttention(q, e, heads, first) = Projected(q, e, heads)
    <3> HIDE DEF q
    <3> QED
      BY <1>1, <1>2, <1>4 DEF MultiheadAttention, Projected, Heads
  <2>3. ProjectedIs(a, b, c, e, heads)
    BY Projects
  <2> QED
    BY <2>2, <2>3 DEF Attends, ProjectedIs
<1> QED
  BY <1>3, <1>4

LEMMA ThreeAre ==
  ASSUME NEW s \in Seq(Nat), Len(s) = 3
  PROVE  s[1] \in Nat /\ s[2] \in Nat /\ s[3] \in Nat /\ s = Rows(s[1], s[2], s[3])
<1>0. 1 \in 1..Len(s) /\ 2 \in 1..Len(s) /\ 3 \in 1..Len(s)
  OBVIOUS
<1>1. s[1] \in Nat /\ s[2] \in Nat /\ s[3] \in Nat
  BY <1>0, ShapeIs
<1> DEFINE r == <<s[1], s[2], s[3]>>
<1>2. r \in Seq(Nat) /\ Len(r) = 3 /\ r[1] = s[1] /\ r[2] = s[2] /\ r[3] = s[3]
  BY <1>1
<1> HIDE DEF r
<1>3. \A i \in 1..Len(s) : s[i] = r[i]
  BY <1>2
<1>4. s = r
  BY <1>2, <1>3, SeqEqual
<1> QED
  BY <1>1, <1>4 DEF r, Rows

LEMMA AttentionPasses ==
  ASSUME NEW q \in Activations, NEW e \in Nat, NEW heads \in Nat \ {0}, e % heads = 0,
         NEW first \in BOOLEAN
  PROVE  MultiheadAttention(q, e, heads, first) \in Activations
<1>1. CASE q = Raises \/ Len(q) # 3
  BY <1>1 DEF MultiheadAttention, Activations
<1>2. CASE q # Raises /\ Len(q) = 3
  <2>1. q \in Seq(Nat)
    BY <1>2 DEF Activations
  <2>2. PICK a \in Nat, b \in Nat, c \in Nat : q = Rows(a, b, c)
    BY <1>2, <2>1, ThreeAre
  <2>3. Attends(a, b, c, e, heads, first)
    BY AttentionIs
  <2>4. <<a, b, e>> \in Seq(Nat)
    OBVIOUS
  <2> QED
    BY <2>2, <2>3, <2>4 DEF Attends, Activations, Rows
<1> QED
  BY <1>1, <1>2

LEMMA FeedForwardIs ==
  ASSUME NEW a \in Nat, NEW b \in Nat, NEW e \in Nat, NEW hidden \in Nat
  PROVE  FeedForward(Rows(a, b, e), e, hidden) = Rows(a, b, e)
<1>1. Linear(Rows(a, b, e), e, hidden, TRUE) = Rows(a, b, hidden)
  <2>1. LinearGives(a, b, e, e, hidden)
    BY LinearOfRows
  <2> QED
    BY <2>1 DEF LinearGives, Rows
<1>2. Rows(a, b, hidden) \in Seq(Nat) /\ Rows(a, b, e) \in Seq(Nat)
  BY DEF Rows
<1>3. Dropout(Activation(Rows(a, b, hidden))) = Rows(a, b, hidden)
  BY <1>2, ActivationKeeps
<1>4. Linear(Rows(a, b, hidden), hidden, e, TRUE) = Rows(a, b, e)
  <2>1. LinearGives(a, b, hidden, hidden, e)
    BY LinearOfRows
  <2> QED
    BY <2>1 DEF LinearGives, Rows
<1>5. Dropout(Rows(a, b, e)) = Rows(a, b, e)
  BY <1>2, ActivationKeeps
<1> QED
  BY <1>1, <1>3, <1>4, <1>5 DEF FeedForward

LEMMA FeedForwardPasses ==
  ASSUME NEW a \in Activations, NEW e \in Nat, NEW hidden \in Nat
  PROVE  FeedForward(a, e, hidden) \in Activations
<1>1. Linear(a, e, hidden, TRUE) \in Activations
  BY LinearPasses
<1>2. Dropout(Activation(Linear(a, e, hidden, TRUE))) \in Activations
  BY <1>1, ActivationPasses
<1>3. Linear(Dropout(Activation(Linear(a, e, hidden, TRUE))), hidden, e, TRUE) \in Activations
  BY <1>2, LinearPasses
<1> QED
  BY <1>3, ActivationPasses DEF FeedForward

LEMMA EncoderIs ==
  ASSUME NEW a \in Nat, NEW b \in Nat, NEW e \in Nat, NEW heads \in Nat \ {0},
         e % heads = 0, NEW hidden \in Nat, NEW first \in BOOLEAN, NEW norm \in BOOLEAN
  PROVE  EncoderLayer(Rows(a, b, e), e, heads, hidden, first, norm) = Rows(a, b, e)
<1> DEFINE s == Rows(a, b, e)
<1>1. s \in Seq(Nat) /\ s # <<>> /\ Last(s) = e
  BY RowsAre DEF Rows
<1>2. MultiheadAttention(s, e, heads, first) = s
  <2>1. Attends(a, b, e, e, heads, first)
    BY AttentionIs
  <2> QED
    BY <2>1 DEF Attends, Rows
<1>3. FeedForward(s, e, hidden) = s
  BY FeedForwardIs
<1> HIDE DEF s
<1>4. LayerNorm(s, <<e>>) = s /\ Plus(s, s) = s /\ Dropout(s) = s
  BY <1>1, LayerNormKeeps, ActivationKeeps DEF Activation
<1> QED
  BY <1>2, <1>3, <1>4 DEF EncoderLayer, s

LEMMA EncoderPasses ==
  ASSUME NEW a \in Activations, NEW e \in Nat, NEW heads \in Nat \ {0},
         e % heads = 0, NEW hidden \in Nat, NEW first \in BOOLEAN, NEW norm \in BOOLEAN
  PROVE  EncoderLayer(a, e, heads, hidden, first, norm) \in Activations
<1>1. CASE norm
  <2> DEFINE b == Plus(a, Dropout(MultiheadAttention(LayerNorm(a, <<e>>), e, heads, first)))
  <2>1. b \in Activations
    BY LayerNormPasses, AttentionPasses, ActivationPasses, PlusPasses
  <2>2. EncoderLayer(a, e, heads, hidden, first, norm) = Plus(b, FeedForward(LayerNorm(b, <<e>>), e, hidden))
    BY <1>1 DEF EncoderLayer
  <2> HIDE DEF b
  <2> QED
    BY <2>1, <2>2, LayerNormPasses, FeedForwardPasses, PlusPasses
<1>2. CASE ~norm
  <2> DEFINE b == LayerNorm(Plus(a, Dropout(MultiheadAttention(a, e, heads, first))), <<e>>)
  <2>1. b \in Activations
    BY LayerNormPasses, AttentionPasses, ActivationPasses, PlusPasses
  <2>2. EncoderLayer(a, e, heads, hidden, first, norm) = LayerNorm(Plus(b, FeedForward(b, e, hidden)), <<e>>)
    BY <1>2 DEF EncoderLayer
  <2> HIDE DEF b
  <2> QED
    BY <2>1, <2>2, LayerNormPasses, FeedForwardPasses, PlusPasses
<1> QED
  BY <1>1, <1>2
-----------------------------------------------------------------------------
(* What is passed on is a shape or an exception; as long as the layers have fitted, it has
   the rows of what they were given, and another width perhaps. *)
KeptRows(y) == \E c \in Nat : y = Rows(given[1], given[2], c)
LayerInvariant ==
  /\ x \in Activations /\ given \in Seq(Nat) /\ (fit \in BOOLEAN)
  /\ fit /\ Len(given) = 3 => KeptRows(x)

LEMMA LayersStart == ASSUME LayerInit PROVE LayerInvariant
<1>1. x \in Seq(Nat) /\ given = x /\ fit = TRUE
  BY LayerAssumption DEF LayerInit
<1>2. Len(given) = 3 => KeptRows(x)
  BY <1>1, ThreeAre DEF KeptRows
<1> QED
  BY <1>1, <1>2 DEF LayerInvariant, Activations

(* What a layer of the width e has to do. *)
Fits(y, e) ==
  /\ y \in Activations
  /\ \A a, b \in Nat : x = Rows(a, b, e) => \E c \in Nat : y = Rows(a, b, c)

LEMMA WidthIs ==
  ASSUME NEW a \in Nat, NEW b \in Nat, NEW c \in Nat
  PROVE  /\ Rows(a, b, c) \in Seq(Nat) /\ Rows(a, b, c) # <<>> /\ Last(Rows(a, b, c)) = c
         /\ Front(Rows(a, b, c)) = Front(Rows(a, b, 0)) /\ Rows(a, b, c) # Raises
<1>1. Rows(a, b, c) \in Seq(Nat) /\ Rows(a, b, c) # <<>> /\ Last(Rows(a, b, c)) = c
  BY RowsAre DEF Rows
<1>2. ASSUME NEW w \in Nat PROVE Front(Rows(a, b, w)) = <<a, b>>
  <2> DEFINE s == Rows(a, b, w)
  <2>1. s \in Seq(Nat) /\ Len(s) = 3 /\ s[1] = a /\ s[2] = b
    BY RowsAre DEF Rows
  <2> HIDE DEF s
  <2>2. 2 \in 0..Len(s) /\ 2 \in Nat
    BY <2>1
  <2> DEFINE r == SubSeq(s, 1, 2)
  <2>3. r \in Seq(Nat) /\ Len(r) = 2 /\ r[1] = s[1] /\ r[2] = s[2]
    BY <2>1
  <2> HIDE DEF r
  <2>4. r = <<a, b>>
    BY <2>1, <2>3
  <2>5. Front(s) = SubSeq(s, 1, 2)
    BY <2>1 DEF Front
  <2> QED
    BY <2>4, <2>5 DEF r, s
<1>3. 0 \in Nat
  OBVIOUS
<1>4. Front(Rows(a, b, c)) = <<a, b>> /\ Front(Rows(a, b, 0)) = <<a, b>>
  BY <1>2, <1>3
<1> QED
  BY <1>1, <1>4, RaisesIsNone

LEMMA LayerFits ==
  ASSUME LayerInvariant, NEW y, NEW e, Fits(y, e), Layer(y, e)
  PROVE  LayerInvariant'
<1>1. /\ x \in Activations /\ x # Raises /\ x' = y /\ given' = given /\ y \in Activations
      /\ fit' = (fit /\ x # <<>> /\ Last(x) = e)
  BY DEF Layer, Fits, LayerInvariant
<1>2. fit' /\ Len(given) = 3 => KeptRows(x)'
  <2> SUFFICES ASSUME fit', Len(given) = 3 PROVE KeptRows(x)'
    OBVIOUS
  <2>1. fit /\ Last(x) = e
    BY <1>1
  <2>2. PICK c \in Nat : x = Rows(given[1], given[2], c)
    BY <2>1 DEF LayerInvariant, KeptRows
  <2>3. given[1] \in Nat /\ given[2] \in Nat
    BY ThreeAre DEF LayerInvariant
  <2>4. c = e
    BY <2>1, <2>2, <2>3, WidthIs
  <2>5. \E w \in Nat : y = Rows(given[1], given[2], w)
    BY <2>2, <2>3, <2>4 DEF Fits
  <2> QED
    BY <1>1, <2>5 DEF KeptRows
<1>3. fit' \in BOOLEAN
  BY <1>1
<1> QED
  BY <1>1, <1>2, <1>3 DEF LayerInvariant, Activations

LEMMA LinearFits ==
  ASSUME NEW e \in Nat, NEW out \in Nat, NEW bias \in BOOLEAN, x \in Activations
  PROVE  Fits(Linear(x, e, out, bias), e)
<1>1. Linear(x, e, out, bias) \in Activations
  BY LinearPasses
<1>2. ASSUME NEW a \in Nat, NEW b \in Nat, x = Rows(a, b, e)
      PROVE  Linear(x, e, out, bias) = Rows(a, b, out)
  <2>1. LinearGives(a, b, e, e, out)
    BY LinearOfRows
  <2> QED
    BY <1>2, <2>1 DEF LinearGives, Rows
<1> QED
  BY <1>1, <1>2 DEF Fits

(* Those that keep the shape of what they are given. *)
LEMMA Unchanged ==
  ASSUME NEW y \in Activations, NEW e \in Nat, \A a, b \in Nat : x = Rows(a, b, e) => y = x
  PROVE  Fits(y, e)
  BY DEF Fits

LEMMA NormsFit ==
  ASSUME NEW e \in Nat, NEW training \in BOOLEAN, x \in Activations
  PROVE  /\ Fits(LayerNorm(x, <<e>>), e) /\ Fits(RMSNorm(x, e), e)
         /\ Fits(BatchNorm1d(x, e, training), e)
<1>1. ASSUME NEW a \in Nat, NEW b \in Nat, x = Rows(a, b, e)
      PROVE  LayerNorm(x, <<e>>) = x /\ RMSNorm(x, e) = x /\ BatchNorm1d(x, e, training) = x
  <2>1. x \in Seq(Nat) /\ x # <<>> /\ Last(x) = e
    BY <1>1, WidthIs
  <2>2. BatchNorm1d(x, e, training) = x
    BY <1>1, BatchNormKeeps DEF Rows
  <2> QED
    BY <2>1, <2>2, LayerNormKeeps, RMSNormKeeps
<1>2. /\ LayerNorm(x, <<e>>) \in Activations /\ RMSNorm(x, e) \in Activations
      /\ BatchNorm1d(x, e, training) \in Activations
  BY LayerNormPasses, RMSNormPasses, BatchNormPasses
<1> QED
  BY <1>1, <1>2, Unchanged

LEMMA AttentionsFit ==
  ASSUME NEW e \in Nat, NEW heads \in Nat \ {0}, e % heads = 0, NEW first \in BOOLEAN,
         NEW norm \in BOOLEAN, x \in Activations
  PROVE  /\ Fits(MultiheadAttention(x, e, heads, first), e)
         /\ Fits(EncoderLayer(x, e, heads, 2, first, norm), e)
<1>0. 2 \in Nat
  OBVIOUS
<1>1. ASSUME NEW a \in Nat, NEW b \in Nat, x = Rows(a, b, e)
      PROVE  /\ MultiheadAttention(x, e, heads, first) = x
             /\ EncoderLayer(x, e, heads, 2, first, norm) = x
  <2>1. Attends(a, b, e, e, heads, first)
    BY AttentionIs
  <2>2. EncoderLayer(Rows(a, b, e), e, heads, 2, first, norm) = Rows(a, b, e)
    BY <1>0, EncoderIs
  <2> QED
    BY <1>1, <2>1, <2>2 DEF Attends, Rows
<1>2. /\ MultiheadAttention(x, e, heads, first) \in Activations
      /\ EncoderLayer(x, e, heads, 2, first, norm) \in Activations
  BY <1>0, AttentionPasses, EncoderPasses
<1> QED
  BY <1>1, <1>2, Unchanged

(* The layers that have no width of their own. *)
LEMMA ActivationsFit ==
  ASSUME x \in Seq(Nat)
  PROVE  Fits(Activation(x), Last(x)) /\ Fits(Softmax(x), Last(x)) /\ Fits(Dropout(x), Last(x))
<1>1. Activation(x) \in Activations /\ Softmax(x) \in Activations /\ Dropout(x) \in Activations
  BY ActivationPasses, SoftmaxPasses DEF Activations
<1>2. CASE x = <<>>
  <2>1. \A a, b : x # Rows(a, b, Last(x))
    BY <1>2 DEF Rows
  <2> QED
    BY <1>1, <2>1 DEF Fits
<1>3. CASE x # <<>>
  <2>1. Len(x) \in 1..Len(x)
    BY <1>3
  <2>2. Last(x) \in Nat
    BY <2>1, ShapeIs DEF Last
  <2>3. Activation(x) = x /\ Softmax(x) = x /\ Dropout(x) = x
    BY <1>3, ActivationKeeps, SoftmaxKeeps
  <2> QED
    BY <1>1, <2>2, <2>3, Unchanged
<1> QED
  BY <1>2, <1>3

LEMMA EmbedKeeps == ASSUME LayerInvariant, NEW e \in Nat, Embed(e) PROVE LayerInvariant'
<1>1. x \in Seq(Nat) /\ x' = Append(x, e) /\ given' = x' /\ fit' = fit
  BY DEF Embed, Embedding, LayerInvariant, Activations
<1>2. x' \in Seq(Nat)
  BY <1>1
<1>3. Len(given') = 3 => \E c \in Nat : x' = Rows(given'[1], given'[2], c)
  BY <1>1, <1>2, ThreeAre
<1> QED
  BY <1>1, <1>2, <1>3 DEF LayerInvariant, Activations, KeptRows

LEMMA LayerStep ==
  ASSUME LayerInvariant, [LayerNext]_layerVars PROVE LayerInvariant'
<1>0. x \in Activations
  BY DEF LayerInvariant
<1>1. CASE UNCHANGED layerVars
  BY <1>1 DEF layerVars, LayerInvariant, Activations, KeptRows
<1>2. CASE Loss
  BY <1>2 DEF Loss, LayerInvariant, Activations, KeptRows
<1>3. ASSUME NEW e \in Features, NEW out \in Features, NEW bias \in BOOLEAN,
             Layer(Linear(x, e, out, bias), e)
      PROVE  LayerInvariant'
  BY <1>0, <1>3, LayerAssumption, LinearFits, LayerFits
<1>4. ASSUME NEW e \in Features, NEW training \in BOOLEAN,
             \/ Layer(LayerNorm(x, <<e>>), e) \/ Layer(RMSNorm(x, e), e)
             \/ Layer(BatchNorm1d(x, e, training), e)
      PROVE  LayerInvariant'
  <2>1. e \in Nat
    BY LayerAssumption
  <2>2. /\ Fits(LayerNorm(x, <<e>>), e) /\ Fits(RMSNorm(x, e), e)
        /\ Fits(BatchNorm1d(x, e, training), e)
    BY <1>0, <2>1, NormsFit
  <2> QED
    BY <1>4, <2>2, LayerFits
<1>5. ASSUME NEW e \in Features, NEW heads \in HeadCounts, NEW first \in BOOLEAN,
             NEW norm_first \in BOOLEAN, e % heads = 0,
             \/ Layer(MultiheadAttention(x, e, heads, first), e)
             \/ Layer(EncoderLayer(x, e, heads, 2, first, norm_first), e)
      PROVE  LayerInvariant'
  <2>1. e \in Nat /\ heads \in Nat \ {0}
    BY LayerAssumption
  <2>2. /\ Fits(MultiheadAttention(x, e, heads, first), e)
        /\ Fits(EncoderLayer(x, e, heads, 2, first, norm_first), e)
    BY <1>0, <1>5, <2>1, AttentionsFit
  <2> QED
    BY <1>5, <2>2, LayerFits
<1>6. ASSUME NEW e \in Features, Embed(e) PROVE LayerInvariant'
  BY <1>6, LayerAssumption, EmbedKeeps
<1>7. ASSUME \/ Layer(Activation(x), Last(x)) \/ Layer(Softmax(x), Last(x))
             \/ Layer(Dropout(x), Last(x))
      PROVE  LayerInvariant'
  <2>0. x \in Seq(Nat)
    BY <1>0, <1>7 DEF Layer, Activations
  <2>1. /\ Fits(Activation(x), Last(x)) /\ Fits(Softmax(x), Last(x)) /\ Fits(Dropout(x), Last(x))
    BY <2>0, ActivationsFit
  <2> QED
    BY <1>7, <2>1, LayerFits
<1>8. TRUE \in BOOLEAN
  OBVIOUS
<1> QED
  BY <1>1, <1>2, <1>3, <1>4, <1>5, <1>6, <1>7, <1>8 DEF LayerNext

LEMMA RowsKept == ASSUME LayerInvariant PROVE FitKeepsRows
<1> SUFFICES ASSUME fit, Len(given) = 3 PROVE x # Raises /\ Front(x) = Front(given)
  BY DEF FitKeepsRows
<1>1. PICK c \in Nat : x = Rows(given[1], given[2], c)
  BY DEF LayerInvariant, KeptRows
<1>2. /\ given[1] \in Nat /\ given[2] \in Nat /\ given[3] \in Nat
      /\ given = Rows(given[1], given[2], given[3])
  BY ThreeAre DEF LayerInvariant
<1> DEFINE a == given[1]  b == given[2]  d == given[3]
<1>3. a \in Nat /\ b \in Nat /\ d \in Nat /\ x = Rows(a, b, c) /\ given = Rows(a, b, d)
  BY <1>1, <1>2
<1> HIDE DEF a, b, d
<1>4. /\ Front(Rows(a, b, c)) = Front(Rows(a, b, 0)) /\ Rows(a, b, c) # Raises
      /\ Front(Rows(a, b, d)) = Front(Rows(a, b, 0))
  BY <1>3, WidthIs
<1> QED
  BY <1>3, <1>4

(* For any widths, heads and inputs: through any number of layers that have the width of
   what they are given, three-dimensional activations get without an exception and keep
   their first two dimensions (nn/__init__.py, forward). *)
THEOREM LayersKeepRows == LayerSpec => []FitKeepsRows
<1>1. LayerInit => LayerInvariant
  BY LayersStart
<1>2. LayerInvariant /\ [LayerNext]_layerVars => LayerInvariant'
  BY LayerStep
<1>3. LayerInvariant => FitKeepsRows
  BY RowsKept
<1> QED
  BY <1>1, <1>2, <1>3, PTL DEF LayerSpec
-----------------------------------------------------------------------------
(* Tensors: what they promise. *)

(* What a tensor was told is what its operation makes of what its arguments were told;
   of a type, whether it is a floating-point one, and which. *)
DTypes == NewDTypes \cup {"float32", "float64", "int64"}
SameType(a, b) == a = b \/ (a \notin Floats /\ b \notin Floats)

Operations == {"real", "binary", "matmul", "unary", "sum", "max"}
OfTwo == {"binary", "matmul"}
OfOne == {"unary", "sum", "max"}

TensorRecords ==
  [op : Operations, args : Seq(Nat), dims : Seq(Int) \cup {Whole}, keep : BOOLEAN,
   shape : Seq(Nat), strides : Seq(Nat), offset : Nat, dtype : DTypes,
   store : [owner : Nat, size : Nat], told : [shape : Seq(Nat), dtype : DTypes]]

PromisedOfTwo(s, r, t, a, b) ==
  /\ r.args = <<a, b>> /\ a \in 1..(t - 1) /\ b \in 1..(t - 1)
  /\ r.told.shape = IF r.op = "binary"
                    THEN BroadcastShapes(s[a].told.shape, s[b].told.shape)
                    ELSE MatmulShape(s[a].told.shape, s[b].told.shape)
  /\ SameType(r.told.dtype, PromoteDTypes(s[a].told.dtype, s[b].told.dtype))
PromisedOfOne(s, r, t, a) ==
  /\ r.args = <<a>> /\ a \in 1..(t - 1)
  /\ r.told.shape = IF r.op = "unary" THEN s[a].told.shape
                    ELSE ReduceShape(s[a].told.shape, r.dims, r.keep)
  /\ SameType(r.told.dtype, IF r.op = "unary" THEN s[a].told.dtype
                         ELSE ReduceDType(r.op, s[a].told.dtype))
\* The tensor r, if it is number t of s.
Promised(s, r, t) ==
  /\ SameType(r.dtype, r.told.dtype)
  /\ r.op = "real" => r.told.shape = r.shape /\ r.args = <<>>
  /\ r.op \in OfTwo => \E a, b \in 1..(t - 1) : PromisedOfTwo(s, r, t, a, b)
  /\ r.op \in OfOne => \E a \in 1..(t - 1) : PromisedOfOne(s, r, t, a)
Promises(s) == s \in Seq(TensorRecords) /\ \A t \in 1..Len(s) : Promised(s, s[t], t)

LEMMA RecordIs ==
  ASSUME NEW r \in TensorRecords
  PROVE  /\ r.op \in Operations /\ r.args \in Seq(Nat) /\ r.dims \in Seq(Int) \cup {Whole}
         /\ r.keep \in BOOLEAN /\ r.shape \in Seq(Nat) /\ r.strides \in Seq(Nat)
         /\ r.offset \in Nat /\ r.dtype \in DTypes /\ r.store.owner \in Nat /\ r.store.size \in Nat
         /\ r.told.shape \in Seq(Nat) /\ r.told.dtype \in DTypes
  BY DEF TensorRecords

LEMMA PromiseAlike ==
  ASSUME NEW a, NEW b, NEW c, NEW d, SameType(a, c), SameType(b, d)
  PROVE  SameType(PromoteDTypes(a, b), PromoteDTypes(c, d))
  BY DEF SameType, PromoteDTypes, Floats

LEMMA ReduceAlike ==
  ASSUME NEW form, NEW a, NEW b, SameType(a, b)
  PROVE  SameType(ReduceDType(form, a), ReduceDType(form, b))
  BY DEF SameType, ReduceDType, Floats

LEMMA AlikeIs ==
  /\ \A a : SameType(a, a)
  /\ \A a, b : SameType(a, b) => SameType(b, a)
  /\ \A a, b, c : SameType(a, b) /\ SameType(b, c) => SameType(a, c)
  BY DEF SameType

LEMMA DTypesAre ==
  ASSUME NEW a \in DTypes, NEW b \in DTypes, NEW form
  PROVE  PromoteDTypes(a, b) \in DTypes /\ ReduceDType(form, a) \in DTypes
  BY DEF DTypes, PromoteDTypes, ReduceDType
-----------------------------------------------------------------------------
\* The equations of Tensor.shape and Tensor.dtype.
Shapes(f) == f = [t \in DOMAIN tensors |-> ShapeStep(f, tensors[t])]
Types(f) == f = [t \in DOMAIN tensors |-> DTypeStep(f, tensors[t])]

LEMMA ShapeUnfolds == ShapeOf = CHOOSE f : Shapes(f)
  BY DEF ShapeOf, Shapes
LEMMA DTypeUnfolds == DTypeOf = CHOOSE f : Types(f)
  BY DEF DTypeOf, Types

\* By the operation of a tensor.
LEMMA ShapeStepIs ==
  ASSUME Promises(tensors), NEW t \in 1..Len(tensors), NEW f,
         \A i \in 1..(t - 1) : f[i] = tensors[i].told.shape
  PROVE  ShapeStep(f, tensors[t]) = tensors[t].told.shape
<1> DEFINE r == tensors[t]
<1>1. Promised(tensors, tensors[t], t) /\ r \in TensorRecords
  BY SeqIs DEF Promises
<1>2. r.op \in Operations
  BY <1>1, RecordIs
<1>3. CASE r.op = "real"
  BY <1>1, <1>3 DEF ShapeStep, Promised
<1>4. CASE r.op \in OfTwo
  <2>1. PICK a, b \in 1..(t - 1) : PromisedOfTwo(tensors, tensors[t], t, a, b)
    BY <1>1, <1>4 DEF Promised
  <2>2. r.args[1] = a /\ r.args[2] = b
    BY <2>1 DEF PromisedOfTwo
  <2>3. f[a] = tensors[a].told.shape /\ f[b] = tensors[b].told.shape
    OBVIOUS
  <2>4. CASE r.op = "binary"
    <3>1. ShapeStep(f, r) = BroadcastShapes(f[r.args[1]], f[r.args[2]])
      BY <2>4 DEF ShapeStep
    <3> QED
      BY <2>1, <2>2, <2>3, <2>4, <3>1 DEF PromisedOfTwo
  <2>5. CASE r.op = "matmul"
    <3>1. ShapeStep(f, r) = MatmulShape(f[r.args[1]], f[r.args[2]])
      BY <2>5 DEF ShapeStep
    <3> QED
      BY <2>1, <2>2, <2>3, <2>5, <3>1 DEF PromisedOfTwo
  <2> QED
    BY <1>4, <2>4, <2>5 DEF OfTwo
<1>5. CASE r.op \in OfOne
  <2>1. PICK a \in 1..(t - 1) : PromisedOfOne(tensors, tensors[t], t, a)
    BY <1>1, <1>5 DEF Promised
  <2>2. r.args[1] = a
    BY <2>1 DEF PromisedOfOne
  <2>3. f[a] = tensors[a].told.shape
    OBVIOUS
  <2>4. CASE r.op = "unary"
    <3>1. ShapeStep(f, r) = f[r.args[1]]
      BY <2>4 DEF ShapeStep
    <3> QED
      BY <2>1, <2>2, <2>3, <2>4, <3>1 DEF PromisedOfOne
  <2>5. CASE r.op \in {"sum", "max"}
    <3>1. ShapeStep(f, r) = ReduceShape(f[r.args[1]], r.dims, r.keep) /\ r.op # "unary"
      BY <2>5 DEF ShapeStep
    <3> QED
      BY <2>1, <2>2, <2>3, <3>1 DEF PromisedOfOne
  <2> QED
    BY <1>5, <2>4, <2>5 DEF OfOne
<1> QED
  BY <1>2, <1>3, <1>4, <1>5 DEF Operations, OfOne, OfTwo

LEMMA ShapesAre ==
  ASSUME Promises(tensors)
  PROVE  \A t \in 1..Len(tensors) : ShapeOf[t] = tensors[t].told.shape
<1> DEFINE g == [t \in DOMAIN tensors |-> tensors[t].told.shape]
           n == Len(tensors)
<1>0. n \in Nat /\ DOMAIN tensors = 1..n
  BY SeqIs DEF Promises
<1>1. Shapes(g)
  <2>1. \A t \in 1..n : g[t] = ShapeStep(g, tensors[t])
    <3>1. \A t \in 1..n : g[t] = tensors[t].told.shape
      BY <1>0
    <3> HIDE DEF g
    <3>2. \A t \in 1..n : \A i \in 1..(t - 1) : g[i] = tensors[i].told.shape
      BY <1>0, <3>1
    <3>3. \A t \in 1..n : ShapeStep(g, tensors[t]) = tensors[t].told.shape
      BY <3>2, ShapeStepIs
    <3> QED
      BY <3>1, <3>3
  <2>2. g = [t \in DOMAIN tensors |-> g[t]]
    OBVIOUS
  <2> HIDE DEF g
  <2> QED
    BY <1>0, <2>1, <2>2 DEF Shapes
<1> HIDE DEF g
<1>2. Shapes(ShapeOf)
  BY <1>1, ShapeUnfolds
<1> DEFINE P == {k \in 0..n : \A t \in 1..k : ShapeOf[t] = tensors[t].told.shape}
<1>3. 0 \in P
  BY <1>0
<1>4. ASSUME NEW k \in 1..n, k - 1 \in P PROVE k \in P
  <2>1. \A i \in 1..(k - 1) : ShapeOf[i] = tensors[i].told.shape
    BY <1>4
  <2>2. ShapeStep(ShapeOf, tensors[k]) = tensors[k].told.shape
    BY <2>1, ShapeStepIs
  <2>3. ShapeOf[k] = ShapeStep(ShapeOf, tensors[k])
    BY <1>0, <1>2 DEF Shapes
  <2>4. \A t \in 1..k : t \in 1..(k - 1) \/ t = k
    BY <1>0
  <2>5. k \in 0..n
    BY <1>0
  <2> QED
    BY <2>1, <2>2, <2>3, <2>4, <2>5
<1> HIDE DEF P
<1>5. \A k \in 0..n : k \in P
  BY <1>0, <1>3, <1>4, NaturalInduction
<1>6. n \in P
  BY <1>0, <1>5
<1> QED
  BY <1>6 DEF P

\* What the equation makes of f is right, if f is right below t.
DTypeRight(f, t) == f[t] \in DTypes /\ SameType(f[t], tensors[t].told.dtype)

LEMMA DTypeStepIn ==
  ASSUME Promises(tensors), NEW t \in 1..Len(tensors), NEW f,
         \A i \in 1..(t - 1) : f[i] \in DTypes
  PROVE  DTypeStep(f, tensors[t]) \in DTypes
<1> DEFINE r == tensors[t]
<1>1. Promised(tensors, tensors[t], t) /\ r \in TensorRecords
  BY SeqIs DEF Promises
<1>2. r.op \in Operations /\ r.dtype \in DTypes
  BY <1>1, RecordIs
<1>3. CASE r.op = "real"
  BY <1>2, <1>3 DEF DTypeStep
<1>4. CASE r.op \in OfTwo
  <2>1. PICK a, b \in 1..(t - 1) : PromisedOfTwo(tensors, tensors[t], t, a, b)
    BY <1>1, <1>4 DEF Promised
  <2>2. r.args[1] = a /\ r.args[2] = b
    BY <2>1 DEF PromisedOfTwo
  <2>3. DTypeStep(f, r) = PromoteDTypes(f[a], f[b])
    BY <1>4, <2>2 DEF DTypeStep, OfTwo
  <2> QED
    BY <2>3, DTypesAre
<1>5. CASE r.op \in OfOne
  <2>1. PICK a \in 1..(t - 1) : PromisedOfOne(tensors, tensors[t], t, a)
    BY <1>1, <1>5 DEF Promised
  <2>2. r.args[1] = a
    BY <2>1 DEF PromisedOfOne
  <2>3. CASE r.op = "unary"
    BY <2>2, <2>3 DEF DTypeStep
  <2>4. CASE r.op \in {"sum", "max"}
    <3>1. DTypeStep(f, r) = ReduceDType(r.op, f[a])
      BY <2>2, <2>4 DEF DTypeStep
    <3> QED
      BY <3>1, DTypesAre
  <2> QED
    BY <1>5, <2>3, <2>4 DEF OfOne
<1> QED
  BY <1>2, <1>3, <1>4, <1>5 DEF Operations, OfOne, OfTwo

LEMMA DTypeStepAlike ==
  ASSUME Promises(tensors), NEW t \in 1..Len(tensors), NEW f,
         \A i \in 1..(t - 1) : SameType(f[i], tensors[i].told.dtype)
  PROVE  SameType(DTypeStep(f, tensors[t]), tensors[t].told.dtype)
<1> DEFINE r == tensors[t]
<1>1. Promised(tensors, tensors[t], t) /\ r \in TensorRecords
  BY SeqIs DEF Promises
<1>2. r.op \in Operations
  BY <1>1, RecordIs
<1>3. CASE r.op = "real"
  <2>1. DTypeStep(f, r) = r.dtype
    BY <1>3 DEF DTypeStep
  <2> QED
    BY <1>1, <2>1 DEF Promised
<1>4. CASE r.op \in OfTwo
  <2>1. PICK a, b \in 1..(t - 1) : PromisedOfTwo(tensors, tensors[t], t, a, b)
    BY <1>1, <1>4 DEF Promised
  <2>2. r.args[1] = a /\ r.args[2] = b
    BY <2>1 DEF PromisedOfTwo
  <2>3. DTypeStep(f, r) = PromoteDTypes(f[a], f[b])
    BY <1>4, <2>2 DEF DTypeStep, OfTwo
  <2>4. SameType(f[a], tensors[a].told.dtype) /\ SameType(f[b], tensors[b].told.dtype)
    OBVIOUS
  <2>5. SameType(DTypeStep(f, r), PromoteDTypes(tensors[a].told.dtype, tensors[b].told.dtype))
    BY <2>3, <2>4, PromiseAlike
  <2>6. SameType(r.told.dtype, PromoteDTypes(tensors[a].told.dtype, tensors[b].told.dtype))
    BY <2>1 DEF PromisedOfTwo
  <2> QED
    BY <2>5, <2>6, AlikeIs
<1>5. CASE r.op \in OfOne
  <2>1. PICK a \in 1..(t - 1) : PromisedOfOne(tensors, tensors[t], t, a)
    BY <1>1, <1>5 DEF Promised
  <2>2. r.args[1] = a /\ SameType(f[a], tensors[a].told.dtype)
    BY <2>1 DEF PromisedOfOne
  <2>3. CASE r.op = "unary"
    <3>1. DTypeStep(f, r) = f[a]
      BY <2>2, <2>3 DEF DTypeStep
    <3>2. SameType(r.told.dtype, tensors[a].told.dtype)
      BY <2>1, <2>3 DEF PromisedOfOne
    <3> QED
      BY <2>2, <3>1, <3>2, AlikeIs
  <2>4. CASE r.op \in {"sum", "max"}
    <3>1. DTypeStep(f, r) = ReduceDType(r.op, f[a]) /\ r.op # "unary"
      BY <2>2, <2>4 DEF DTypeStep
    <3>2. SameType(r.told.dtype, ReduceDType(r.op, tensors[a].told.dtype))
      BY <2>1, <3>1 DEF PromisedOfOne
    <3>3. SameType(ReduceDType(r.op, f[a]), ReduceDType(r.op, tensors[a].told.dtype))
      BY <2>2, ReduceAlike
    <3> QED
      BY <3>1, <3>2, <3>3, AlikeIs
  <2> QED
    BY <1>5, <2>3, <2>4 DEF OfOne
<1> QED
  BY <1>2, <1>3, <1>4, <1>5 DEF Operations, OfOne, OfTwo

\* Two functions that are the same below t.
LEMMA DTypeStepLocal ==
  ASSUME Promises(tensors), NEW t \in 1..Len(tensors), NEW f, NEW g,
         \A i \in 1..(t - 1) : f[i] = g[i]
  PROVE  DTypeStep(f, tensors[t]) = DTypeStep(g, tensors[t])
<1> DEFINE r == tensors[t]
<1>1. Promised(tensors, tensors[t], t) /\ r \in TensorRecords
  BY SeqIs DEF Promises
<1>2. r.op \in Operations
  BY <1>1, RecordIs
<1>3. CASE r.op = "real"
  BY <1>3 DEF DTypeStep
<1>4. CASE r.op \in OfTwo
  <2>1. PICK a, b \in 1..(t - 1) : PromisedOfTwo(tensors, tensors[t], t, a, b)
    BY <1>1, <1>4 DEF Promised
  <2>2. r.args[1] = a /\ r.args[2] = b
    BY <2>1 DEF PromisedOfTwo
  <2>3. f[a] = g[a] /\ f[b] = g[b]
    OBVIOUS
  <2>4. /\ DTypeStep(f, r) = PromoteDTypes(f[a], f[b])
        /\ DTypeStep(g, r) = PromoteDTypes(g[a], g[b])
    BY <1>4, <2>2 DEF DTypeStep, OfTwo
  <2> QED
    BY <2>3, <2>4
<1>5. CASE r.op \in OfOne
  <2>1. PICK a \in 1..(t - 1) : PromisedOfOne(tensors, tensors[t], t, a)
    BY <1>1, <1>5 DEF Promised
  <2>2. r.args[1] = a /\ f[a] = g[a]
    BY <2>1 DEF PromisedOfOne
  <2> QED
    BY <1>5, <2>2 DEF DTypeStep, OfOne
<1> QED
  BY <1>2, <1>3, <1>4, <1>5 DEF Operations, OfOne, OfTwo

LEMMA TypesExist == ASSUME Promises(tensors) PROVE \E f : Types(f)
<1> DEFINE n == Len(tensors)
           step == [p \in [1..n -> DTypes] \X (1..n) |-> DTypeStep(p[1], tensors[p[2]])]
<1>0. n \in Nat /\ DOMAIN tensors = 1..n /\ "int64" \in DTypes
  BY SeqIs DEF Promises, DTypes
<1>1. \A f \in [1..n -> DTypes], i \in 1..n : step[<<f, i>>] = DTypeStep(f, tensors[i])
  OBVIOUS
<1> HIDE DEF step
<1>2. ASSUME NEW f \in [1..n -> DTypes], NEW i \in 1..n PROVE step[<<f, i>>] \in DTypes
  <2>1. \A j \in 1..(i - 1) : f[j] \in DTypes
    BY <1>0
  <2>2. DTypeStep(f, tensors[i]) \in DTypes
    BY <2>1, DTypeStepIn
  <2> QED
    BY <1>1, <2>2
<1>3. LooksBack(step, n, DTypes)
  <2>1. ASSUME NEW f \in [1..n -> DTypes], NEW g \in [1..n -> DTypes], NEW i \in 1..n,
               \A j \in 1..(i - 1) : f[j] = g[j]
        PROVE  step[<<f, i>>] = step[<<g, i>>]
    <3>1. DTypeStep(f, tensors[i]) = DTypeStep(g, tensors[i])
      BY <2>1, DTypeStepLocal
    <3> QED
      BY <1>1, <3>1
  <2> QED
    BY <2>1 DEF LooksBack
<1>4. PICK f \in [1..n -> DTypes] : Recurs(step, n, f)
  BY <1>0, <1>2, <1>3, RecursionExists
<1>5. \A t \in 1..n : f[t] = DTypeStep(f, tensors[t])
  BY <1>1, <1>4 DEF Recurs
<1>6. f = [t \in 1..n |-> f[t]]
  OBVIOUS
<1>7. f = [t \in 1..n |-> DTypeStep(f, tensors[t])]
  BY <1>5, <1>6
<1> QED
  BY <1>0, <1>7 DEF Types

LEMMA TypesAre ==
  ASSUME Promises(tensors)
  PROVE  \A t \in 1..Len(tensors) : DTypeRight(DTypeOf, t)
<1> DEFINE n == Len(tensors)
<1>0. n \in Nat /\ DOMAIN tensors = 1..n
  BY SeqIs DEF Promises
<1>2. Types(DTypeOf)
  BY TypesExist, DTypeUnfolds
<1> DEFINE P == {k \in 0..n : \A t \in 1..k : DTypeRight(DTypeOf, t)}
<1>3. 0 \in P
  BY <1>0
<1>4. ASSUME NEW k \in 1..n, k - 1 \in P PROVE k \in P
  <2>1. \A i \in 1..(k - 1) : DTypeRight(DTypeOf, i)
    BY <1>4
  <2>2. /\ DTypeStep(DTypeOf, tensors[k]) \in DTypes
        /\ SameType(DTypeStep(DTypeOf, tensors[k]), tensors[k].told.dtype)
    <3>1. \A i \in 1..(k - 1) : DTypeOf[i] \in DTypes /\ SameType(DTypeOf[i], tensors[i].told.dtype)
      BY <2>1 DEF DTypeRight
    <3> QED
      BY <3>1, DTypeStepIn, DTypeStepAlike
  <2>3. DTypeOf[k] = DTypeStep(DTypeOf, tensors[k])
    BY <1>0, <1>2 DEF Types
  <2>4. \A t \in 1..k : t \in 1..(k - 1) \/ t = k
    BY <1>0
  <2>5. DTypeRight(DTypeOf, k) /\ k \in 0..n
    BY <1>0, <2>2, <2>3 DEF DTypeRight
  <2> QED
    BY <2>1, <2>4, <2>5
<1> HIDE DEF P
<1>5. \A k \in 0..n : k \in P
  BY <1>0, <1>3, <1>4, NaturalInduction
<1>6. n \in P
  BY <1>0, <1>5
<1> QED
  BY <1>6 DEF P

LEMMA PromisesKept == ASSUME Promises(tensors) PROVE PromiseKept
<1>1. DOMAIN tensors = 1..Len(tensors)
  BY SeqIs DEF Promises
<1>2. ASSUME NEW t \in 1..Len(tensors)
      PROVE  /\ ShapeOf[t] = tensors[t].told.shape
             /\ \/ tensors[t].told.dtype \in Floats
                \/ DTypeOf[t] \in Floats
                => DTypeOf[t] = tensors[t].told.dtype
  BY ShapesAre, TypesAre DEF DTypeRight, SameType
<1> QED
  BY <1>1, <1>2 DEF PromiseKept
-----------------------------------------------------------------------------
(* What is realized: the lazy tensors that t is made of, t itself if it is lazy. *)
NeedStep(f, i) ==
  IF tensors[i].op = "real" THEN {} ELSE {i} \cup UNION {f[a] : a \in ToSet(tensors[i].args)}
Needs(f) == f = [i \in DOMAIN tensors |-> NeedStep(f, i)]

LEMMA NeededUnfolds == ASSUME NEW t PROVE Needed(t) = (CHOOSE f : Needs(f))[t]
  BY DEF Needed, Needs, NeedStep

\* The arguments of a tensor are older than it.
LEMMA ArgsBefore ==
  ASSUME Promises(tensors), NEW t \in 1..Len(tensors)
  PROVE  ToSet(tensors[t].args) \subseteq 1..(t - 1)
<1> DEFINE r == tensors[t]
<1>1. Promised(tensors, tensors[t], t) /\ r \in TensorRecords
  BY SeqIs DEF Promises
<1>2. r.op \in Operations
  BY <1>1, RecordIs
<1>3. CASE r.op = "real"
  BY <1>1, <1>3 DEF Promised, ToSet
<1>4. CASE r.op \in OfTwo
  <2>1. PICK a, b \in 1..(t - 1) : PromisedOfTwo(tensors, tensors[t], t, a, b)
    BY <1>1, <1>4 DEF Promised
  <2>2. r.args = <<a, b>>
    BY <2>1 DEF PromisedOfTwo
  <2>3. ToSet(<<a, b>>) = {a, b}
    BY DEF ToSet
  <2> QED
    BY <2>2, <2>3
<1>5. CASE r.op \in OfOne
  <2>1. PICK a \in 1..(t - 1) : PromisedOfOne(tensors, tensors[t], t, a)
    BY <1>1, <1>5 DEF Promised
  <2>2. r.args = <<a>>
    BY <2>1 DEF PromisedOfOne
  <2>3. ToSet(<<a>>) = {a}
    BY DEF ToSet
  <2> QED
    BY <2>2, <2>3
<1> QED
  BY <1>2, <1>3, <1>4, <1>5 DEF Operations, OfOne, OfTwo

LEMMA NeedsExist == ASSUME Promises(tensors) PROVE \E f : Needs(f)
<1> DEFINE n == Len(tensors)
           A == SUBSET (1..n)
           step == [p \in [1..n -> A] \X (1..n) |-> NeedStep(p[1], p[2])]
<1>0. n \in Nat /\ DOMAIN tensors = 1..n /\ {} \in A
  BY SeqIs DEF Promises
<1>1. \A f \in [1..n -> A], i \in 1..n : step[<<f, i>>] = NeedStep(f, i)
  OBVIOUS
<1> HIDE DEF step
<1>2. ASSUME NEW f \in [1..n -> A], NEW i \in 1..n PROVE step[<<f, i>>] \in A
  <2>1. \A a \in ToSet(tensors[i].args) : f[a] \in A
    BY <1>0, ArgsBefore
  <2>2. NeedStep(f, i) \in A
    BY <2>1 DEF NeedStep
  <2> QED
    BY <1>1, <2>2
<1>3. LooksBack(step, n, A)
  <2>1. ASSUME NEW f \in [1..n -> A], NEW g \in [1..n -> A], NEW i \in 1..n,
               \A j \in 1..(i - 1) : f[j] = g[j]
        PROVE  step[<<f, i>>] = step[<<g, i>>]
    <3>1. \A a \in ToSet(tensors[i].args) : f[a] = g[a]
      BY <2>1, ArgsBefore
    <3>2. NeedStep(f, i) = NeedStep(g, i)
      BY <3>1 DEF NeedStep
    <3> QED
      BY <1>1, <3>2
  <2> HIDE DEF A
  <2> QED
    BY <2>1 DEF LooksBack
<1>4. PICK f \in [1..n -> A] : Recurs(step, n, f)
  <2> HIDE DEF A
  <2> QED
    BY <1>0, <1>2, <1>3, RecursionExists
<1>5. \A i \in 1..n : f[i] = NeedStep(f, i)
  BY <1>1, <1>4 DEF Recurs
<1>6. f = [i \in 1..n |-> f[i]]
  OBVIOUS
<1>7. f = [i \in 1..n |-> NeedStep(f, i)]
  BY <1>5, <1>6
<1> QED
  BY <1>0, <1>7 DEF Needs

LEMMA LazyNeeded ==
  ASSUME Promises(tensors), NEW t \in 1..Len(tensors), tensors[t].op # "real"
  PROVE  t \in Needed(t)
<1> DEFINE f == CHOOSE f : Needs(f)
<1>1. Needs(f)
  BY NeedsExist
<1>2. Needed(t) = f[t]
  BY NeededUnfolds
<1> HIDE DEF f
<1>3. t \in DOMAIN tensors
  BY SeqIs DEF Promises
<1>4. f[t] = NeedStep(f, t)
  BY <1>1, <1>3 DEF Needs
<1> QED
  BY <1>2, <1>4 DEF NeedStep
-----------------------------------------------------------------------------
(* Tensors: their places in storage. *)

(* The chain of a size, and of a sum. *)
SizeChain(h, s) == h[0] = 1 /\ \A k \in 1..Len(s) : h[k] = h[k - 1] * s[k]

LEMMA SizeChains ==
  ASSUME NEW s \in Seq(Nat)
  PROVE  \E h \in [0..Len(s) -> Nat] : SizeChain(h, s) /\ h[Len(s)] = Size(s)
<1>1. Len(s) \in Nat /\ DOMAIN s = 1..Len(s)
  BY ShapeIs
<1>2. SizePasses(s, Len(s), Nat)
  BY <1>1, SizeRuns
<1> QED
  BY <1>2 DEF SizePasses, SizeChain

LEMMA SizeIsNat == ASSUME NEW s \in Seq(Nat) PROVE Size(s) \in Nat
<1>1. Len(s) \in 0..Len(s)
  BY ShapeIs
<1> QED
  BY <1>1, SizeChains

(* Only one value ends such a chain. *)
LEMMA SizeIs ==
  ASSUME NEW s \in Seq(Nat), NEW h, SizeChain(h, s)
  PROVE  h[Len(s)] = Size(s)
<1> DEFINE n == Len(s)
<1>0. n \in Nat
  BY ShapeIs
<1>1. PICK f \in [0..n -> Nat] : SizeChain(f, s) /\ f[n] = Size(s)
  BY SizeChains
<1> DEFINE P == {k \in 0..n : h[k] = f[k]}
<1>2. 0 \in P
  BY <1>0, <1>1 DEF SizeChain
<1>3. ASSUME NEW k \in 1..n, k - 1 \in P PROVE k \in P
  <2>1. h[k] = h[k - 1] * s[k] /\ f[k] = f[k - 1] * s[k]
    BY <1>1 DEF SizeChain
  <2>2. k \in 0..n
    BY <1>0
  <2> QED
    BY <1>3, <2>1, <2>2
<1> HIDE DEF P
<1>4. \A k \in 0..n : k \in P
  BY <1>0, <1>2, <1>3, NaturalInduction
<1>5. n \in P
  BY <1>0, <1>4
<1> QED
  BY <1>1, <1>5 DEF P

AddedFolds(w, c) ==
  c = [s \in SUBSET (DOMAIN w) |->
         IF s = {} THEN 0 ELSE c[s \ {Max(s)}] + w[Max(s)]]

\* The steps of the fold stay in A, and the values it goes through are in it.
AddedStays(w, n, A) == \A k \in 1..n, a \in A : a + w[k] \in A
AddedPasses(w, n, A) ==
  \E h \in [0..n -> A] : /\ h[0] = 0 /\ h[n] = Summed(w)
                         /\ \A k \in 1..n : h[k] = h[k - 1] + w[k]

LEMMA AddReachesUnfolds ==
  ASSUME NEW w
  PROVE  Summed(w) = (CHOOSE c : AddedFolds(w, c))[DOMAIN w]
  BY DEF Summed, FoldLeft, MapThenFoldSet, AddedFolds

(* A sum is added up from the first number on. *)
LEMMA AddReaches ==
  ASSUME NEW w, NEW n \in Nat, DOMAIN w = 1..n,
         NEW A, 0 \in A,
         AddedStays(w, n, A)
  PROVE  AddedPasses(w, n, A)
<1> DEFINE step == [p \in (1..n) \X A |-> p[2] + w[p[1]]]
           c == CHOOSE c : AddedFolds(w, c)
           h == [k \in 0..n |-> c[1..k]]
<1>2. \A k \in 1..n, a \in A : step[<<k, a>>] = a + w[k]
  OBVIOUS
<1>3. PICK g \in [SUBSET (1..n) -> A] : Folds(0, step, n, g)
  <2>1. \A k \in 1..n, a \in A : step[<<k, a>>] \in A
    <3> HIDE DEF step
    <3>1. QED
      BY <1>2 DEF AddedStays
  <2> HIDE DEF step
  <2>2. QED
    BY <2>1, FoldExists
<1>4. AddedFolds(w, g)
  <2>1. ASSUME NEW s \in SUBSET (1..n), s # {}
        PROVE  step[<<Max(s), g[s \ {Max(s)}]>>] = g[s \ {Max(s)}] + w[Max(s)]
    <3>1. Max(s) \in 1..n
      BY <2>1, GreatestOf
    <3>2. s \ {Max(s)} \in SUBSET (1..n)
      OBVIOUS
    <3>3. g[s \ {Max(s)}] \in A
      BY <3>2
    <3> HIDE DEF step
    <3>4. QED
      BY <1>2, <3>1, <3>3
  <2> HIDE DEF step
  <2>2. QED
    BY <1>3, <2>1 DEF AddedFolds, Folds
<1>5. AddedFolds(w, c)
  <2> HIDE DEF step
  <2>1. \E d : AddedFolds(w, d)
    BY <1>4
  <2>2. QED
    BY <2>1
<1> HIDE DEF step, c
<1>6. c[{}] = 0 /\ \A k \in 1..n : c[1..k] = c[1..(k - 1)] + w[k]
  <2>1. c[{}] = 0
    BY <1>5 DEF AddedFolds
  <2>2. ASSUME NEW k \in 1..n PROVE c[1..k] = c[1..(k - 1)] + w[k]
    <3>1. /\ 1..k \in SUBSET (1..n) /\ 1..k # {}
          /\ Max(1..k) = k /\ (1..k) \ {k} = 1..(k - 1)
      BY PrefixEnds
    <3>2. QED
      BY <1>5, <3>1 DEF AddedFolds
  <2>3. QED
    BY <2>1, <2>2
<1>7. h[0] = 0 /\ \A k \in 1..n : h[k] = h[k - 1] + w[k]
  BY <1>6
<1>8. h \in [0..n -> A]
  <2>1. h = [k \in 0..n |-> h[k]]
    OBVIOUS
  <2> HIDE DEF h
  <2>2. \A k \in 1..n : h[k - 1] \in A => h[k] \in A
    BY <1>7 DEF AddedStays
  <2>3. \A k \in 0..n : h[k] \in A
    BY <1>7, <2>2, FoldStays
  <2>4. QED
    BY <2>1, <2>3
<1>9. Summed(w) = h[n]
  BY AddReachesUnfolds DEF c
<1>10. QED
  BY <1>7, <1>8, <1>9 DEF AddedPasses

AddChain(h, w, n) == h[0] = 0 /\ \A k \in 1..n : h[k] = h[k - 1] + w[k]

LEMMA AddChains ==
  ASSUME NEW n \in Nat, NEW w \in [1..n -> Int]
  PROVE  \E h \in [0..n -> Int] : AddChain(h, w, n) /\ h[n] = Summed(w)
<1>1. \A k \in 1..n, m \in Int : m + w[k] \in Int
  OBVIOUS
<1>2. AddedStays(w, n, Int)
  BY <1>1 DEF AddedStays
<1>3. DOMAIN w = 1..n /\ 0 \in Int
  OBVIOUS
<1>4. AddedPasses(w, n, Int)
  BY <1>2, <1>3, AddReaches
<1> QED
  BY <1>4 DEF AddedPasses, AddChain

LEMMA AddIs ==
  ASSUME NEW n \in Nat, NEW w \in [1..n -> Int], NEW h, AddChain(h, w, n)
  PROVE  h[n] = Summed(w)
<1>1. PICK f \in [0..n -> Int] : AddChain(f, w, n) /\ f[n] = Summed(w)
  BY AddChains
<1> DEFINE P == {k \in 0..n : h[k] = f[k]}
<1>2. 0 \in P
  BY <1>1 DEF AddChain
<1>3. ASSUME NEW k \in 1..n, k - 1 \in P PROVE k \in P
  <2>1. h[k] = h[k - 1] + w[k] /\ f[k] = f[k - 1] + w[k]
    BY <1>1 DEF AddChain
  <2>2. k \in 0..n
    OBVIOUS
  <2> QED
    BY <1>3, <2>1, <2>2
<1> HIDE DEF P
<1>4. \A k \in 0..n : k \in P
  BY <1>2, <1>3, NaturalInduction
<1>5. n \in P
  BY <1>4
<1> QED
  BY <1>1, <1>5 DEF P

(* Neither depends on the order. *)
LEMMA SizePermuted ==
  ASSUME NEW s \in Seq(Nat), NEW n \in Nat, n = Len(s), NEW p \in Bijection(1..n, 1..n),
         NEW t \in Seq(Nat), Len(t) = n, \A i \in 1..n : t[i] = s[p[i]]
  PROVE  Size(t) = Size(s)
<1> DEFINE step == [q \in (1..n) \X Nat |-> q[2] * s[q[1]]]
<1>0. \A i \in 1..n : s[i] \in Nat /\ p[i] \in 1..n
  BY ShapeIs DEF Bijection, Injection
<1>1. \A k \in 1..n, a \in Nat : step[<<k, a>>] = a * s[k]
  OBVIOUS
<1> HIDE DEF step
<1>2. ASSUME NEW k \in 1..n, NEW a \in Nat PROVE step[<<k, a>>] \in Nat
  BY <1>0, <1>1
<1>3. Commutes(step, n, Nat)
  <2>1. ASSUME NEW j \in 1..n, NEW k \in 1..n, NEW a \in Nat
        PROVE  step[<<j, step[<<k, a>>]>>] = step[<<k, step[<<j, a>>]>>]
    <3>1. step[<<j, step[<<k, a>>]>>] = (a * s[k]) * s[j]
      BY <1>0, <1>1, <1>2
    <3>2. step[<<k, step[<<j, a>>]>>] = (a * s[j]) * s[k]
      BY <1>0, <1>1, <1>2
    <3>3. \A u, v, w \in Nat : (u * v) * w = (u * w) * v
      BY Z3
    <3> QED
      BY <1>0, <3>1, <3>2, <3>3
  <2> QED
    BY <2>1 DEF Commutes
<1>4. PICK h \in [0..n -> Nat] : SizeChain(h, s) /\ h[n] = Size(s)
  BY SizeChains
<1>5. PICK f \in [0..n -> Nat] : SizeChain(f, t) /\ f[n] = Size(t)
  BY SizeChains
<1>6. FoldAlong(h, n, 1, step, Same(n))
  <2>1. ASSUME NEW k \in 1..n PROVE h[k] = step[<<k, h[k - 1]>>]
    <3>1. k - 1 \in 0..n
      OBVIOUS
    <3>2. h[k - 1] \in Nat /\ h[k] = h[k - 1] * s[k]
      BY <1>4, <3>1 DEF SizeChain
    <3> QED
      BY <1>1, <3>2
  <2>2. \A k \in 1..n : Same(n)[k] = k
    BY DEF Same
  <2> QED
    BY <1>4, <2>1, <2>2 DEF FoldAlong, SizeChain
<1>7. FoldAlong(f, n, 1, step, p)
  <2>2. ASSUME NEW k \in 1..n PROVE f[k] = step[<<p[k], f[k - 1]>>]
    <3>1. k - 1 \in 0..n
      OBVIOUS
    <3>2. f[k - 1] \in Nat /\ f[k] = f[k - 1] * t[k] /\ t[k] = s[p[k]]
      BY <1>5, <3>1 DEF SizeChain
    <3> QED
      BY <1>0, <1>1, <3>2
  <2> QED
    BY <1>5, <2>2 DEF FoldAlong, SizeChain
<1>8. Agree(f, h, n)
  <2>1. 1 \in Nat
    OBVIOUS
  <2> QED
    <3>1. Same(n) \in Bijection(1..n, 1..n)
      BY SameIs
    <3> QED
      BY <1>2, <1>3, <1>6, <1>7, <2>1, <3>1, ChainsAgree
<1> QED
  BY <1>4, <1>5, <1>8 DEF Agree

LEMMA AddPermuted ==
  ASSUME NEW n \in Nat, NEW v \in [1..n -> Int], NEW p \in Bijection(1..n, 1..n),
         NEW w \in [1..n -> Int], \A i \in 1..n : w[i] = v[p[i]]
  PROVE  Summed(w) = Summed(v)
<1> DEFINE step == [q \in (1..n) \X Int |-> q[2] + v[q[1]]]
<1>0. \A i \in 1..n : v[i] \in Int /\ p[i] \in 1..n
  BY DEF Bijection, Injection
<1>1. \A k \in 1..n, a \in Int : step[<<k, a>>] = a + v[k]
  <2>1. ASSUME NEW k \in 1..n, NEW a \in Int PROVE step[<<k, a>>] = a + v[k]
    <3> DEFINE q == <<k, a>>
    <3>1. q \in (1..n) \X Int /\ q[1] = k /\ q[2] = a
      OBVIOUS
    <3> QED
      BY <3>1
  <2> HIDE DEF step
  <2> QED
    BY <2>1
<1> HIDE DEF step
<1>2. ASSUME NEW k \in 1..n, NEW a \in Int PROVE step[<<k, a>>] \in Int
  BY <1>0, <1>1
<1>3. Commutes(step, n, Int)
  <2>1. ASSUME NEW j \in 1..n, NEW k \in 1..n, NEW a \in Int
        PROVE  step[<<j, step[<<k, a>>]>>] = step[<<k, step[<<j, a>>]>>]
    <3>1. step[<<j, step[<<k, a>>]>>] = (a + v[k]) + v[j]
      BY <1>0, <1>1, <1>2
    <3>2. step[<<k, step[<<j, a>>]>>] = (a + v[j]) + v[k]
      BY <1>0, <1>1, <1>2
    <3> QED
      BY <1>0, <3>1, <3>2
  <2> QED
    BY <2>1 DEF Commutes
<1>4. PICK h \in [0..n -> Int] : AddChain(h, v, n) /\ h[n] = Summed(v)
  BY AddChains
<1>5. PICK f \in [0..n -> Int] : AddChain(f, w, n) /\ f[n] = Summed(w)
  BY AddChains
<1>6. FoldAlong(h, n, 0, step, Same(n))
  <2>1. ASSUME NEW k \in 1..n PROVE h[k] = step[<<k, h[k - 1]>>]
    <3>1. k - 1 \in 0..n
      OBVIOUS
    <3>2. h[k - 1] \in Int /\ h[k] = h[k - 1] + v[k]
      BY <1>4, <3>1 DEF AddChain
    <3> QED
      BY <1>1, <3>2
  <2>2. \A k \in 1..n : Same(n)[k] = k
    BY DEF Same
  <2> QED
    BY <1>4, <2>1, <2>2 DEF FoldAlong, AddChain
<1>7. FoldAlong(f, n, 0, step, p)
  <2>2. ASSUME NEW k \in 1..n PROVE f[k] = step[<<p[k], f[k - 1]>>]
    <3>1. k - 1 \in 0..n
      OBVIOUS
    <3>2. f[k - 1] \in Int /\ f[k] = f[k - 1] + w[k] /\ w[k] = v[p[k]]
      BY <1>5, <3>1 DEF AddChain
    <3> QED
      BY <1>0, <1>1, <3>2
  <2> QED
    BY <1>5, <2>2 DEF FoldAlong, AddChain
<1>8. Agree(f, h, n)
  <2>1. 0 \in Int
    OBVIOUS
  <2> QED
    <3>1. Same(n) \in Bijection(1..n, 1..n)
      BY SameIs
    <3> QED
      BY <1>2, <1>3, <1>6, <1>7, <2>1, <3>1, ChainsAgree
<1> QED
  BY <1>4, <1>5, <1>8 DEF Agree

(* A dimension more: at the front, at the end, or one of a single place anywhere. *)
Behind(u, v) == Len(u) = Len(v) + 1 /\ \A i \in 1..Len(v) : v[i] = u[i + 1]
AllButLast(u, v) == Len(u) = Len(v) + 1 /\ \A i \in 1..Len(v) : v[i] = u[i]
Inserted(u, v, d) ==
  /\ Len(u) = Len(v) + 1 /\ u[d + 1] = 1
  /\ \A i \in 1..Len(v) : v[i] = IF i <= d THEN u[i] ELSE u[i + 1]

LEMMA SizeOfHead ==
  ASSUME NEW u \in Seq(Nat), NEW v \in Seq(Nat), Behind(u, v)
  PROVE  Size(u) = u[1] * Size(v)
<1> DEFINE n == Len(v)
<1>0. n \in Nat /\ Len(u) = n + 1 /\ u[1] \in Nat
  <2>1. n \in Nat /\ Len(u) = n + 1
    BY ShapeIs DEF Behind
  <2>2. 1 \in 1..Len(u)
    BY <2>1
  <2> QED
    BY <2>1, <2>2, ShapeIs
<1>1. PICK h \in [0..n -> Nat] : SizeChain(h, v) /\ h[n] = Size(v)
  BY SizeChains
<1> DEFINE f == [k \in 0..(n + 1) |-> IF k = 0 THEN 1 ELSE u[1] * h[k - 1]]
<1>2. f[0] = 1 /\ \A k \in 1..(n + 1) : f[k] = u[1] * h[k - 1]
  BY <1>0
<1>3. f[n + 1] = u[1] * h[n]
  <2>1. n + 1 \in 1..(n + 1) /\ (n + 1) - 1 = n
    BY <1>0
  <2> HIDE DEF f
  <2> QED
    BY <1>2, <2>1
<1> HIDE DEF f
<1>4. ASSUME NEW k \in 1..(n + 1) PROVE f[k] = f[k - 1] * u[k]
  <2>1. CASE k = 1
    <3>1. f[k] = u[1] * 1 /\ f[k - 1] = 1
      BY <1>0, <1>1, <1>2, <2>1 DEF SizeChain
    <3> QED
      BY <1>0, <2>1, <3>1
  <2>2. CASE k # 1
    <3>1. k - 1 \in 1..n /\ k - 1 \in 1..(n + 1) /\ (k - 1) - 1 \in 0..n /\ (k - 1) + 1 = k
      BY <1>0, <2>2
    <3>2. h[k - 1] = h[(k - 1) - 1] * v[k - 1] /\ h[(k - 1) - 1] \in Nat
      BY <1>1, <3>1 DEF SizeChain
    <3>3. v[k - 1] = u[k] /\ u[k] \in Nat
      <4>1. k \in 1..Len(u)
        BY <1>0
      <4> QED
        BY <3>1, <4>1, ShapeIs DEF Behind
    <3>4. f[k] = u[1] * h[k - 1] /\ f[k - 1] = u[1] * h[(k - 1) - 1]
      BY <1>2, <3>1
    <3>5. \A l, m, o \in Nat : l * (m * o) = (l * m) * o
      BY Z3
    <3> QED
      BY <1>0, <3>2, <3>3, <3>4, <3>5
  <2> QED
    BY <2>1, <2>2
<1>5. SizeChain(f, u)
  BY <1>0, <1>2, <1>4 DEF SizeChain
<1>6. f[Len(u)] = Size(u)
  BY <1>5, SizeIs
<1> QED
  BY <1>0, <1>1, <1>3, <1>6

LEMMA SizeOfLast ==
  ASSUME NEW u \in Seq(Nat), NEW v \in Seq(Nat), AllButLast(u, v)
  PROVE  Size(u) = Size(v) * u[Len(v) + 1]
<1> DEFINE n == Len(v)
<1>0. n \in Nat /\ Len(u) = n + 1
  BY ShapeIs DEF AllButLast
<1>1. PICK f \in [0..Len(u) -> Nat] : SizeChain(f, u) /\ f[Len(u)] = Size(u)
  BY SizeChains
<1>2. ASSUME NEW k \in 1..n PROVE f[k] = f[k - 1] * v[k]
  <2>1. k \in 1..Len(u)
    BY <1>0
  <2> QED
    BY <1>1, <2>1 DEF SizeChain, AllButLast
<1>3. SizeChain(f, v)
  BY <1>1, <1>2 DEF SizeChain
<1>4. f[n] = Size(v)
  BY <1>3, SizeIs
<1>5. f[n + 1] = f[n] * u[n + 1]
  <2>1. n + 1 \in 1..Len(u) /\ (n + 1) - 1 = n
    BY <1>0
  <2> QED
    BY <1>1, <2>1 DEF SizeChain
<1> QED
  BY <1>0, <1>1, <1>4, <1>5

LEMMA SizeOfInserted ==
  ASSUME NEW u \in Seq(Nat), NEW v \in Seq(Nat), NEW d \in 0..Len(v), Inserted(u, v, d)
  PROVE  Size(u) = Size(v)
<1> DEFINE n == Len(v)
<1>0. n \in Nat /\ Len(u) = n + 1 /\ d \in 0..n
  BY ShapeIs DEF Inserted
<1>1. PICK h \in [0..n -> Nat] : SizeChain(h, v) /\ h[n] = Size(v)
  BY SizeChains
<1> DEFINE f == [k \in 0..(n + 1) |-> IF k <= d THEN h[k] ELSE h[k - 1]]
<1>2. \A k \in 0..(n + 1) : f[k] = IF k <= d THEN h[k] ELSE h[k - 1]
  OBVIOUS
<1> HIDE DEF f
<1>3. f[0] = 1
  <2>1. 0 \in 0..(n + 1) /\ 0 <= d
    BY <1>0
  <2> QED
    BY <1>1, <1>2, <2>1 DEF SizeChain
<1>4. ASSUME NEW k \in 1..(n + 1) PROVE f[k] = f[k - 1] * u[k]
  <2>0. k \in 0..(n + 1) /\ k - 1 \in 0..(n + 1)
    BY <1>0
  <2>1. CASE k <= d
    <3>1. k \in 1..n /\ k - 1 <= d
      BY <1>0, <2>1
    <3>2. h[k] = h[k - 1] * v[k]
      BY <1>1, <3>1 DEF SizeChain
    <3>3. v[k] = u[k]
      BY <2>1, <3>1 DEF Inserted
    <3> QED
      BY <1>2, <2>0, <2>1, <3>1, <3>2, <3>3
  <2>2. CASE k = d + 1
    <3>1. f[k] = h[d] /\ f[k - 1] = h[d] /\ h[d] \in Nat /\ u[k] = 1
      <4>1. k - 1 = d /\ ~(k <= d) /\ k - 1 <= d
        BY <1>0, <2>2
      <4>2. h[d] \in Nat
        BY <1>0
      <4> QED
        BY <1>2, <2>0, <2>2, <4>1, <4>2 DEF Inserted
    <3> QED
      BY <3>1
  <2>3. CASE k > d + 1
    <3>1. k - 1 \in 1..n /\ ~(k <= d) /\ ~(k - 1 <= d) /\ (k - 1) + 1 = k
      BY <1>0, <2>3
    <3>2. h[k - 1] = h[(k - 1) - 1] * v[k - 1]
      BY <1>1, <3>1 DEF SizeChain
    <3>3. v[k - 1] = u[k]
      BY <3>1 DEF Inserted
    <3> QED
      BY <1>2, <2>0, <3>1, <3>2, <3>3
  <2> QED
    BY <1>0, <2>1, <2>2, <2>3
<1>5. SizeChain(f, u)
  BY <1>0, <1>3, <1>4 DEF SizeChain
<1>6. f[n + 1] = Size(u)
  BY <1>0, <1>5, SizeIs
<1>7. f[n + 1] = h[n]
  <2>1. n + 1 \in 0..(n + 1) /\ ~(n + 1 <= d) /\ (n + 1) - 1 = n
    BY <1>0
  <2> QED
    BY <1>2, <2>1
<1> QED
  BY <1>1, <1>6, <1>7

LEMMA SumOfHead ==
  ASSUME NEW n \in Nat, NEW v \in [1..(n + 1) -> Int], NEW w \in [1..n -> Int],
         \A i \in 1..n : w[i] = v[i + 1]
  PROVE  Summed(w) \in Int /\ Summed(v) = v[1] + Summed(w)
<1>0. v[1] \in Int /\ n \in 0..n
  BY 1 \in 1..(n + 1)
<1>1. PICK h \in [0..n -> Int] : AddChain(h, w, n) /\ h[n] = Summed(w)
  BY AddChains
<1> DEFINE f == [k \in 0..(n + 1) |-> IF k = 0 THEN 0 ELSE v[1] + h[k - 1]]
<1>2. f[0] = 0 /\ \A k \in 1..(n + 1) : f[k] = v[1] + h[k - 1]
  BY <1>0
<1> HIDE DEF f
<1>3. f[n + 1] = v[1] + h[n]
  <2>1. n + 1 \in 1..(n + 1) /\ (n + 1) - 1 = n
    BY <1>0
  <2> QED
    BY <1>2, <2>1
<1>4. ASSUME NEW k \in 1..(n + 1) PROVE f[k] = f[k - 1] + v[k]
  <2>1. CASE k = 1
    <3>1. f[k] = v[1] + 0 /\ f[k - 1] = 0
      BY <1>0, <1>1, <1>2, <2>1 DEF AddChain
    <3> QED
      BY <1>0, <2>1, <3>1
  <2>2. CASE k # 1
    <3>1. k - 1 \in 1..n /\ k - 1 \in 1..(n + 1) /\ (k - 1) - 1 \in 0..n /\ (k - 1) + 1 = k
      BY <1>0, <2>2
    <3>2. h[k - 1] = h[(k - 1) - 1] + w[k - 1] /\ h[(k - 1) - 1] \in Int
      BY <1>1, <3>1 DEF AddChain
    <3>3. w[k - 1] = v[k] /\ v[k] \in Int
      BY <3>1
    <3>4. f[k] = v[1] + h[k - 1] /\ f[k - 1] = v[1] + h[(k - 1) - 1]
      BY <1>2, <3>1
    <3>5. v[1] + (h[(k - 1) - 1] + v[k]) = (v[1] + h[(k - 1) - 1]) + v[k]
      <4> DEFINE p == v[1]
                 q == h[(k - 1) - 1]
                 z == v[k]
      <4>1. p \in Int /\ q \in Int /\ z \in Int
        BY <1>0, <3>2, <3>3
      <4> HIDE DEF p, q, z
      <4>2. p + (q + z) = (p + q) + z
        BY <4>1
      <4> QED
        BY <4>2 DEF p, q, z
    <3>6. h[k - 1] = h[(k - 1) - 1] + v[k]
      BY <3>2, <3>3
    <3>7. f[k] = v[1] + (h[(k - 1) - 1] + v[k])
      BY <3>4, <3>6
    <3> QED
      BY <3>4, <3>5, <3>7
  <2> QED
    BY <2>1, <2>2
<1>5. AddChain(f, v, n + 1) /\ n + 1 \in Nat
  BY <1>0, <1>2, <1>4 DEF AddChain
<1>6. f[n + 1] = Summed(v)
  BY <1>5, AddIs
<1> QED
  BY <1>0, <1>1, <1>3, <1>6
-----------------------------------------------------------------------------
(* The strides of a contiguous tensor, and how far its elements reach. *)
Rest(s, i) == SubSeq(s, i + 1, Len(s))

LEMMA RestIs ==
  ASSUME NEW s \in Seq(Nat), NEW i \in 0..Len(s)
  PROVE  /\ Rest(s, i) \in Seq(Nat) /\ Len(Rest(s, i)) = Len(s) - i
         /\ \A j \in 1..(Len(s) - i) : Rest(s, i)[j] = s[i + j]
  BY RestKeeps DEF Rest

LEMMA ContiguousIs ==
  ASSUME NEW s \in Seq(Nat)
  PROVE  /\ Contiguous(s) \in Seq(Nat) /\ Len(Contiguous(s)) = Len(s)
         /\ \A i \in 1..Len(s) : Contiguous(s)[i] = Size(Rest(s, i))
<1> DEFINE n == Len(s)
<1>1. n \in Nat /\ DOMAIN s = 1..n
  BY ShapeIs
<1>2. ASSUME NEW i \in 1..n PROVE Size(Rest(s, i)) \in Nat
  <2>1. i \in 0..Len(s)
    BY <1>1
  <2> QED
    BY <2>1, RestIs, SizeIsNat
<1>3. Contiguous(s) = [i \in 1..n |-> Size(Rest(s, i))]
  BY <1>1 DEF Contiguous, Rest
<1> QED
  BY <1>1, <1>2, <1>3

LEMMA ReachOfContiguous ==
  ASSUME NEW s \in Seq(Nat) PROVE Reach(s, Contiguous(s)) = Size(s) - 1
<1> DEFINE n == Len(s)
           c == Contiguous(s)
           w == [i \in 1..n |-> (s[i] - 1) * c[i]]
           h == [k \in 0..n |-> Size(s) - Size(Rest(s, k))]
<1>1. n \in Nat /\ DOMAIN s = 1..n /\ Size(s) \in Nat
  BY ShapeIs, SizeIsNat
<1>2. ASSUME NEW i \in 0..n PROVE Size(Rest(s, i)) \in Nat
  BY RestIs, SizeIsNat
<1>3. ASSUME NEW i \in 1..n PROVE s[i] \in Nat /\ c[i] \in Nat /\ c[i] = Size(Rest(s, i))
  <2>1. i \in 0..n
    BY <1>1
  <2> QED
    BY <1>2, <2>1, ContiguousIs, ShapeIs
<1>4. ASSUME NEW i \in 1..n PROVE Size(Rest(s, i - 1)) = s[i] * Size(Rest(s, i))
  <2> DEFINE u == Rest(s, i - 1)  v == Rest(s, i)
  <2>1. i \in 0..n /\ i - 1 \in 0..n
    BY <1>1
  <2>2. /\ u \in Seq(Nat) /\ v \in Seq(Nat) /\ Len(u) = n - (i - 1) /\ Len(v) = n - i
        /\ (\A j \in 1..(n - (i - 1)) : u[j] = s[(i - 1) + j])
        /\ (\A j \in 1..(n - i) : v[j] = s[i + j])
    BY <2>1, RestIs
  <2> HIDE DEF u, v
  <2>3. ASSUME NEW j \in 1..(n - i) PROVE v[j] = u[j + 1]
    <3>1. j + 1 \in 1..(n - (i - 1)) /\ (i - 1) + (j + 1) = i + j
      BY <1>1
    <3>2. u[j + 1] = s[(i - 1) + (j + 1)]
      BY <2>2, <3>1
    <3> QED
      BY <2>2, <3>1, <3>2
  <2>4. Behind(u, v)
    <3>1. Len(u) = Len(v) + 1
      BY <1>1, <2>2
    <3> QED
      BY <2>2, <2>3, <3>1 DEF Behind
  <2>5. u[1] = s[i]
    <3>1. 1 \in 1..(n - (i - 1)) /\ (i - 1) + 1 = i
      BY <1>1
    <3>2. u[1] = s[(i - 1) + 1]
      BY <2>2, <3>1
    <3> QED
      BY <3>1, <3>2
  <2> QED
    BY <2>2, <2>4, <2>5, SizeOfHead DEF u, v
<1>5. w \in [1..n -> Int] /\ \A i \in 1..n : w[i] = (s[i] - 1) * c[i]
  BY <1>3
<1>6. h[0] = 0
  <2>1. 0 \in 0..n
    BY <1>1
  <2>2. Rest(s, 0) = s
    <3> DEFINE r == Rest(s, 0)
    <3>1. r \in Seq(Nat) /\ Len(r) = n - 0 /\ \A j \in 1..(n - 0) : r[j] = s[0 + j]
      BY <2>1, RestIs
    <3> HIDE DEF r
    <3>2. Len(r) = Len(s) /\ \A j \in 1..Len(r) : r[j] = s[j]
      BY <1>1, <3>1
    <3>3. r = s
      BY <3>1, <3>2, SeqEqual
    <3> QED
      BY <3>3 DEF r
  <2> QED
    BY <1>1, <2>1, <2>2
<1>7. h[n] = Size(s) - 1
  <2>1. n \in 0..n
    BY <1>1
  <2>2. Size(Rest(s, n)) = 1
    <3> DEFINE r == Rest(s, n)
    <3>1. r \in Seq(Nat) /\ Len(r) = n - n
      BY <2>1, RestIs
    <3> HIDE DEF r
    <3>2. Len(r) = 0
      BY <1>1, <3>1
    <3>3. PICK f \in [0..Len(r) -> Nat] : SizeChain(f, r) /\ f[Len(r)] = Size(r)
      BY <3>1, SizeChains
    <3>4. Size(r) = 1
      BY <3>2, <3>3 DEF SizeChain
    <3> QED
      BY <3>4 DEF r
  <2> QED
    BY <2>1, <2>2
<1>8. \A k \in 0..n : h[k] = Size(s) - Size(Rest(s, k))
  OBVIOUS
<1> HIDE DEF h, w
<1>9. ASSUME NEW k \in 1..n PROVE h[k] = h[k - 1] + w[k]
  <2>1. k \in 0..n /\ k - 1 \in 0..n
    BY <1>1
  <2> DEFINE m == Size(Rest(s, k))
  <2>2. m \in Nat /\ h[k] = Size(s) - m /\ h[k - 1] = Size(s) - s[k] * m /\ w[k] = (s[k] - 1) * m
    BY <1>2, <1>3, <1>4, <1>5, <1>8, <2>1
  <2>3. s[k] \in Nat
    BY <1>3
  <2> HIDE DEF m
  <2>4. \A a, b, d \in Nat : d - b = (d - a * b) + (a - 1) * b
    BY Z3
  <2> QED
    BY <1>1, <2>2, <2>3, <2>4
<1>10. AddChain(h, w, n)
  BY <1>6, <1>9 DEF AddChain
<1>11. h[n] = Summed(w)
  BY <1>1, <1>5, <1>10, AddIs
<1>12. Reach(s, c) = Summed(w)
  BY <1>1 DEF Reach, w
<1> QED
  BY <1>7, <1>11, <1>12

(* What is behind a shape and its strides, and what is permuted with them. *)
Strided(s, c) == s \in Seq(Nat) /\ c \in Seq(Nat) /\ Len(c) = Len(s)
Weights(s, c) == [i \in DOMAIN s |-> (s[i] - 1) * c[i]]

LEMMA WeightsAre ==
  ASSUME NEW s, NEW c, Strided(s, c)
  PROVE  /\ Weights(s, c) \in [1..Len(s) -> Int] /\ Reach(s, c) = Summed(Weights(s, c))
         /\ \A i \in 1..Len(s) : Weights(s, c)[i] = (s[i] - 1) * c[i]
<1>1. DOMAIN s = 1..Len(s) /\ \A i \in 1..Len(s) : s[i] \in Nat /\ c[i] \in Nat
  BY ShapeIs DEF Strided
<1>2. ASSUME NEW i \in 1..Len(s) PROVE (s[i] - 1) * c[i] \in Int
  BY <1>1
<1> QED
  BY <1>1, <1>2 DEF Weights, Reach

LEMMA ReachOfHead ==
  ASSUME NEW s, NEW c, Strided(s, c), NEW t, NEW d, Strided(t, d), Behind(s, t), Behind(c, d)
  PROVE  Reach(t, d) \in Int /\ Reach(s, c) = (s[1] - 1) * c[1] + Reach(t, d)
<1> DEFINE n == Len(t)  v == Weights(s, c)  w == Weights(t, d)
<1>1. n \in Nat /\ Len(s) = n + 1
  BY ShapeIs DEF Strided, Behind
<1>2. /\ v \in [1..(n + 1) -> Int] /\ Reach(s, c) = Summed(v)
      /\ \A i \in 1..(n + 1) : v[i] = (s[i] - 1) * c[i]
  BY <1>1, WeightsAre
<1>3. w \in [1..n -> Int] /\ Reach(t, d) = Summed(w) /\ \A i \in 1..n : w[i] = (t[i] - 1) * d[i]
  BY WeightsAre
<1> HIDE DEF v, w
<1>4. ASSUME NEW i \in 1..n PROVE w[i] = v[i + 1]
  <2>1. i + 1 \in 1..(n + 1) /\ i \in 1..Len(d)
    BY <1>1 DEF Strided
  <2>2. t[i] = s[i + 1] /\ d[i] = c[i + 1]
    BY <2>1 DEF Behind
  <2> QED
    BY <1>2, <1>3, <2>1, <2>2
<1>5. Summed(w) \in Int /\ Summed(v) = v[1] + Summed(w)
  BY <1>1, <1>2, <1>3, <1>4, SumOfHead
<1>6. 1 \in 1..(n + 1)
  BY <1>1
<1> QED
  BY <1>2, <1>3, <1>5, <1>6

Permutes(p, s, t) == Len(t) = Len(s) /\ \A i \in 1..Len(s) : t[i] = s[p[i]]

LEMMA ReachPermuted ==
  ASSUME NEW s, NEW c, Strided(s, c), NEW t, NEW d, Strided(t, d),
         NEW p \in Bijection(1..Len(s), 1..Len(s)), Permutes(p, s, t), Permutes(p, c, d)
  PROVE  Size(t) = Size(s) /\ Reach(t, d) = Reach(s, c)
<1> DEFINE n == Len(s)  v == Weights(s, c)  w == Weights(t, d)
<1>1. n \in Nat /\ Len(t) = n /\ Len(c) = n /\ s \in Seq(Nat) /\ t \in Seq(Nat)
  BY ShapeIs DEF Strided, Permutes
<1>2. Size(t) = Size(s)
  BY <1>1, SizePermuted DEF Permutes
<1>3. /\ v \in [1..n -> Int] /\ Reach(s, c) = Summed(v) /\ \A i \in 1..n : v[i] = (s[i] - 1) * c[i]
  BY WeightsAre
<1>4. /\ w \in [1..n -> Int] /\ Reach(t, d) = Summed(w) /\ \A i \in 1..n : w[i] = (t[i] - 1) * d[i]
  BY <1>1, WeightsAre
<1>5. ASSUME NEW i \in 1..n PROVE w[i] = v[p[i]]
  <2>1. p[i] \in 1..n
    BY DEF Bijection, Injection
  <2>2. t[i] = s[p[i]] /\ d[i] = c[p[i]]
    BY <1>1 DEF Permutes
  <2> HIDE DEF v, w
  <2> QED
    BY <1>3, <1>4, <2>1, <2>2
<1> HIDE DEF v, w
<1>6. Summed(w) = Summed(v)
  BY <1>1, <1>3, <1>4, <1>5, AddPermuted
<1> QED
  BY <1>2, <1>3, <1>4, <1>6
-----------------------------------------------------------------------------
(* The shapes of views. *)
LEMMA TailIs ==
  ASSUME NEW s \in Seq(Nat), s # <<>>
  PROVE  Tail(s) \in Seq(Nat) /\ Behind(s, Tail(s)) /\ s[1] \in Nat
<1>1. Len(s) \in Nat /\ Len(s) >= 1 /\ s[1] \in Nat
  OBVIOUS
<1>2. Tail(s) \in Seq(Nat) /\ Len(Tail(s)) = Len(s) - 1
  BY <1>1
<1>3. \A i \in 1..Len(Tail(s)) : Tail(s)[i] = s[i + 1]
  BY <1>1, <1>2
<1> QED
  BY <1>1, <1>2, <1>3 DEF Behind

LEMMA HeadPut ==
  ASSUME NEW t \in Seq(Nat), NEW a \in Nat
  PROVE  <<a>> \o t \in Seq(Nat) /\ Behind(<<a>> \o t, t) /\ (<<a>> \o t)[1] = a
<1> DEFINE h == <<a>>  u == h \o t
<1>1. h \in Seq(Nat) /\ Len(h) = 1 /\ h[1] = a /\ Len(t) \in Nat
  OBVIOUS
<1> HIDE DEF h
<1>2. /\ u \in Seq(Nat) /\ Len(u) = 1 + Len(t)
      /\ \A i \in 1..(1 + Len(t)) : u[i] = IF i <= 1 THEN h[i] ELSE t[i - 1]
  <2>1. u \in Seq(Nat) /\ Len(u) = Len(h) + Len(t)
    BY <1>1, ConcatProperties
  <2>2. \A i \in 1..(Len(h) + Len(t)) : u[i] = IF i <= Len(h) THEN h[i] ELSE t[i - Len(h)]
    BY <1>1, ConcatProperties
  <2> HIDE DEF u
  <2> QED
    BY <1>1, <2>1, <2>2
<1> HIDE DEF u
<1>3. u[1] = a
  <2>1. 1 \in 1..(1 + Len(t)) /\ 1 <= 1
    BY <1>1
  <2> QED
    BY <1>1, <1>2, <2>1
<1>4. ASSUME NEW i \in 1..Len(t) PROVE t[i] = u[i + 1]
  <2>1. i + 1 \in 1..(1 + Len(t)) /\ ~(i + 1 <= 1) /\ (i + 1) - 1 = i
    BY <1>1
  <2>2. u[i + 1] = t[(i + 1) - 1]
    BY <1>2, <2>1
  <2> QED
    BY <2>1, <2>2
<1>5. Behind(u, t)
  BY <1>1, <1>2, <1>4 DEF Behind
<1> QED
  BY <1>2, <1>3, <1>5 DEF u, h

LEMMA InsertIs ==
  ASSUME NEW s \in Seq(Nat), NEW d \in 0..Len(s)
  PROVE  InsertAt(s, d + 1, 1) \in Seq(Nat) /\ Inserted(InsertAt(s, d + 1, 1), s, d)
<1> DEFINE a == SubSeq(s, 1, d)  o == <<1>>  b == SubSeq(s, d + 1, Len(s))
           t == a \o o  u == t \o b
<1>0. Len(s) \in Nat /\ d \in Nat /\ d <= Len(s)
  BY ShapeIs
<1>1. a \in Seq(Nat) /\ Len(a) = d /\ \A i \in 1..d : a[i] = s[i]
  <2>1. d \in 0..Len(s) /\ d \in Int /\ 1 \in 1..(Len(s) + 1)
    BY <1>0
  <2>2. \A i \in 1..d : s[i] \in Nat
    BY <1>0, ShapeIs
  <2>3. a \in Seq(Nat)
    BY <2>1, <2>2, SubSeqProperties, Z3
  <2>4. Len(a) = d /\ \A i \in 1..d : a[i] = s[i]
    BY <1>0, <2>1, <2>2, SubSeqProperties, Z3
  <2> QED
    BY <2>3, <2>4
<1>2. b \in Seq(Nat) /\ Len(b) = Len(s) - d /\ \A i \in 1..(Len(s) - d) : b[i] = s[d + i]
  BY RestKeeps
<1>3. o \in Seq(Nat) /\ Len(o) = 1 /\ o[1] = 1
  OBVIOUS
<1>4. InsertAt(s, d + 1, 1) = u
  <2>1. (d + 1) - 1 = d
    BY <1>0
  <2> QED
    BY <2>1 DEF InsertAt
<1> HIDE DEF a, o, b
<1>5. /\ t \in Seq(Nat) /\ Len(t) = d + 1
      /\ \A i \in 1..(d + 1) : t[i] = IF i <= d THEN a[i] ELSE o[i - d]
  <2>1. t \in Seq(Nat) /\ Len(t) = Len(a) + Len(o)
    BY <1>1, <1>3, ConcatProperties
  <2>2. \A i \in 1..(Len(a) + Len(o)) : t[i] = IF i <= Len(a) THEN a[i] ELSE o[i - Len(a)]
    BY <1>1, <1>3, ConcatProperties
  <2> HIDE DEF t
  <2> QED
    BY <1>1, <1>3, <2>1, <2>2
<1> HIDE DEF t
<1>6. /\ u \in Seq(Nat) /\ Len(u) = Len(s) + 1
      /\ \A i \in 1..(Len(s) + 1) : u[i] = IF i <= d + 1 THEN t[i] ELSE b[i - (d + 1)]
  <2>1. u \in Seq(Nat) /\ Len(u) = Len(t) + Len(b)
    BY <1>2, <1>5, ConcatProperties
  <2>2. \A i \in 1..(Len(t) + Len(b)) : u[i] = IF i <= Len(t) THEN t[i] ELSE b[i - Len(t)]
    BY <1>2, <1>5, ConcatProperties
  <2>3. Len(t) + Len(b) = Len(s) + 1
    BY <1>0, <1>2, <1>5
  <2> HIDE DEF u
  <2> QED
    BY <1>5, <2>1, <2>2, <2>3
<1> HIDE DEF u
<1>7. u[d + 1] = 1
  <2>1. d + 1 \in 1..(Len(s) + 1) /\ d + 1 \in 1..(d + 1) /\ d + 1 <= d + 1 /\ ~(d + 1 <= d) /\ (d + 1) - d = 1
    BY <1>0
  <2>2. u[d + 1] = t[d + 1] /\ t[d + 1] = o[(d + 1) - d]
    BY <1>5, <1>6, <2>1
  <2> QED
    BY <1>3, <2>1, <2>2
<1>8. ASSUME NEW i \in 1..Len(s) PROVE s[i] = IF i <= d THEN u[i] ELSE u[i + 1]
  <2>1. CASE i <= d
    <3>1. i \in 1..(Len(s) + 1) /\ i \in 1..(d + 1) /\ i <= d + 1 /\ i \in 1..d
      BY <1>0, <2>1
    <3>2. u[i] = t[i] /\ t[i] = a[i] /\ a[i] = s[i]
      BY <1>1, <1>5, <1>6, <2>1, <3>1
    <3> QED
      BY <2>1, <3>2
  <2>2. CASE ~(i <= d)
    <3>1. /\ i + 1 \in 1..(Len(s) + 1) /\ ~(i + 1 <= d + 1) /\ (i + 1) - (d + 1) = i - d
          /\ i - d \in 1..(Len(s) - d) /\ d + (i - d) = i
      BY <1>0, <2>2
    <3>2. u[i + 1] = b[(i + 1) - (d + 1)]
      BY <1>6, <3>1
    <3>3. b[i - d] = s[d + (i - d)]
      BY <1>2, <3>1
    <3> QED
      BY <2>2, <3>1, <3>2, <3>3
  <2> QED
    BY <2>1, <2>2
<1>9. Inserted(u, s, d)
  BY <1>6, <1>7, <1>8 DEF Inserted
<1> QED
  BY <1>4, <1>6, <1>9

LEMMA SizeOfOne ==
  ASSUME NEW a \in Nat PROVE <<a>> \in Seq(Nat) /\ Size(<<a>>) = a /\ <<>> \in Seq(Nat) /\ Size(<<>>) = 1
<1> DEFINE s == <<a>>  o == <<>>
<1>1. s \in Seq(Nat) /\ Len(s) = 1 /\ s[1] = a /\ o \in Seq(Nat) /\ Len(o) = 0
  OBVIOUS
<1> HIDE DEF s, o
<1>2. Size(s) = a
  <2>1. PICK h \in [0..Len(s) -> Nat] : SizeChain(h, s) /\ h[Len(s)] = Size(s)
    BY <1>1, SizeChains
  <2>2. h[1] = h[1 - 1] * s[1] /\ h[0] = 1
    BY <1>1, <2>1 DEF SizeChain
  <2> QED
    BY <1>1, <2>1, <2>2
<1>3. Size(o) = 1
  <2>1. PICK h \in [0..Len(o) -> Nat] : SizeChain(h, o) /\ h[Len(o)] = Size(o)
    BY <1>1, SizeChains
  <2> QED
    BY <1>1, <2>1 DEF SizeChain
<1> QED
  BY <1>1, <1>2, <1>3 DEF s, o

\* The dimensions that squeezing keeps.
Kept1(shape) == FoldLeft(LAMBDA s, d : IF d = 1 THEN s ELSE Append(s, d), <<>>, shape)
Kept1Folds(shape, c) ==
  c = [s \in SUBSET (DOMAIN shape) |->
         IF s = {} THEN <<>> ELSE (IF shape[Max(s)] = 1 THEN c[s \ {Max(s)}] ELSE Append(c[s \ {Max(s)}], shape[Max(s)]))]

\* The steps of the fold stay in A, and the values it goes through are in it.
Kept1Stays(shape, n, A) == \A k \in 1..n, a \in A : (IF shape[k] = 1 THEN a ELSE Append(a, shape[k])) \in A
Kept1Passes(shape, n, A) ==
  \E h \in [0..n -> A] : /\ h[0] = <<>> /\ h[n] = Kept1(shape)
                         /\ \A k \in 1..n : h[k] = (IF shape[k] = 1 THEN h[k - 1] ELSE Append(h[k - 1], shape[k]))

LEMMA KeptReachesUnfolds ==
  ASSUME NEW shape
  PROVE  Kept1(shape) = (CHOOSE c : Kept1Folds(shape, c))[DOMAIN shape]
  BY DEF Kept1, FoldLeft, MapThenFoldSet, Kept1Folds

(* They are kept one after the other. *)
LEMMA KeptReaches ==
  ASSUME NEW shape, NEW n \in Nat, DOMAIN shape = 1..n,
         NEW A, <<>> \in A,
         Kept1Stays(shape, n, A)
  PROVE  Kept1Passes(shape, n, A)
<1> DEFINE step == [p \in (1..n) \X A |-> (IF shape[p[1]] = 1 THEN p[2] ELSE Append(p[2], shape[p[1]]))]
           c == CHOOSE c : Kept1Folds(shape, c)
           h == [k \in 0..n |-> c[1..k]]
<1>2. \A k \in 1..n, a \in A : step[<<k, a>>] = (IF shape[k] = 1 THEN a ELSE Append(a, shape[k]))
  OBVIOUS
<1>3. PICK g \in [SUBSET (1..n) -> A] : Folds(<<>>, step, n, g)
  <2>1. \A k \in 1..n, a \in A : step[<<k, a>>] \in A
    <3> HIDE DEF step
    <3>1. QED
      BY <1>2 DEF Kept1Stays
  <2> HIDE DEF step
  <2>2. QED
    BY <2>1, FoldExists
<1>4. Kept1Folds(shape, g)
  <2>1. ASSUME NEW s \in SUBSET (1..n), s # {}
        PROVE  step[<<Max(s), g[s \ {Max(s)}]>>] = (IF shape[Max(s)] = 1 THEN g[s \ {Max(s)}] ELSE Append(g[s \ {Max(s)}], shape[Max(s)]))
    <3>1. Max(s) \in 1..n
      BY <2>1, GreatestOf
    <3>2. s \ {Max(s)} \in SUBSET (1..n)
      OBVIOUS
    <3>3. g[s \ {Max(s)}] \in A
      BY <3>2
    <3> HIDE DEF step
    <3>4. QED
      BY <1>2, <3>1, <3>3
  <2> HIDE DEF step
  <2>2. QED
    BY <1>3, <2>1 DEF Kept1Folds, Folds
<1>5. Kept1Folds(shape, c)
  <2> HIDE DEF step
  <2>1. \E d : Kept1Folds(shape, d)
    BY <1>4
  <2>2. QED
    BY <2>1
<1> HIDE DEF step, c
<1>6. c[{}] = <<>> /\ \A k \in 1..n : c[1..k] = (IF shape[k] = 1 THEN c[1..(k - 1)] ELSE Append(c[1..(k - 1)], shape[k]))
  <2>1. c[{}] = <<>>
    BY <1>5 DEF Kept1Folds
  <2>2. ASSUME NEW k \in 1..n PROVE c[1..k] = (IF shape[k] = 1 THEN c[1..(k - 1)] ELSE Append(c[1..(k - 1)], shape[k]))
    <3>1. /\ 1..k \in SUBSET (1..n) /\ 1..k # {}
          /\ Max(1..k) = k /\ (1..k) \ {k} = 1..(k - 1)
      BY PrefixEnds
    <3>2. QED
      BY <1>5, <3>1 DEF Kept1Folds
  <2>3. QED
    BY <2>1, <2>2
<1>7. h[0] = <<>> /\ \A k \in 1..n : h[k] = (IF shape[k] = 1 THEN h[k - 1] ELSE Append(h[k - 1], shape[k]))
  BY <1>6
<1>8. h \in [0..n -> A]
  <2>1. h = [k \in 0..n |-> h[k]]
    OBVIOUS
  <2> HIDE DEF h
  <2>2. \A k \in 1..n : h[k - 1] \in A => h[k] \in A
    BY <1>7 DEF Kept1Stays
  <2>3. \A k \in 0..n : h[k] \in A
    BY <1>7, <2>2, FoldStays
  <2>4. QED
    BY <2>1, <2>3
<1>9. Kept1(shape) = h[n]
  BY KeptReachesUnfolds DEF c
<1>10. QED
  BY <1>7, <1>8, <1>9 DEF Kept1Passes

LEMMA KeptIs == ASSUME NEW s \in Seq(Nat) PROVE Kept1(s) \in Seq(Nat) /\ Size(Kept1(s)) = Size(s)
<1> DEFINE n == Len(s)
<1>0. n \in Nat /\ DOMAIN s = 1..n /\ \A i \in 1..n : s[i] \in Nat
  BY ShapeIs
<1>1. Kept1Stays(s, n, Seq(Nat))
  <2>1. ASSUME NEW k \in 1..n, NEW a \in Seq(Nat)
        PROVE  (IF s[k] = 1 THEN a ELSE Append(a, s[k])) \in Seq(Nat)
    BY <1>0
  <2> QED
    BY <2>1 DEF Kept1Stays
<1>2. <<>> \in Seq(Nat)
  OBVIOUS
<1>3. Kept1Passes(s, n, Seq(Nat))
  BY <1>0, <1>1, <1>2, KeptReaches
<1>4. PICK h \in [0..n -> Seq(Nat)] :
        /\ h[0] = <<>> /\ h[n] = Kept1(s)
        /\ \A k \in 1..n : h[k] = IF s[k] = 1 THEN h[k - 1] ELSE Append(h[k - 1], s[k])
  BY <1>3 DEF Kept1Passes
<1>5. PICK f \in [0..n -> Nat] : SizeChain(f, s) /\ f[n] = Size(s)
  BY SizeChains
<1> DEFINE P == {k \in 0..n : Size(h[k]) = f[k]}
<1>6. 0 \in P
  <2>1. 0 \in 0..n /\ f[0] = 1 /\ h[0] = <<>>
    BY <1>0, <1>4, <1>5 DEF SizeChain
  <2>2. Size(<<>>) = 1
    BY 1 \in Nat, SizeOfOne
  <2>3. Size(h[0]) = 1
    BY <2>1, <2>2
  <2> QED
    BY <2>1, <2>3
<1>7. ASSUME NEW k \in 1..n, k - 1 \in P PROVE k \in P
  <2>1. k \in 0..n /\ k - 1 \in 0..n /\ f[k] = f[k - 1] * s[k] /\ f[k - 1] \in Nat /\ s[k] \in Nat
    <3>1. k \in 0..n /\ k - 1 \in 0..n /\ k \in 1..Len(s)
      BY <1>0
    <3>2. f[k] = f[k - 1] * s[k]
      BY <1>5, <3>1 DEF SizeChain
    <3>3. f[k - 1] \in Nat
      BY <1>5, <3>1
    <3>4. s[k] \in Nat
      BY <3>1
    <3> QED
      BY <3>1, <3>2, <3>3, <3>4
  <2>2. CASE s[k] = 1
    <3>1. h[k] = h[k - 1]
      BY <1>4, <2>2
    <3> QED
      BY <1>7, <2>1, <2>2, <3>1
  <2>3. CASE s[k] # 1
    <3> DEFINE v == h[k - 1]  u == h[k]
    <3>1. v \in Seq(Nat) /\ u \in Seq(Nat) /\ u = Append(v, s[k])
      BY <1>4, <2>1, <2>3
    <3> HIDE DEF u, v
    <3>2. Len(v) \in Nat /\ Len(u) = Len(v) + 1 /\ u[Len(v) + 1] = s[k]
      BY <2>1, <3>1
    <3>3. \A i \in 1..Len(v) : v[i] = u[i]
      BY <2>1, <3>1, <3>2
    <3>4. Size(u) = Size(v) * s[k]
      BY <3>1, <3>2, <3>3, SizeOfLast DEF AllButLast
    <3> QED
      BY <1>7, <2>1, <3>4 DEF u, v
  <2> QED
    BY <2>2, <2>3
<1> HIDE DEF P
<1>8. \A k \in 0..n : k \in P
  BY <1>0, <1>6, <1>7, NaturalInduction
<1>9. n \in P /\ n \in 0..n
  BY <1>0, <1>8
<1> QED
  BY <1>4, <1>5, <1>9 DEF P

LEMMA SqueezedIs ==
  ASSUME NEW r
  PROVE  Squeezed(r) = Reshaped(r, IF Kept1(r.shape) = <<>> THEN <<1>> ELSE Kept1(r.shape))
  BY DEF Squeezed, Kept1

(* A tensor with storage whose elements all lie in it; m bounds the owner of the storage. *)
InBounds(r) == Size(r.shape) > 0 => r.offset + Reach(r.shape, r.strides) < r.store.size
Backed(r, m) ==
  /\ r \in TensorRecords /\ r.op = "real" /\ r.args = <<>>
  /\ r.store.owner \in 1..m /\ Len(r.strides) = Len(r.shape) /\ InBounds(r)

LEMMA BackedIs ==
  ASSUME NEW r, NEW m, Backed(r, m)
  PROVE  /\ r.shape \in Seq(Nat) /\ r.strides \in Seq(Nat) /\ r.offset \in Nat
         /\ r.dtype \in DTypes /\ r.store.size \in Nat /\ Strided(r.shape, r.strides)
  BY RecordIs DEF Backed, Strided

\* What a view changes of the tensor that it is taken of.
Viewed(r, v, shape, strides, offset) ==
  /\ v \in TensorRecords /\ v.op = r.op /\ v.args = r.args /\ v.store = r.store
  /\ v.dtype = r.dtype /\ v.shape = shape /\ v.strides = strides /\ v.offset = offset

LEMMA ViewChanges ==
  ASSUME NEW r \in TensorRecords, NEW shape \in Seq(Nat), NEW strides \in Seq(Nat),
         NEW offset \in Nat
  PROVE  Viewed(r, [r EXCEPT !.shape = shape, !.strides = strides, !.offset = offset],
                shape, strides, offset)
  BY DEF TensorRecords, Viewed

LEMMA ReshapeChanges ==
  ASSUME NEW r \in TensorRecords, NEW shape \in Seq(Nat), NEW strides \in Seq(Nat)
  PROVE  Viewed(r, [r EXCEPT !.shape = shape, !.strides = strides], shape, strides, r.offset)
  BY DEF TensorRecords, Viewed

LEMMA ViewBacked ==
  ASSUME NEW r, NEW m, Backed(r, m), NEW v, NEW shape, NEW strides, NEW offset,
         Viewed(r, v, shape, strides, offset), Len(strides) = Len(shape),
         Size(shape) > 0 => offset + Reach(shape, strides) < r.store.size
  PROVE  Backed(v, m)
  BY DEF Backed, Viewed, InBounds

LEMMA EmptyIs ==
  ASSUME NEW m \in Nat, NEW shape \in Seq(Nat), NEW dtype \in DTypes
  PROVE  /\ Empty(m, shape, dtype) \in TensorRecords
         /\ Empty(m, shape, dtype).told.shape = shape /\ Empty(m, shape, dtype).told.dtype = dtype
         /\ Empty(m, shape, dtype).dtype = dtype
         /\ m # 0 => Backed(Empty(m, shape, dtype), m)
<1> DEFINE e == Empty(m, shape, dtype)
<1>1. /\ Contiguous(shape) \in Seq(Nat) /\ Len(Contiguous(shape)) = Len(shape)
      /\ Size(shape) \in Nat /\ Reach(shape, Contiguous(shape)) = Size(shape) - 1
  BY ContiguousIs, SizeIsNat, ReachOfContiguous
<1>2. e \in TensorRecords
  BY <1>1 DEF Empty, TensorRecords, Operations, Storage
<1>3. /\ e.op = "real" /\ e.args = <<>> /\ e.store.owner = m /\ e.store.size = Size(shape)
      /\ e.shape = shape /\ e.strides = Contiguous(shape) /\ e.offset = 0
      /\ e.told.shape = shape /\ e.told.dtype = dtype /\ e.dtype = dtype
  BY DEF Empty, Storage
<1> HIDE DEF e
<1>4. InBounds(e)
  BY <1>1, <1>3 DEF InBounds
<1> QED
  BY <1>1, <1>2, <1>3, <1>4 DEF Backed, e

LEMMA ReshapedBacked ==
  ASSUME NEW r, Next1 \in Nat \ {0}, Backed(r, Next1), NEW shape \in Seq(Nat),
         Size(shape) = Size(r.shape)
  PROVE  Backed(Reshaped(r, shape), Next1)
<1>1. r.shape \in Seq(Nat) /\ r.offset \in Nat /\ r.dtype \in DTypes /\ r \in TensorRecords
  BY BackedIs DEF Backed
<1>2. CASE IsContiguous(r)
  <2> DEFINE c == Contiguous(shape)  v == [r EXCEPT !.shape = shape, !.strides = c]
  <2>1. c \in Seq(Nat) /\ Len(c) = Len(shape) /\ Reach(shape, c) = Size(shape) - 1
    BY ContiguousIs, ReachOfContiguous
  <2>2. r.strides = Contiguous(r.shape) /\ Reach(r.shape, Contiguous(r.shape)) = Size(r.shape) - 1
    BY <1>1, <1>2, ReachOfContiguous DEF IsContiguous
  <2> HIDE DEF c
  <2>3. Viewed(r, v, shape, c, r.offset)
    BY <1>1, <2>1, ReshapeChanges
  <2>4. Size(shape) > 0 => r.offset + Reach(shape, c) < r.store.size
    BY <2>1, <2>2 DEF Backed, InBounds
  <2>5. Reshaped(r, shape) = v
    BY <1>2 DEF Reshaped, c
  <2> HIDE DEF v
  <2> QED
    BY <2>1, <2>3, <2>4, <2>5, ViewBacked
<1>3. CASE ~IsContiguous(r)
  <2>1. Reshaped(r, shape) = Empty(Next1, shape, r.dtype)
    BY <1>3 DEF Reshaped
  <2> QED
    BY <1>1, <2>1, EmptyIs
<1> QED
  BY <1>2, <1>3

LEMMA FlattenedBacked ==
  ASSUME NEW r, Next1 \in Nat \ {0}, Backed(r, Next1) PROVE Backed(Flattened(r), Next1)
<1>1. r.shape \in Seq(Nat)
  BY BackedIs
<1>2. Size(r.shape) \in Nat
  BY <1>1, SizeIsNat
<1>3. <<Size(r.shape)>> \in Seq(Nat) /\ Size(<<Size(r.shape)>>) = Size(r.shape)
  BY <1>2, SizeOfOne
<1> QED
  BY <1>3, ReshapedBacked DEF Flattened

LEMMA SqueezedBacked ==
  ASSUME NEW r, Next1 \in Nat \ {0}, Backed(r, Next1) PROVE Backed(Squeezed(r), Next1)
<1>1. r.shape \in Seq(Nat)
  BY BackedIs
<1> DEFINE k == Kept1(r.shape)
           s == IF k = <<>> THEN <<1>> ELSE k
<1>2. k \in Seq(Nat) /\ Size(k) = Size(r.shape)
  BY <1>1, KeptIs
<1>3. <<1>> \in Seq(Nat) /\ Size(<<1>>) = 1 /\ Size(<<>>) = 1
  BY 1 \in Nat, SizeOfOne
<1> HIDE DEF k
<1>4. s \in Seq(Nat) /\ Size(s) = Size(r.shape)
  BY <1>2, <1>3
<1>5. Squeezed(r) = Reshaped(r, s)
  BY SqueezedIs DEF k
<1> HIDE DEF s
<1> QED
  BY <1>4, <1>5, ReshapedBacked

LEMMA UnsqueezedBacked ==
  ASSUME NEW r, Next1 \in Nat \ {0}, Backed(r, Next1), NEW d \in 0..Len(r.shape)
  PROVE  Backed(Unsqueezed(r, d), Next1)
<1>1. r.shape \in Seq(Nat)
  BY BackedIs
<1> DEFINE s == InsertAt(r.shape, d + 1, 1)
<1>2. s \in Seq(Nat) /\ Size(s) = Size(r.shape)
  BY <1>1, InsertIs, SizeOfInserted
<1>3. Unsqueezed(r, d) = Reshaped(r, s)
  BY DEF Unsqueezed
<1> HIDE DEF s
<1> QED
  BY <1>2, <1>3, ReshapedBacked

(* The dimensions in another order. *)
LEMMA PermutedBacked ==
  ASSUME NEW r, NEW m, Backed(r, m), NEW v, NEW shape \in Seq(Nat), NEW strides \in Seq(Nat),
         Viewed(r, v, shape, strides, r.offset),
         NEW p \in Bijection(1..Len(r.shape), 1..Len(r.shape)),
         Permutes(p, r.shape, shape), Permutes(p, r.strides, strides)
  PROVE  Backed(v, m)
<1>1. Strided(r.shape, r.strides)
  BY BackedIs
<1>2. Strided(shape, strides)
  BY <1>1 DEF Strided, Permutes
<1>3. Size(shape) = Size(r.shape) /\ Reach(shape, strides) = Reach(r.shape, r.strides)
  BY <1>1, <1>2, ReachPermuted
<1> QED
  BY <1>2, <1>3, ViewBacked DEF Backed, InBounds, Strided

PermuteSeq(s, p) == [i \in DOMAIN p |-> s[p[i]]]

LEMMA PermuteSeqIs ==
  ASSUME NEW s \in Seq(Nat), NEW p \in Bijection(1..Len(s), 1..Len(s))
  PROVE  PermuteSeq(s, p) \in Seq(Nat) /\ Permutes(p, s, PermuteSeq(s, p))
<1>1. Len(s) \in Nat /\ \A i \in 1..Len(s) : s[i] \in Nat
  BY ShapeIs
<1>2. p \in [1..Len(s) -> 1..Len(s)]
  BY DEF Bijection, Injection
<1>3. PermuteSeq(s, p) = [i \in 1..Len(s) |-> s[p[i]]]
  BY <1>2 DEF PermuteSeq
<1>4. \A i \in 1..Len(s) : s[p[i]] \in Nat
  BY <1>1, <1>2
<1> QED
  BY <1>1, <1>3, <1>4 DEF Permutes

LEMMA PermutesBacked ==
  ASSUME NEW r, NEW m, Backed(r, m), NEW p \in Bijection(1..Len(r.shape), 1..Len(r.shape))
  PROVE  Backed(Permuted(r, p), m)
<1> DEFINE s == PermuteSeq(r.shape, p)  c == PermuteSeq(r.strides, p)  v == Permuted(r, p)
<1>1. /\ r.shape \in Seq(Nat) /\ r.strides \in Seq(Nat) /\ Len(r.strides) = Len(r.shape)
      /\ r \in TensorRecords
  BY BackedIs DEF Backed
<1>2. /\ s \in Seq(Nat) /\ Permutes(p, r.shape, s)
      /\ c \in Seq(Nat) /\ Permutes(p, r.strides, c)
  BY <1>1, PermuteSeqIs
<1>3. v = [r EXCEPT !.shape = s, !.strides = c]
  BY DEF Permuted, PermuteSeq
<1> HIDE DEF s, c, v
<1>4. Viewed(r, v, s, c, r.offset)
  BY <1>1, <1>2, <1>3, ReshapeChanges
<1>5. Backed(v, m)
  BY <1>2, <1>4, PermutedBacked
<1> QED
  BY <1>5 DEF v

Swap(n, i, j) == [k \in 1..n |-> IF k = i THEN j ELSE IF k = j THEN i ELSE k]
SwapSeq(s, i, j) == [s EXCEPT ![i] = s[j], ![j] = s[i]]

LEMMA SwapIs ==
  ASSUME NEW n \in Nat, NEW i \in 1..n, NEW j \in 1..n
  PROVE  Swap(n, i, j) \in Bijection(1..n, 1..n)
<1> DEFINE p == Swap(n, i, j)
<1>1. p \in [1..n -> 1..n] /\ \A k \in 1..n : p[k] = IF k = i THEN j ELSE IF k = j THEN i ELSE k
  BY DEF Swap
<1> HIDE DEF p
<1>2. \A k, l \in 1..n : p[k] = p[l] => k = l
  BY <1>1
<1>3. \A l \in 1..n : \E k \in 1..n : p[k] = l
  <2>1. ASSUME NEW l \in 1..n PROVE \E k \in 1..n : p[k] = l
    <3>1. p[p[l]] = l /\ p[l] \in 1..n
      BY <1>1
    <3> QED
      BY <3>1
  <2> QED
    BY <2>1
<1>4. p \in Bijection(1..n, 1..n)
  BY <1>1, <1>2, <1>3 DEF Bijection, Injection, Surjection, IsInjective
<1> QED
  BY <1>4 DEF p

LEMMA SwapSeqIs ==
  ASSUME NEW s \in Seq(Nat), NEW i \in 1..Len(s), NEW j \in 1..Len(s), i # j
  PROVE  SwapSeq(s, i, j) \in Seq(Nat) /\ Permutes(Swap(Len(s), i, j), s, SwapSeq(s, i, j))
<1>1. Len(s) \in Nat /\ DOMAIN s = 1..Len(s) /\ \A k \in 1..Len(s) : s[k] \in Nat
  BY ShapeIs
<1>2. SwapSeq(s, i, j) \in Seq(Nat) /\ Len(SwapSeq(s, i, j)) = Len(s)
  BY <1>1 DEF SwapSeq
<1>3. \A k \in 1..Len(s) : SwapSeq(s, i, j)[k] = s[Swap(Len(s), i, j)[k]]
  BY <1>1 DEF SwapSeq, Swap
<1> QED
  BY <1>2, <1>3 DEF Permutes

LEMMA TransposedBacked ==
  ASSUME NEW r, NEW m, Backed(r, m), NEW i \in 1..Len(r.shape), NEW j \in 1..Len(r.shape), i # j
  PROVE  Backed(Transposed(r, i, j), m)
<1> DEFINE s == SwapSeq(r.shape, i, j)  c == SwapSeq(r.strides, i, j)  v == Transposed(r, i, j)
           p == Swap(Len(r.shape), i, j)
<1>1. /\ r.shape \in Seq(Nat) /\ r.strides \in Seq(Nat) /\ Len(r.strides) = Len(r.shape)
      /\ r \in TensorRecords /\ Len(r.shape) \in Nat
  BY BackedIs, ShapeIs DEF Backed
<1>2. /\ s \in Seq(Nat) /\ Permutes(p, r.shape, s)
      /\ c \in Seq(Nat) /\ Permutes(p, r.strides, c) /\ p \in Bijection(1..Len(r.shape), 1..Len(r.shape))
  BY <1>1, SwapSeqIs, SwapIs
<1>3. v = [r EXCEPT !.shape = s, !.strides = c]
  BY DEF Transposed, SwapSeq
<1> HIDE DEF s, c, v, p
<1>4. Viewed(r, v, s, c, r.offset)
  BY <1>1, <1>2, <1>3, ReshapeChanges
<1>5. Backed(v, m)
  BY <1>2, <1>4, PermutedBacked
<1> QED
  BY <1>5 DEF v

(* A multiple of a stride, and what is left of a dimension. *)
LEMMA ProductsAre ==
  ASSUME NEW a \in Nat, NEW b \in Nat, NEW e \in Nat
  PROVE  a * e \in Nat /\ (a <= b => a * e <= b * e)
<1>1. a * e \in Nat
  BY Z3
<1>2. ASSUME a <= b PROVE a * e <= b * e
  BY <1>2, Z3
<1> QED
  BY <1>1, <1>2

LEMMA IndexIntBacked ==
  ASSUME NEW r, NEW m, Backed(r, m), r.shape # <<>>,
         NEW k \in (-r.shape[1])..(r.shape[1] - 1)
  PROVE  Backed(IndexInt(r, k), m)
<1> DEFINE s == r.shape  c == r.strides  t == Tail(s)  d == Tail(c)  n == s[1]  e == c[1]
           kk == IF k < 0 THEN n + k ELSE k
           v == IndexInt(r, k)
           o == r.offset + kk * e
<1>1. /\ s \in Seq(Nat) /\ c \in Seq(Nat) /\ Len(c) = Len(s) /\ Strided(s, c)
      /\ r \in TensorRecords /\ r.offset \in Nat /\ r.store.size \in Nat
  BY BackedIs DEF Backed
<1>2. c # <<>>
  BY <1>1
<1>3. t \in Seq(Nat) /\ Behind(s, t) /\ n \in Nat /\ d \in Seq(Nat) /\ Behind(c, d) /\ e \in Nat
  BY <1>1, <1>2, TailIs
<1>4. Len(d) = Len(t) /\ Strided(t, d)
  BY <1>1, <1>3 DEF Behind, Strided
<1>5. Reach(t, d) \in Int /\ Reach(s, c) = (n - 1) * e + Reach(t, d)
  BY <1>1, <1>3, <1>4, ReachOfHead
<1>6. Size(s) = n * Size(t) /\ Size(t) \in Nat
  BY <1>1, <1>3, SizeOfHead, SizeIsNat
<1>7. kk \in Nat /\ kk <= n - 1 /\ n - 1 \in Nat
  BY <1>3
<1>8. kk * e \in Nat /\ (n - 1) * e \in Nat /\ kk * e <= (n - 1) * e
  BY <1>3, <1>7, ProductsAre
<1>9. v = [r EXCEPT !.shape = t, !.strides = d, !.offset = o]
  BY DEF IndexInt
<1>10. o \in Nat
  BY <1>1, <1>8
<1>11. Size(t) > 0 => Size(s) > 0
  <2>1. n \in Nat /\ n > 0
    BY <1>7, <1>3
  <2> HIDE DEF n, s, t
  <2> QED
    BY <1>6, <2>1, Z3
<1>12. Size(t) > 0 => o + Reach(t, d) < r.store.size
  <2>1. Size(t) > 0 => r.offset + Reach(s, c) < r.store.size
    BY <1>11 DEF Backed, InBounds
  <2> DEFINE p == kk * e  q == (n - 1) * e  R == Reach(t, d)
  <2>2. p \in Nat /\ q \in Nat /\ p <= q /\ R \in Int /\ Reach(s, c) = q + R /\ o = r.offset + p
    BY <1>5, <1>8
  <2> HIDE DEF p, q, R, o, s, c, t, d
  <2>3. Size(t) > 0 => o + R < r.store.size
    BY <1>1, <2>1, <2>2
  <2> QED
    BY <2>3 DEF R
<1> HIDE DEF s, c, t, d, n, e, kk, o, v
<1>13. Viewed(r, v, t, d, o)
  BY <1>1, <1>3, <1>9, <1>10, ViewChanges
<1>14. Backed(v, m)
  BY <1>4, <1>12, <1>13, ViewBacked
<1> QED
  BY <1>14 DEF v

\* How many elements a slice has.
Taken(start, stop, step) == Max({0, (stop - start + step - 1) \div step})

LEMMA TakenIs ==
  ASSUME NEW n \in Nat, NEW start \in 0..n, NEW stop \in 0..n, NEW step \in {1, 2}
  PROVE  /\ Taken(start, stop, step) \in Nat
         /\ Taken(start, stop, step) > 0 =>
              start + (Taken(start, stop, step) - 1) * step <= n - 1
<1> DEFINE q == (stop - start + step - 1) \div step
<1>1. q \in Int
  BY Z3
<1>2. Taken(start, stop, step) = IF q > 0 THEN q ELSE 0
  <2> HIDE DEF q
  <2>1. \E u \in {0, q} : \A w \in {0, q} : u >= w
    BY <1>1
  <2>2. Max({0, q}) \in {0, q} /\ \A w \in {0, q} : Max({0, q}) >= w
    BY <2>1 DEF Max
  <2>3. Max({0, q}) = IF q > 0 THEN q ELSE 0
    BY <1>1, <2>2
  <2> QED
    BY <2>3 DEF Taken, q
<1>3. start + (q - 1) * step <= n - 1
  <2>1. CASE step = 1
    BY <2>1, Z3
  <2>2. CASE step = 2
    BY <2>2, Z3
  <2> QED
    BY <2>1, <2>2
<1> HIDE DEF q
<1> QED
  BY <1>1, <1>2, <1>3

LEMMA IndexSliceBacked ==
  ASSUME NEW r, NEW m, Backed(r, m), r.shape # <<>>,
         NEW start \in 0..r.shape[1], NEW stop \in 0..r.shape[1], NEW step \in {1, 2}
  PROVE  Backed(IndexSlice(r, start, stop, step), m)
<1> DEFINE s == r.shape  c == r.strides  t == Tail(s)  d == Tail(c)  n == s[1]  e == c[1]
           got == Taken(start, stop, step)
           v == IndexSlice(r, start, stop, step)
           o == r.offset + start * e
           s1 == <<got>> \o t
           c1 == <<e * step>> \o d
<1> HIDE DEF v, s1, c1, o, got
<1>1. /\ s \in Seq(Nat) /\ c \in Seq(Nat) /\ Len(c) = Len(s) /\ Strided(s, c)
      /\ r \in TensorRecords /\ r.offset \in Nat /\ r.store.size \in Nat
  BY BackedIs DEF Backed
<1>2. c # <<>>
  BY <1>1
<1>3. t \in Seq(Nat) /\ Behind(s, t) /\ n \in Nat /\ d \in Seq(Nat) /\ Behind(c, d) /\ e \in Nat
  BY <1>1, <1>2, TailIs
<1>4. Len(d) = Len(t) /\ Strided(t, d)
  <2> HIDE DEF s, c, t, d, n, e
  <2>1. Len(t) \in Nat /\ Len(d) \in Nat /\ Len(s) = Len(t) + 1 /\ Len(c) = Len(d) + 1
    BY <1>3, ShapeIs DEF Behind
  <2>2. Len(d) = Len(t)
    BY <1>1, <2>1
  <2> QED
    BY <1>3, <2>2 DEF Strided
<1>5. Reach(t, d) \in Int /\ Reach(s, c) = (n - 1) * e + Reach(t, d)
  BY <1>1, <1>3, <1>4, ReachOfHead
<1>6. Size(s) = n * Size(t) /\ Size(t) \in Nat
  BY <1>1, <1>3, SizeOfHead, SizeIsNat
<1>7. got \in Nat /\ (got > 0 => start + (got - 1) * step <= n - 1)
  BY <1>3, TakenIs DEF got
<1>8. e * step \in Nat /\ step \in Nat /\ start \in Nat /\ start * e \in Nat
  BY <1>3, ProductsAre
<1>9. v = [r EXCEPT !.shape = s1, !.strides = c1, !.offset = o]
  BY DEF IndexSlice, Taken, v, s1, c1, o, got
<1>10. o \in Nat
  <2> DEFINE z == start * e
  <2>1. z \in Nat /\ r.offset \in Nat /\ o = r.offset + z
    BY <1>1, <1>8 DEF o
  <2> HIDE DEF z
  <2> QED
    BY <2>1
<1>11. s1 \in Seq(Nat) /\ Behind(s1, t) /\ s1[1] = got
  BY <1>3, <1>7, HeadPut DEF s1
<1>12. c1 \in Seq(Nat) /\ Behind(c1, d) /\ c1[1] = e * step
  BY <1>3, <1>8, HeadPut DEF c1
<1>13. Len(c1) = Len(s1) /\ Strided(s1, c1)
  BY <1>4, <1>11, <1>12 DEF Behind, Strided
<1>14. Reach(s1, c1) = (got - 1) * (e * step) + Reach(t, d)
  BY <1>4, <1>11, <1>12, <1>13, ReachOfHead
<1>15. Size(s1) = got * Size(t)
  BY <1>3, <1>11, SizeOfHead
<1> DEFINE R == Reach(t, d)
<1>16. ASSUME Size(s1) > 0 PROVE o + Reach(s1, c1) < r.store.size
  <2>1. got > 0 /\ Size(t) > 0
    <3> DEFINE z == Size(t)
    <3>1. z \in Nat /\ got \in Nat /\ got * z > 0
      BY <1>6, <1>7, <1>15, <1>16
    <3> HIDE DEF z
    <3>2. got > 0 /\ z > 0
      BY <3>1, Z3
    <3> QED
      BY <3>2 DEF z
  <2>2. start + (got - 1) * step <= n - 1 /\ (got - 1) * step \in Nat /\ got - 1 \in Nat
    BY <1>7, <1>8, <2>1, ProductsAre
  <2> DEFINE a == start + (got - 1) * step
  <2>3. a \in Nat /\ n - 1 \in Nat /\ a <= n - 1
    <3>1. n - 1 \in Nat
      <4>1. n \in Nat /\ (got - 1) * step <= n - 1 - start /\ start \in Nat /\ (got - 1) * step \in Nat
        <5> DEFINE z == (got - 1) * step
        <5>1. z \in Nat /\ n \in Nat /\ start \in Nat /\ start + z <= n - 1
          BY <1>3, <1>8, <2>2
        <5> HIDE DEF z, n
        <5>2. z <= n - 1 - start
          BY <5>1
        <5> QED
          BY <5>1, <5>2 DEF z
      <4> DEFINE z == (got - 1) * step
      <4> HIDE DEF n, z
      <4>2. z \in Nat /\ z <= n - 1 - start
        BY <4>1 DEF z
      <4> QED
        BY <4>1, <4>2
    <3> DEFINE z == (got - 1) * step
    <3>2. z \in Nat /\ start + z <= n - 1
      BY <2>2
    <3> HIDE DEF z, n
    <3>3. start + z \in Nat
      BY <1>8, <3>2
    <3> QED
      BY <3>1, <3>2, <3>3 DEF z
  <2>4. n > 0
    BY <1>3, <2>3
  <2>5. Size(s) > 0
    <3> DEFINE z == Size(t)
    <3>1. z \in Nat /\ z > 0 /\ n \in Nat /\ n > 0 /\ Size(s) = n * z
      BY <1>3, <1>6, <2>1, <2>4
    <3> HIDE DEF z, n, s
    <3> QED
      BY <3>1, Z3
  <2>6. r.offset + Reach(s, c) < r.store.size
    BY <2>5 DEF Backed, InBounds
  <2>7. a * e \in Nat /\ (n - 1) * e \in Nat /\ a * e <= (n - 1) * e
    BY <1>3, <2>3, ProductsAre
  <2>8. a * e = start * e + (got - 1) * (e * step)
    <3>1. \A i, j, k, l \in Nat : (i + j * k) * l = i * l + j * (l * k)
      BY Z3
    <3> HIDE DEF e
    <3> QED
      BY <1>3, <1>8, <2>2, <3>1
  <2> DEFINE p == a * e  q == (n - 1) * e
             y == start * e  w == (got - 1) * (e * step)
  <2>9. /\ p \in Nat /\ q \in Nat /\ p <= q /\ R \in Int /\ Reach(s, c) = q + R
        /\ o = r.offset + y /\ p = y + w /\ Reach(s1, c1) = w + R /\ y \in Nat /\ w \in Int
    <3>1. w = p - y /\ p \in Nat /\ y \in Nat
      <4>1. p = y + w /\ p \in Nat /\ y \in Nat
        BY <1>8, <2>7, <2>8
      <4>2. w \in Nat
        BY <1>8, <2>2, ProductsAre
      <4> HIDE DEF p, y, w
      <4> QED
        BY <4>1, <4>2
    <3>2. w \in Nat
      BY <1>8, <2>2, ProductsAre
    <3> QED
      BY <1>5, <1>14, <2>7, <2>8, <1>8, <3>2 DEF o
  <2> HIDE DEF p, q, y, w, R, o, s, c
  <2>10. o + Reach(s1, c1) < r.store.size
    BY <1>1, <2>6, <2>9
  <2> QED
    BY <2>10
<1> HIDE DEF s, c, t, d, n, e, o, v
<1>17. Viewed(r, v, s1, c1, o)
  BY <1>1, <1>9, <1>10, <1>11, <1>12, ViewChanges
<1>18. Backed(v, m)
  BY <1>13, <1>16, <1>17, ViewBacked
<1> QED
  BY <1>18 DEF v

LEMMA IndexNoneBacked ==
  ASSUME NEW r, Next1 \in Nat \ {0}, Backed(r, Next1)
  PROVE  Backed(IndexNone(r, 0), Next1)
<1>1. r.shape \in Seq(Nat) /\ r \in TensorRecords
  BY BackedIs DEF Backed
<1>2. 0 \in 0..Len(r.shape)
  BY <1>1, ShapeIs
<1> DEFINE u == Unsqueezed(r, 0)  s == InsertAt(r.shape, 0 + 1, 1)
<1>3. Backed(u, Next1)
  BY <1>2, UnsqueezedBacked
<1>4. s \in Seq(Nat) /\ Inserted(s, r.shape, 0)
  BY <1>1, <1>2, InsertIs
<1>5. u.shape = s
  <2> HIDE DEF s
  <2>1. u = Reshaped(r, s)
    BY DEF Unsqueezed, s
  <2>2. CASE IsContiguous(r)
    <3>1. u = [r EXCEPT !.shape = s, !.strides = Contiguous(s)]
      BY <2>1, <2>2 DEF Reshaped
    <3>2. Contiguous(s) \in Seq(Nat)
      BY <1>4, ContiguousIs
    <3> HIDE DEF u
    <3>3. Viewed(r, u, s, Contiguous(s), r.offset)
      BY <1>1, <1>4, <3>1, <3>2, ReshapeChanges
    <3> QED
      BY <3>3 DEF Viewed
  <2>3. CASE ~IsContiguous(r)
    <3>1. u = Empty(Next1, s, r.dtype)
      BY <2>1, <2>3 DEF Reshaped
    <3> HIDE DEF u
    <3> QED
      BY <3>1 DEF Empty
  <2> QED
    BY <2>2, <2>3
<1>6. s[1] = 1 /\ s # <<>>
  <2>1. Len(s) = Len(r.shape) + 1 /\ s[0 + 1] = 1
    BY <1>4 DEF Inserted
  <2> HIDE DEF s
  <2> QED
    BY <1>1, <2>1, ShapeIs
<1> HIDE DEF u, s
<1>7. u.shape # <<>> /\ 0 \in (-u.shape[1])..(u.shape[1] - 1)
  BY <1>5, <1>6
<1>8. Backed(IndexInt(u, 0), Next1)
  BY <1>3, <1>7, IndexIntBacked
<1> QED
  BY <1>8 DEF IndexNone, u
-----------------------------------------------------------------------------
(* Tensors: what all operations keep. *)

(* Two dimensions are dropped. *)
LEMMA PopTwo ==
  ASSUME NEW shape, NEW e \in Int, NEW k \in Int
  PROVE  PoppedTo(shape, <<e, k>>, PopDim(PopDim(shape, e), k))
<1> DEFINE dims == <<e, k>>
           c == CHOOSE c : PoppedFolds(shape, dims, c)
           g == [s \in SUBSET {1, 2} |->
                   IF s = {} THEN shape
                   ELSE IF s = {1} THEN PopDim(shape, e)
                   ELSE IF s = {2} THEN PopDim(shape, k)
                   ELSE PopDim(PopDim(shape, e), k)]
<1>1. DOMAIN dims = {1, 2} /\ dims[1] = e /\ dims[2] = k
  OBVIOUS
<1> HIDE DEF dims
<1>2. /\ SUBSET {1, 2} = {{}, {1}, {2}, {1, 2}} /\ {1} # {} /\ {2} # {} /\ {1, 2} # {}
      /\ {2} # {1} /\ {1, 2} # {1} /\ {1, 2} # {2}
      /\ {1} \ {1} = {} /\ {2} \ {2} = {} /\ {1, 2} \ {2} = {1}
  OBVIOUS
<1>3. Max({1}) = 1 /\ Max({2}) = 2 /\ Max({1, 2}) = 2
  <2>1. (\A u \in {1} : 1 >= u) /\ (\A u \in {2} : 2 >= u) /\ (\A u \in {1, 2} : 2 >= u)
    OBVIOUS
  <2>2. Max({1}) \in {1} /\ Max({2}) \in {2}
    BY <2>1 DEF Max
  <2>3. Max({1, 2}) \in {1, 2} /\ \A u \in {1, 2} : Max({1, 2}) >= u
    BY <2>1 DEF Max
  <2> QED
    BY <2>2, <2>3
<1>4. PoppedFolds(shape, dims, g)
  <2>1. \A s \in SUBSET {1, 2} :
          g[s] = IF s = {} THEN shape ELSE PopDim(g[s \ {Max(s)}], dims[Max(s)])
    <3>1. g[{}] = shape
      BY <1>2
    <3>2. g[{1}] = PopDim(shape, e) /\ g[{2}] = PopDim(shape, k)
      BY <1>2
    <3>3. g[{1, 2}] = PopDim(PopDim(shape, e), k)
      BY <1>2
    <3> HIDE DEF g
    <3>4. /\ g[{1}] = PopDim(g[{1} \ {Max({1})}], dims[Max({1})])
          /\ g[{2}] = PopDim(g[{2} \ {Max({2})}], dims[Max({2})])
          /\ g[{1, 2}] = PopDim(g[{1, 2} \ {Max({1, 2})}], dims[Max({1, 2})])
      BY <1>1, <1>2, <1>3, <3>1, <3>2, <3>3
    <3> QED
      BY <1>2, <3>1, <3>4
  <2>2. g = [s \in SUBSET {1, 2} |-> g[s]]
    OBVIOUS
  <2> HIDE DEF g
  <2>3. g = [s \in SUBSET {1, 2} |->
               IF s = {} THEN shape ELSE PopDim(g[s \ {Max(s)}], dims[Max(s)])]
    BY <2>1, <2>2
  <2> QED
    BY <1>1, <2>3 DEF PoppedFolds
<1>5. PoppedFolds(shape, dims, c)
  <2> HIDE DEF g
  <2>1. \E d : PoppedFolds(shape, dims, d)
    BY <1>4
  <2> QED
    BY <2>1
<1>6. Popped(shape, dims) = c[{1, 2}]
  BY <1>1, PopReachesUnfolds
<1> HIDE DEF c
<1>7. c = [s \in SUBSET {1, 2} |->
             IF s = {} THEN shape ELSE PopDim(c[s \ {Max(s)}], dims[Max(s)])]
  BY <1>1, <1>5 DEF PoppedFolds
<1>8. c[{}] = shape
  BY <1>2, <1>7
<1>9. c[{1}] = PopDim(c[{1} \ {Max({1})}], dims[Max({1})])
  BY <1>2, <1>7
<1>10. c[{1, 2}] = PopDim(c[{1, 2} \ {Max({1, 2})}], dims[Max({1, 2})])
  BY <1>2, <1>7
<1> QED
  BY <1>1, <1>2, <1>3, <1>6, <1>8, <1>9, <1>10 DEF Popped, PoppedTo, dims

LEMMA DescendingOfTwo == Descending(<<0, 1>>) = <<1, 0>>
<1> DEFINE s == <<0, 1>>
           rank(i) == Cardinality({j \in DOMAIN s : s[j] > s[i] \/ (s[j] = s[i] /\ j <= i)})
<1>1. DOMAIN s = {1, 2} /\ s[1] = 0 /\ s[2] = 1
  OBVIOUS
<1>2. rank(1) = 2
  <2>1. {j \in DOMAIN s : s[j] > s[1] \/ (s[j] = s[1] /\ j <= 1)} = {1, 2}
    BY <1>1
  <2>2. Cardinality({1, 2}) = 2
    <3>0. IsFiniteSet({1}) /\ Cardinality({1}) = 1
      BY FS_Singleton
    <3>1. IsFiniteSet({1}) /\ Cardinality({1}) = 1 /\ 2 \notin {1}
      BY <3>0
    <3>2. Cardinality({1} \cup {2}) = Cardinality({1}) + 1
      BY <3>1, FS_AddElement
    <3>3. {1} \cup {2} = {1, 2}
      OBVIOUS
    <3> QED
      BY <3>1, <3>2, <3>3
  <2> QED
    BY <2>1, <2>2
<1>3. rank(2) = 1
  <2>1. {j \in DOMAIN s : s[j] > s[2] \/ (s[j] = s[2] /\ j <= 2)} = {2}
    BY <1>1
  <2> QED
    BY <2>1, FS_Singleton
<1>4. Descending(s) = [k \in DOMAIN s |-> s[CHOOSE i \in DOMAIN s : rank(i) = k]]
  BY DEF Descending
<1> HIDE DEF rank
<1> DEFINE nth(k) == CHOOSE i \in DOMAIN s : rank(i) = k
<1>5. nth(1) = 2 /\ nth(2) = 1 /\ Descending(s) = [k \in DOMAIN s |-> s[nth(k)]]
  BY <1>1, <1>2, <1>3, <1>4
<1> HIDE DEF nth
<1>6. Descending(s) = [k \in {1, 2} |-> IF k = 1 THEN 1 ELSE 0]
  BY <1>1, <1>5
<1>7. <<1, 0>> = [k \in {1, 2} |-> IF k = 1 THEN 1 ELSE 0]
  OBVIOUS
<1> QED
  BY <1>6, <1>7

\* A dimension that is there is dropped.
LEMMA PopIsShape ==
  ASSUME NEW s \in Seq(Nat), NEW e \in Int, Index(Len(s), e) \in 1..Len(s)
  PROVE  PopDim(s, e) \in Seq(Nat) /\ Len(PopDim(s, e)) = Len(s) - 1
<1>1. Len(s) \in Nat
  BY ShapeIs
<1>2. PopDim(s, e) = RemoveAt(s, Index(Len(s), e))
  BY DEF PopDim
<1>3. PopDim(s, e) \in Seq(Nat) /\ DOMAIN PopDim(s, e) = 1..(Len(s) - 1)
  BY <1>2, RemoveAtKeeps
<1>4. Len(s) - 1 \in Nat
  BY <1>1
<1> HIDE DEF PopDim
<1> QED
  BY <1>3, <1>4, LenProperties

\* The dimensions of a reduction are there.
Reducible(s, dims) ==
  dims # Whole => \A d \in ToSet(dims) : Index(Len(s), d) \in DOMAIN s

LEMMA ReduceIsShape ==
  ASSUME NEW s \in Seq(Nat), NEW dims \in ReduceDims, NEW keep \in BOOLEAN, Reducible(s, dims)
  PROVE  ReduceShape(s, dims, keep) \in Seq(Nat)
<1>1. Len(s) \in Nat /\ DOMAIN s = 1..Len(s) /\ \A i \in 1..Len(s) : s[i] \in Nat
  BY ShapeIs
<1>2. CASE keep /\ dims = Whole
  <2>1. ReduceShape(s, dims, keep) = [i \in 1..Len(s) |-> 1]
    BY <1>1, <1>2 DEF ReduceShape
  <2> QED
    BY <1>1, <2>1
<1>3. CASE keep /\ dims # Whole
  <2> DEFINE at(i) == \E d \in ToSet(dims) : Index(Len(s), d) = i
  <2>1. ReduceShape(s, dims, keep) = [i \in 1..Len(s) |-> IF at(i) THEN 1 ELSE s[i]]
    BY <1>1, <1>3 DEF ReduceShape
  <2> HIDE DEF at
  <2> QED
    BY <1>1, <2>1
<1>4. CASE ~keep /\ dims = Whole
  <2>1. ReduceShape(s, dims, keep) = <<>>
    BY <1>4 DEF ReduceShape
  <2> QED
    BY <2>1
<1>5. CASE ~keep /\ dims # Whole
  <2>0. /\ ReduceShape(s, dims, keep) = FoldLeft(PopDim, s, Descending(dims))
        /\ \A d \in ToSet(dims) : Index(Len(s), d) \in 1..Len(s)
    BY <1>1, <1>5 DEF ReduceShape, Reducible
  <2>1. ASSUME NEW e \in Int, dims = <<e>> PROVE ReduceShape(s, dims, keep) \in Seq(Nat)
    <3>1. Descending(dims) = <<e>>
      BY <2>1, DescendingOfOne
    <3>2. PoppedTo(s, <<e>>, PopDim(s, e))
      BY PopOnly
    <3>3. ToSet(dims) = {e}
      BY <2>1 DEF ToSet
    <3>4. Index(Len(s), e) \in 1..Len(s)
      BY <2>0, <3>3
    <3>5. PopDim(s, e) \in Seq(Nat)
      BY <3>4, PopIsShape
    <3> QED
      BY <2>0, <3>1, <3>2, <3>5 DEF PoppedTo
  <2>2. ASSUME dims = <<0, 1>> PROVE ReduceShape(s, dims, keep) \in Seq(Nat)
    <3>1. Descending(dims) = <<1, 0>>
      BY <2>2, DescendingOfTwo
    <3>2. PoppedTo(s, <<1, 0>>, PopDim(PopDim(s, 1), 0))
      BY PopTwo
    <3>3. ToSet(dims) = {0, 1}
      BY <2>2 DEF ToSet
    <3>4. Index(Len(s), 1) \in 1..Len(s) /\ Index(Len(s), 1) = 2
      <4>1. Index(Len(s), 1) = 2
        BY DEF Index
      <4> QED
        BY <2>0, <3>3, <4>1
    <3>5. PopDim(s, 1) \in Seq(Nat) /\ Len(PopDim(s, 1)) = Len(s) - 1
      BY <3>4, PopIsShape
    <3>6. Index(Len(PopDim(s, 1)), 0) \in 1..Len(PopDim(s, 1))
      BY <1>1, <3>4, <3>5 DEF Index
    <3>7. PopDim(PopDim(s, 1), 0) \in Seq(Nat)
      BY <3>5, <3>6, PopIsShape
    <3> QED
      BY <2>0, <3>1, <3>2, <3>7 DEF PoppedTo
  <2>3. dims \in {<<0>>, <<-1>>, <<0, 1>>}
    BY <1>5 DEF ReduceDims
  <2>4. 0 \in Int /\ -1 \in Int
    OBVIOUS
  <2> QED
    BY <2>1, <2>2, <2>3, <2>4
<1> QED
  BY <1>2, <1>3, <1>4, <1>5

(* What is in the fields of tensor number t: storage that all its elements lie in, or none. *)
Stored(r, t) ==
  /\ r.op = "real" => Backed(r, t)
  /\ r.op # "real" => r.store.owner = 0 /\ r.offset = 0 /\ Len(r.strides) = Len(r.shape)
Sound(s) == Promises(s) /\ \A t \in 1..Len(s) : Stored(s[t], t)

LEMMA BackedWider ==
  ASSUME NEW r, NEW m \in Nat, NEW n \in Nat, m <= n, Backed(r, m) PROVE Backed(r, n)
  BY DEF Backed

\* A promise is about the promises to the tensors before.
SameTold(s, u, t) == \A a \in 1..(t - 1) : u[a].told = s[a].told

LEMMA PromisedSame ==
  ASSUME NEW s, NEW u, NEW r, NEW t, SameTold(s, u, t), Promised(s, r, t)
  PROVE  Promised(u, r, t)
<1>1. ASSUME NEW a \in 1..(t - 1), NEW b \in 1..(t - 1), PromisedOfTwo(s, r, t, a, b)
      PROVE  PromisedOfTwo(u, r, t, a, b)
  <2>1. u[a].told = s[a].told /\ u[b].told = s[b].told
    BY DEF SameTold
  <2> QED
    BY <1>1, <2>1 DEF PromisedOfTwo
<1>2. ASSUME NEW a \in 1..(t - 1), PromisedOfOne(s, r, t, a) PROVE PromisedOfOne(u, r, t, a)
  <2>1. u[a].told = s[a].told
    BY DEF SameTold
  <2> QED
    BY <1>2, <2>1 DEF PromisedOfOne
<1> QED
  BY <1>1, <1>2 DEF Promised

LEMMA Grown ==
  ASSUME NEW s, Sound(s), NEW r \in TensorRecords, Promised(s, r, Len(s) + 1),
         Stored(r, Len(s) + 1)
  PROVE  Sound(Append(s, r))
<1> DEFINE u == Append(s, r)
<1>1. s \in Seq(TensorRecords) /\ Len(s) \in Nat
  BY SeqIs DEF Sound, Promises
<1>2. u \in Seq(TensorRecords) /\ Len(u) = Len(s) + 1
  BY <1>1, AppendProperties
<1>3. u[Len(s) + 1] = r /\ \A i \in 1..Len(s) : u[i] = s[i]
  BY <1>1, AppendProperties
<1> HIDE DEF u
<1>4. ASSUME NEW t \in 1..Len(u) PROVE Promised(u, u[t], t) /\ Stored(u[t], t)
  <2>1. t \in 1..(Len(s) + 1) /\ t - 1 <= Len(s)
    BY <1>1, <1>2
  <2>2. SameTold(s, u, t)
    BY <1>1, <1>3, <2>1 DEF SameTold
  <2>3. Promised(s, u[t], t) /\ Stored(u[t], t)
    <3>1. CASE t \in 1..Len(s)
      BY <1>3, <3>1 DEF Sound, Promises
    <3>2. CASE t = Len(s) + 1
      BY <1>3, <3>2
    <3> QED
      BY <1>1, <2>1, <3>1, <3>2
  <2> QED
    BY <2>2, <2>3, PromisedSame
<1>5. Sound(u)
  BY <1>2, <1>4 DEF Sound, Promises
<1> QED
  BY <1>5 DEF u

\* Only lazy tensors are realized.
LEMMA NeededLazy ==
  ASSUME Promises(tensors), NEW t \in 1..Len(tensors), NEW i \in Needed(t)
  PROVE  i \in 1..Len(tensors) /\ tensors[i].op # "real"
<1> DEFINE f == CHOOSE f : Needs(f)
           n == Len(tensors)
           Lazy == {j \in 1..n : tensors[j].op # "real"}
           P == {k \in 0..n : \A j \in 1..k : f[j] \subseteq Lazy}
<1>1. Needs(f) /\ Needed(t) = f[t]
  BY NeedsExist, NeededUnfolds
<1> HIDE DEF f
<1>2. n \in Nat /\ DOMAIN tensors = 1..n
  BY SeqIs DEF Promises
<1>3. 0 \in P
  BY <1>2
<1>4. ASSUME NEW k \in 1..n, k - 1 \in P PROVE k \in P
  <2>1. \A a \in ToSet(tensors[k].args) : f[a] \subseteq Lazy
    BY <1>4, ArgsBefore
  <2>2. f[k] = NeedStep(f, k)
    BY <1>1, <1>2 DEF Needs
  <2>3. f[k] \subseteq Lazy
    BY <2>1, <2>2 DEF NeedStep
  <2>4. \A j \in 1..k : j \in 1..(k - 1) \/ j = k
    BY <1>2
  <2>5. k \in 0..n
    BY <1>2
  <2> QED
    BY <1>4, <2>3, <2>4, <2>5
<1> HIDE DEF P
<1>5. \A k \in 0..n : k \in P
  BY <1>2, <1>3, <1>4, NaturalInduction
<1>6. n \in P
  BY <1>2, <1>5
<1>7. f[t] \subseteq Lazy
  BY <1>6 DEF P
<1> QED
  BY <1>1, <1>7

\* A lazy tensor that is realized.
Made(r, i, shape) ==
  [r EXCEPT !.op = "real", !.args = <<>>, !.shape = shape, !.strides = Contiguous(shape),
            !.store = Storage(i, shape)]

LEMMA MadeIs ==
  ASSUME NEW r \in TensorRecords, NEW i \in Nat \ {0}, NEW shape \in Seq(Nat), r.offset = 0
  PROVE  Backed(Made(r, i, shape), i) /\ Made(r, i, shape).told = r.told
         /\ Made(r, i, shape).dtype = r.dtype /\ Made(r, i, shape).shape = shape
<1> DEFINE c == Contiguous(shape)  v == Made(r, i, shape)
<1>1. /\ c \in Seq(Nat) /\ Len(c) = Len(shape)
      /\ Size(shape) \in Nat /\ Reach(shape, c) = Size(shape) - 1
  BY ContiguousIs, SizeIsNat, ReachOfContiguous
<1>2. v = [r EXCEPT !.op = "real", !.args = <<>>, !.shape = shape, !.strides = c,
                    !.store = [owner |-> i, size |-> Size(shape)]]
  BY DEF Made, Storage
<1> HIDE DEF c, v
<1>3. v \in TensorRecords
  <2>1. [owner |-> i, size |-> Size(shape)] \in [owner : Nat, size : Nat]
    BY <1>1
  <2>2. "real" \in Operations /\ <<>> \in Seq(Nat)
    BY DEF Operations
  <2> DEFINE w == [owner |-> i, size |-> Size(shape)]
  <2> HIDE DEF w
  <2>3. v = [r EXCEPT !.op = "real", !.args = <<>>, !.shape = shape, !.strides = c, !.store = w]
    BY <1>2 DEF w
  <2>4. w \in [owner : Nat, size : Nat]
    BY <2>1 DEF w
  <2> QED
    BY <1>1, <2>2, <2>3, <2>4 DEF TensorRecords
<1>4. /\ v.op = "real" /\ v.args = <<>> /\ v.shape = shape /\ v.strides = c /\ v.offset = 0
      /\ v.store.owner = i /\ v.store.size = Size(shape) /\ v.told = r.told /\ v.dtype = r.dtype
  BY <1>2 DEF TensorRecords
<1>5. InBounds(v)
  BY <1>1, <1>4 DEF InBounds
<1>6. Backed(v, i)
  BY <1>1, <1>3, <1>4, <1>5 DEF Backed
<1> QED
  BY <1>4, <1>6 DEF v

LEMMA RealizedSound ==
  ASSUME Sound(tensors), NEW t \in 1..Len(tensors)
  PROVE  /\ Sound(Realized(t)) /\ Len(Realized(t)) = Len(tensors)
         /\ Backed(Realized(t)[t], t)
<1> DEFINE u == Realized(t)  n == Len(tensors)
<1>1. Promises(tensors) /\ tensors \in Seq(TensorRecords) /\ n \in Nat /\ DOMAIN tensors = 1..n
  BY SeqIs DEF Sound, Promises
<1>2. u = [i \in 1..n |-> IF i \in Needed(t) THEN Made(tensors[i], i, ShapeOf[i]) ELSE tensors[i]]
  BY <1>1 DEF Realized, Made
<1>3. \A i \in 1..n : u[i] = IF i \in Needed(t) THEN Made(tensors[i], i, ShapeOf[i]) ELSE tensors[i]
  BY <1>2
<1>4. ASSUME NEW i \in 1..n
      PROVE  /\ u[i] \in TensorRecords /\ u[i].told = tensors[i].told
             /\ Promised(tensors, u[i], i) /\ Stored(u[i], i)
  <2>1. /\ tensors[i] \in TensorRecords /\ Promised(tensors, tensors[i], i)
        /\ Stored(tensors[i], i)
    BY <1>1 DEF Sound, Promises
  <2>2. CASE i \notin Needed(t)
    BY <1>3, <2>1, <2>2
  <2>3. CASE i \in Needed(t)
    <3>1. tensors[i].op # "real"
      BY <1>1, <2>3, NeededLazy
    <3>2. tensors[i].offset = 0
      BY <2>1, <3>1 DEF Stored
    <3>3. ShapeOf[i] = tensors[i].told.shape /\ ShapeOf[i] \in Seq(Nat)
      BY <1>1, <2>1, ShapesAre, RecordIs
    <3> DEFINE v == Made(tensors[i], i, ShapeOf[i])
    <3>4. /\ Backed(v, i) /\ v.told = tensors[i].told /\ v.dtype = tensors[i].dtype
          /\ v.shape = ShapeOf[i]
      <4>1. i \in Nat \ {0}
        OBVIOUS
      <4> QED
        BY <2>1, <3>2, <3>3, <4>1, MadeIs
    <3>5. u[i] = v
      BY <1>3, <2>3
    <3> HIDE DEF v, u
    <3>6. v \in TensorRecords /\ v.op = "real" /\ v.args = <<>>
      BY <3>4 DEF Backed
    <3>7. Promised(tensors, v, i)
      <4>1. SameType(v.dtype, v.told.dtype)
        BY <2>1, <3>4 DEF Promised
      <4>2. v.told.shape = v.shape
        BY <3>3, <3>4
      <4> QED
        BY <3>6, <4>1, <4>2 DEF Promised, OfOne, OfTwo
    <3> QED
      BY <3>4, <3>5, <3>6, <3>7 DEF Stored
  <2> QED
    BY <2>2, <2>3
<1>5. u \in Seq(TensorRecords) /\ Len(u) = n
  <2>1. u = [i \in 1..n |-> u[i]]
    BY <1>2
  <2> HIDE DEF u
  <2>2. u \in [1..n -> TensorRecords]
    BY <1>4, <2>1
  <2> QED
    BY <1>1, <2>2
<1> HIDE DEF u
<1>6. ASSUME NEW i \in 1..n PROVE Promised(u, u[i], i)
  <2>1. SameTold(tensors, u, i)
    BY <1>1, <1>4 DEF SameTold
  <2> QED
    BY <1>4, <2>1, PromisedSame
<1>7. Sound(u)
  BY <1>4, <1>5, <1>6 DEF Sound, Promises
<1>8. Backed(u[t], t)
  <2>1. CASE t \in Needed(t)
    <3>1. u[t].op = "real"
      <4>1. u[t] = Made(tensors[t], t, ShapeOf[t])
        BY <1>3, <2>1
      <4>2. tensors[t] \in TensorRecords
        BY <1>1
      <4> QED
        BY <4>1, <4>2 DEF Made, TensorRecords
    <3> QED
      BY <1>4, <3>1 DEF Stored
  <2>2. CASE t \notin Needed(t)
    <3>1. u[t] = tensors[t] /\ tensors[t].op = "real"
      BY <1>1, <1>3, <2>2, LazyNeeded
    <3> QED
      BY <1>4, <3>1 DEF Stored
  <2> QED
    BY <2>1, <2>2
<1> QED
  BY <1>5, <1>7, <1>8 DEF u

(* Every tensor keeps what it promises, and lies in its storage. *)
TensorInvariant == Sound(tensors)

LEMMA SoundMeans == ASSUME TensorInvariant PROVE TensorTypeOK /\ PromiseKept /\ ViewsInBounds
<1>1. Promises(tensors) /\ DOMAIN tensors = 1..Len(tensors)
  BY SeqIs DEF TensorInvariant, Sound, Promises
<1>2. ASSUME NEW t \in 1..Len(tensors)
      PROVE  LET r == tensors[t] IN
             /\ r \in TensorRecords /\ Stored(r, t) /\ r.offset \in Nat
             /\ ToSet(r.args) \subseteq 1..(t - 1)
  <2>1. tensors[t] \in TensorRecords /\ Stored(tensors[t], t)
    BY <1>1 DEF TensorInvariant, Sound, Promises
  <2>2. tensors[t].offset \in Nat
    BY <2>1, RecordIs
  <2>3. ToSet(tensors[t].args) \subseteq 1..(t - 1)
    BY <1>1, ArgsBefore
  <2> QED
    BY <2>1, <2>2, <2>3
<1>3. TensorTypeOK
  <2>1. ASSUME NEW t \in 1..Len(tensors)
        PROVE  LET r == tensors[t] IN
               /\ r.store.owner \in 0..t /\ ((r.op = "real") <=> (r.store.owner # 0))
               /\ Len(r.shape) = Len(r.strides)
    BY <1>2 DEF Stored, Backed
  <2> QED
    BY <1>1, <1>2, <2>1 DEF TensorTypeOK
<1>4. ViewsInBounds
  <2>1. ASSUME NEW t \in 1..Len(tensors), tensors[t].op = "real", Size(tensors[t].shape) > 0
        PROVE  LET r == tensors[t] IN
               r.offset >= 0 /\ r.offset + Reach(r.shape, r.strides) < r.store.size
    <3> DEFINE r == tensors[t]
    <3>1. r.offset \in Nat /\ InBounds(r)
      BY <1>2, <2>1 DEF Stored, Backed
    <3>2. r.offset >= 0
      BY <3>1
    <3>3. r.offset + Reach(r.shape, r.strides) < r.store.size
      BY <2>1, <3>1 DEF InBounds
    <3> QED
      BY <3>2, <3>3
  <2> QED
    BY <1>1, <2>1 DEF ViewsInBounds
<1> QED
  BY <1>1, <1>3, <1>4, PromisesKept

LEMMA TensorsStart == ASSUME TensorInit PROVE TensorInvariant
<1>1. tensors = <<>> /\ tensors \in Seq(TensorRecords) /\ Len(tensors) = 0
  BY DEF TensorInit
<1> QED
  BY <1>1 DEF TensorInvariant, Sound, Promises
-----------------------------------------------------------------------------
\* A tensor with storage is added, to those that u are.
LEMMA RealAdded ==
  ASSUME NEW u, Sound(u), NEW r, NEW n, n = Len(u) + 1, Backed(r, n), r.told.shape = r.shape,
         SameType(r.dtype, r.told.dtype)
  PROVE  Sound(Append(u, r))
<1>1. r \in TensorRecords /\ r.op = "real" /\ r.args = <<>>
  BY DEF Backed
<1>2. Promised(u, r, Len(u) + 1)
  BY <1>1 DEF Promised, OfOne, OfTwo
<1>3. Stored(r, Len(u) + 1)
  BY <1>1 DEF Stored
<1> QED
  BY <1>1, <1>2, <1>3, Grown

LEMMA NextIs ==
  ASSUME TensorInvariant
  PROVE  Next1 = Len(tensors) + 1 /\ Next1 \in Nat \ {0} /\ DOMAIN tensors = 1..Len(tensors)
  BY SeqIs DEF TensorInvariant, Sound, Promises, Next1

\* The shape and the type that a tensor has, of the ones that there are.
LEMMA TensorHas ==
  ASSUME TensorInvariant, NEW t \in 1..Len(tensors)
  PROVE  /\ ShapeOf[t] = tensors[t].told.shape /\ ShapeOf[t] \in Seq(Nat)
         /\ DTypeOf[t] \in DTypes /\ SameType(DTypeOf[t], tensors[t].told.dtype)
         /\ tensors[t] \in TensorRecords
  BY ShapesAre, TypesAre, SeqIs, RecordIs DEF TensorInvariant, Sound, Promises, DTypeRight

LEMMA CreateKeeps ==
  ASSUME TensorInvariant, NEW shape \in NewShapes, NEW dtype \in NewDTypes, Create(shape, dtype)
  PROVE  TensorInvariant'
<1>1. shape \in Seq(Nat) /\ dtype \in DTypes
  BY TensorAssumption DEF DTypes
<1>2. tensors' = Append(tensors, Empty(Next1, shape, dtype))
  BY DEF Create
<1> DEFINE e == Empty(Next1, shape, dtype)
<1>3. Backed(e, Next1) /\ e.told.shape = e.shape /\ e.told.dtype = e.dtype
  <2>1. Next1 \in Nat /\ Next1 # 0
    BY NextIs
  <2>2. e.shape = shape
    BY DEF Empty
  <2> HIDE DEF e
  <2>3. e.told.shape = shape /\ e.told.dtype = dtype /\ e.dtype = dtype
    BY <1>1, <2>1, EmptyIs DEF e
  <2>4. Backed(e, Next1)
    BY <1>1, <2>1, EmptyIs DEF e
  <2> QED
    BY <2>2, <2>3, <2>4
<1> HIDE DEF e
<1>4. Sound(Append(tensors, e))
  BY <1>3, NextIs, AlikeIs, RealAdded DEF TensorInvariant
<1> QED
  BY <1>2, <1>4 DEF TensorInvariant, e

LEMMA CopyKeeps ==
  ASSUME TensorInvariant, NEW t \in DOMAIN tensors, NEW dtype \in NewDTypes, Copy(t, dtype)
  PROVE  TensorInvariant'
<1>0. t \in 1..Len(tensors) /\ Next1 = Len(tensors) + 1 /\ Next1 \in Nat \ {0}
  BY NextIs
<1>1. /\ Sound(Realized(t)) /\ Len(Realized(t)) = Len(tensors)
      /\ Backed(Realized(t)[t], t)
  BY <1>0, RealizedSound DEF TensorInvariant
<1> DEFINE shape == Realized(t)[t].shape  e == Empty(Next1, shape, dtype)
<1>2. shape \in Seq(Nat) /\ dtype \in DTypes
  BY <1>1, BackedIs DEF DTypes
<1>3. tensors' = Append(Realized(t), e)
  BY DEF Copy
<1> HIDE DEF shape
<1>4. Backed(e, Next1) /\ e.told.shape = e.shape /\ e.told.dtype = e.dtype
  <2>1. e.shape = shape
    BY DEF Empty
  <2> HIDE DEF e
  <2> QED
    BY <1>0, <1>2, <2>1, EmptyIs DEF e
<1> HIDE DEF e
<1>5. Sound(Append(Realized(t), e))
  BY <1>0, <1>1, <1>4, AlikeIs, RealAdded
<1> QED
  BY <1>3, <1>5 DEF TensorInvariant

LEMMA RealizeKeeps ==
  ASSUME TensorInvariant, NEW t \in DOMAIN tensors, Realize(t) PROVE TensorInvariant'
<1>1. Sound(Realized(t))
  BY NextIs, RealizedSound DEF TensorInvariant
<1> QED
  BY <1>1 DEF Realize, TensorInvariant

LEMMA MakeViewKeeps ==
  ASSUME TensorInvariant, NEW t \in DOMAIN tensors, NEW v, Backed(v, Next1), MakeView(t, v)
  PROVE  TensorInvariant'
<1>0. t \in 1..Len(tensors) /\ Next1 = Len(tensors) + 1 /\ Next1 \in Nat \ {0}
  BY NextIs
<1>1. Sound(Realized(t)) /\ Len(Realized(t)) = Len(tensors)
  BY <1>0, RealizedSound DEF TensorInvariant
<1> DEFINE w == Told(v.shape, v.dtype)  r == [v EXCEPT !.told = w]
<1>2. tensors' = Append(Realized(t), r)
  BY DEF MakeView
<1>3. v \in TensorRecords /\ v.shape \in Seq(Nat) /\ v.dtype \in DTypes
  BY BackedIs DEF Backed
<1>4. w \in [shape : Seq(Nat), dtype : DTypes] /\ w.shape = v.shape /\ w.dtype = v.dtype
  BY <1>3 DEF Told
<1> HIDE DEF w
<1>5. /\ r \in TensorRecords /\ r.op = v.op /\ r.args = v.args /\ r.shape = v.shape
      /\ r.strides = v.strides /\ r.offset = v.offset /\ r.store = v.store
      /\ r.dtype = v.dtype /\ r.told = w
  BY <1>3, <1>4 DEF TensorRecords
<1> HIDE DEF r
<1>6. Backed(r, Next1)
  BY <1>5 DEF Backed, InBounds
<1>7. Sound(Append(Realized(t), r))
  BY <1>0, <1>1, <1>4, <1>5, <1>6, AlikeIs, RealAdded
<1> QED
  BY <1>2, <1>7 DEF TensorInvariant

LEMMA ViewKeeps ==
  ASSUME TensorInvariant, NEW t \in DOMAIN tensors, View(t) PROVE TensorInvariant'
<1> DEFINE r == Realized(t)[t]  n == Len(r.shape)
<1>0. t \in 1..Len(tensors) /\ Next1 = Len(tensors) + 1 /\ Next1 \in Nat \ {0}
  BY NextIs
<1>1. Backed(r, Next1)
  <2>1. Backed(r, t)
    BY <1>0, RealizedSound DEF TensorInvariant
  <2>2. t \in Nat /\ Next1 \in Nat /\ t <= Next1
    BY <1>0
  <2> HIDE DEF r
  <2> QED
    BY <2>1, <2>2, BackedWider
<1>2. n \in Nat
  BY <1>1, BackedIs, ShapeIs
<1>3. \/ MakeView(t, Flattened(r)) \/ MakeView(t, Squeezed(r))
      \/ \E d \in 0..n : MakeView(t, Unsqueezed(r, d))
      \/ \E i, j \in 1..n : i < j /\ MakeView(t, Transposed(r, i, j))
      \/ \E p \in Bijection(1..n, 1..n) : MakeView(t, Permuted(r, p))
      \/ /\ n > 0 /\ \E k \in -r.shape[1]..(r.shape[1] - 1) : MakeView(t, IndexInt(r, k))
      \/ /\ n > 0
         /\ \E start, stop \in 0..r.shape[1], step \in {1, 2} :
              MakeView(t, IndexSlice(r, start, stop, step))
      \/ MakeView(t, IndexNone(r, 0))
  BY DEF View
<1> HIDE DEF r
<1>4. CASE MakeView(t, Flattened(r)) \/ MakeView(t, Squeezed(r)) \/ MakeView(t, IndexNone(r, 0))
  BY <1>0, <1>1, <1>4, FlattenedBacked, SqueezedBacked, IndexNoneBacked, MakeViewKeeps
<1>5. CASE \E d \in 0..n : MakeView(t, Unsqueezed(r, d))
  BY <1>0, <1>1, <1>5, UnsqueezedBacked, MakeViewKeeps
<1>6. CASE \E i, j \in 1..n : i < j /\ MakeView(t, Transposed(r, i, j))
  <2>1. PICK i, j \in 1..n : i < j /\ MakeView(t, Transposed(r, i, j))
    BY <1>6
  <2>2. i # j
    BY <1>2, <2>1
  <2> QED
    BY <1>1, <2>1, <2>2, TransposedBacked, MakeViewKeeps
<1>7. CASE \E p \in Bijection(1..n, 1..n) : MakeView(t, Permuted(r, p))
  BY <1>1, <1>7, PermutesBacked, MakeViewKeeps
<1>8. CASE n > 0 /\ \E k \in -r.shape[1]..(r.shape[1] - 1) : MakeView(t, IndexInt(r, k))
  <2>1. r.shape # <<>>
    BY <1>8
  <2> QED
    BY <1>1, <1>8, <2>1, IndexIntBacked, MakeViewKeeps
<1>9. CASE /\ n > 0
           /\ \E start, stop \in 0..r.shape[1], step \in {1, 2} :
                MakeView(t, IndexSlice(r, start, stop, step))
  <2>1. r.shape # <<>>
    BY <1>9
  <2> QED
    BY <1>1, <1>9, <2>1, IndexSliceBacked, MakeViewKeeps
<1> QED
  BY <1>3, <1>4, <1>5, <1>6, <1>7, <1>8, <1>9
-----------------------------------------------------------------------------
(* Lazy tensors. *)

\* A tensor without storage is added.
LEMMA LazyAdded ==
  ASSUME TensorInvariant, NEW r \in TensorRecords, Promised(tensors, r, Next1),
         r.op # "real", r.store.owner = 0, r.offset = 0, Len(r.strides) = Len(r.shape),
         tensors' = Append(tensors, r)
  PROVE  TensorInvariant'
<1>1. Stored(r, Len(tensors) + 1)
  BY DEF Stored
<1>2. Sound(Append(tensors, r))
  BY <1>1, NextIs, Grown DEF TensorInvariant
<1> QED
  BY <1>2 DEF TensorInvariant

LazyMade(u, r, op, args, dims, keep, s, a, shape, dtype) ==
  /\ u = Append(tensors, r)
  /\ r.op = op /\ r.args = args /\ r.dims = dims /\ r.keep = keep /\ r.shape = s
  /\ r.offset = 0 /\ r.dtype = a /\ r.store.owner = 0 /\ Len(r.strides) = Len(r.shape)
  /\ r.told.shape = shape /\ r.told.dtype = dtype
SomeLazy(u, op, args, dims, keep, s, a, shape, dtype) ==
  \E r \in TensorRecords : LazyMade(u, r, op, args, dims, keep, s, a, shape, dtype)

LEMMA MakeLazyIs ==
  ASSUME NEW op \in Operations, op # "real", NEW args \in Seq(Nat),
         NEW dims \in Seq(Int) \cup {Whole}, NEW keep \in BOOLEAN,
         NEW s \in Seq(Nat), NEW a \in DTypes, NEW shape \in Seq(Nat), NEW dtype \in DTypes,
         MakeLazy(op, args, dims, keep, Told(s, a), shape, dtype)
  PROVE  SomeLazy(tensors', op, args, dims, keep, s, a, shape, dtype)
<1> DEFINE c == Contiguous(s)
           r == [op |-> op, args |-> args, dims |-> dims, keep |-> keep, shape |-> s,
                 strides |-> c, offset |-> 0, dtype |-> a,
                 store |-> NoStorage, told |-> [shape |-> shape, dtype |-> dtype]]
<1>1. c \in Seq(Nat) /\ Len(c) = Len(s)
  BY ContiguousIs
<1>2. tensors' = Append(tensors, r)
  BY DEF MakeLazy, Told
<1> HIDE DEF c
<1>3. r \in TensorRecords
  BY <1>1 DEF TensorRecords, NoStorage
<1>4. /\ r.op = op /\ r.args = args /\ r.dims = dims /\ r.keep = keep /\ r.shape = s
      /\ r.offset = 0 /\ r.dtype = a /\ r.store.owner = 0 /\ Len(r.strides) = Len(r.shape)
      /\ r.told.shape = shape /\ r.told.dtype = dtype
  BY <1>1 DEF NoStorage
<1> HIDE DEF r
<1> QED
  BY <1>2, <1>3, <1>4 DEF LazyMade, SomeLazy

LEMMA OfTwoKeeps ==
  ASSUME TensorInvariant, NEW a \in DOMAIN tensors, NEW b \in DOMAIN tensors,
         Binary(a, b) \/ Matmul(a, b)
  PROVE  TensorInvariant'
<1>0. /\ a \in 1..Len(tensors) /\ b \in 1..Len(tensors) /\ a \in 1..(Next1 - 1)
      /\ b \in 1..(Next1 - 1) /\ <<a, b>> \in Seq(Nat)
  BY NextIs
<1>1. /\ ShapeOf[a] = tensors[a].told.shape /\ ShapeOf[a] \in Seq(Nat)
      /\ DTypeOf[a] \in DTypes /\ SameType(DTypeOf[a], tensors[a].told.dtype)
      /\ ShapeOf[b] = tensors[b].told.shape /\ ShapeOf[b] \in Seq(Nat)
      /\ DTypeOf[b] \in DTypes /\ SameType(DTypeOf[b], tensors[b].told.dtype)
  BY <1>0, TensorHas
<1> DEFINE op == IF Binary(a, b) THEN "binary" ELSE "matmul"
           shape == IF Binary(a, b) THEN BroadcastShapes(ShapeOf[a], ShapeOf[b])
                    ELSE MatmulShape(ShapeOf[a], ShapeOf[b])
           dtype == PromoteDTypes(DTypeOf[a], DTypeOf[b])
<1>2. dtype \in DTypes
  BY <1>1, DTypesAre
<1>3. shape \in Seq(Nat) /\ MakeLazy(op, <<a, b>>, Whole, FALSE, Told(shape, dtype), shape, dtype)
  <2>1. CASE Binary(a, b)
    <3>1. shape = BroadcastShapes(ShapeOf[a], ShapeOf[b]) /\ op = "binary"
      BY <2>1
    <3>2. MakeLazy("binary", <<a, b>>, Whole, FALSE,
            Told(BroadcastShapes(ShapeOf[a], ShapeOf[b]), dtype),
            BroadcastShapes(ShapeOf[a], ShapeOf[b]), dtype)
      BY <2>1 DEF Binary
    <3> HIDE DEF shape, op, dtype
    <3> QED
      BY <1>1, <3>1, <3>2, BroadcastIsShape
  <2>2. CASE ~Binary(a, b)
    <3>1. shape = MatmulShape(ShapeOf[a], ShapeOf[b]) /\ op = "matmul" /\ Matmul(a, b)
      BY <2>2
    <3>2. /\ ShapeOf[a] # <<>> /\ ShapeOf[b] # <<>>
          /\ MakeLazy("matmul", <<a, b>>, Whole, FALSE,
               Told(MatmulShape(ShapeOf[a], ShapeOf[b]), dtype),
               MatmulShape(ShapeOf[a], ShapeOf[b]), dtype)
      BY <3>1 DEF Matmul
    <3> HIDE DEF shape, op, dtype
    <3> QED
      BY <1>1, <3>1, <3>2, MatmulIsShape
  <2> QED
    BY <2>1, <2>2
<1>4. op \in Operations /\ op # "real" /\ op \in OfTwo
  BY DEF Operations, OfTwo
<1>5. /\ op = "binary" => shape = BroadcastShapes(tensors[a].told.shape, tensors[b].told.shape)
      /\ op # "binary" => shape = MatmulShape(tensors[a].told.shape, tensors[b].told.shape)
  BY <1>1
<1>6. SameType(dtype, PromoteDTypes(tensors[a].told.dtype, tensors[b].told.dtype))
  BY <1>1, PromiseAlike
<1> HIDE DEF op, shape, dtype
<1>7. Whole \in Seq(Int) \cup {Whole} /\ FALSE \in BOOLEAN
  OBVIOUS
<1>8. PICK r \in TensorRecords : LazyMade(tensors', r, op, <<a, b>>, Whole, FALSE, shape, dtype, shape, dtype)
  <2>1. SomeLazy(tensors', op, <<a, b>>, Whole, FALSE, shape, dtype, shape, dtype)
    BY <1>0, <1>2, <1>3, <1>4, <1>7, MakeLazyIs
  <2> QED
    BY <2>1 DEF SomeLazy
<1>9. PromisedOfTwo(tensors, r, Next1, a, b)
  BY <1>0, <1>5, <1>6, <1>8 DEF PromisedOfTwo, LazyMade
<1>10. Promised(tensors, r, Next1)
  BY <1>0, <1>4, <1>8, <1>9, AlikeIs DEF Promised, OfTwo, OfOne, LazyMade
<1> QED
  BY <1>4, <1>8, <1>10, LazyAdded DEF LazyMade

LEMMA UnaryKeeps ==
  ASSUME TensorInvariant, NEW a \in DOMAIN tensors, Unary(a) PROVE TensorInvariant'
<1>0. a \in 1..Len(tensors) /\ a \in 1..(Next1 - 1) /\ <<a>> \in Seq(Nat)
  BY NextIs
<1> DEFINE shape == ShapeOf[a]  dtype == DTypeOf[a]
<1>1. /\ shape = tensors[a].told.shape /\ shape \in Seq(Nat)
      /\ dtype \in DTypes /\ SameType(dtype, tensors[a].told.dtype)
  BY <1>0, TensorHas
<1>2. MakeLazy("unary", <<a>>, Whole, FALSE, Told(shape, dtype), shape, dtype)
  BY DEF Unary
<1> HIDE DEF shape, dtype
<1>3. Whole \in Seq(Int) \cup {Whole} /\ FALSE \in BOOLEAN /\ "unary" \in Operations
  BY DEF Operations
<1>4. PICK r \in TensorRecords : LazyMade(tensors', r, "unary", <<a>>, Whole, FALSE, shape, dtype, shape, dtype)
  <2>1. SomeLazy(tensors', "unary", <<a>>, Whole, FALSE, shape, dtype, shape, dtype)
    BY <1>0, <1>1, <1>2, <1>3, MakeLazyIs
  <2> QED
    BY <2>1 DEF SomeLazy
<1>5. PromisedOfOne(tensors, r, Next1, a)
  BY <1>0, <1>1, <1>4 DEF PromisedOfOne, LazyMade
<1>6. Promised(tensors, r, Next1)
  BY <1>0, <1>4, <1>5, AlikeIs DEF Promised, OfTwo, OfOne, LazyMade
<1> QED
  BY <1>4, <1>6, LazyAdded DEF LazyMade

LEMMA ReduceDims1 == ReduceDims \subseteq Seq(Int) \cup {Whole}
  BY DEF ReduceDims

LEMMA ReduceKeeps ==
  ASSUME TensorInvariant, NEW form \in {"sum", "max"}, NEW a \in DOMAIN tensors,
         NEW dims \in ReduceDims, NEW keep \in BOOLEAN, Reduce(form, a, dims, keep)
  PROVE  TensorInvariant'
<1>0. a \in 1..Len(tensors) /\ a \in 1..(Next1 - 1) /\ <<a>> \in Seq(Nat)
  BY NextIs
<1> DEFINE s == ShapeOf[a]  d == DTypeOf[a]
           shape == ReduceShape(s, dims, keep)  dtype == ReduceDType(form, d)
<1>1. /\ s = tensors[a].told.shape /\ s \in Seq(Nat)
      /\ d \in DTypes /\ SameType(d, tensors[a].told.dtype)
  BY <1>0, TensorHas
<1>2. Reducible(s, dims) /\ MakeLazy(form, <<a>>, dims, keep, Told(<<>>, d), shape, dtype)
  BY DEF Reduce, Reducible
<1>3. dtype \in DTypes
  BY <1>1, DTypesAre
<1>4. shape \in Seq(Nat)
  <2> HIDE DEF s
  <2> QED
    BY <1>1, <1>2, ReduceIsShape
<1>5. SameType(d, dtype)
  BY DEF ReduceDType, SameType, Floats
<1>6. SameType(dtype, ReduceDType(form, tensors[a].told.dtype))
  BY <1>1, ReduceAlike
<1>7. shape = ReduceShape(tensors[a].told.shape, dims, keep)
  BY <1>1
<1> HIDE DEF s, d, shape, dtype
<1>8. /\ dims \in Seq(Int) \cup {Whole} /\ form \in Operations /\ form # "real"
      /\ form # "unary" /\ form \in OfOne /\ form \notin OfTwo /\ <<>> \in Seq(Nat)
  BY ReduceDims1 DEF Operations, OfOne, OfTwo
<1>9. PICK r \in TensorRecords : LazyMade(tensors', r, form, <<a>>, dims, keep, <<>>, d, shape, dtype)
  <2>1. SomeLazy(tensors', form, <<a>>, dims, keep, <<>>, d, shape, dtype)
    BY <1>0, <1>1, <1>2, <1>3, <1>4, <1>8, MakeLazyIs
  <2> QED
    BY <2>1 DEF SomeLazy
<1>10. PromisedOfOne(tensors, r, Next1, a)
  BY <1>0, <1>6, <1>7, <1>8, <1>9 DEF PromisedOfOne, LazyMade
<1>11. Promised(tensors, r, Next1)
  BY <1>0, <1>5, <1>8, <1>9, <1>10 DEF Promised, LazyMade
<1> QED
  BY <1>8, <1>9, <1>11, LazyAdded DEF LazyMade

LEMMA DetachKeeps ==
  ASSUME TensorInvariant, NEW t \in DOMAIN tensors, Detach(t) PROVE TensorInvariant'
<1>0. t \in 1..Len(tensors) /\ Next1 = Len(tensors) + 1 /\ Next1 \in Nat \ {0}
  BY NextIs
<1> DEFINE o == tensors[t]  w == Told(ShapeOf[t], DTypeOf[t])  r == [o EXCEPT !.told = w]
<1>1. /\ w.shape = o.told.shape /\ w \in [shape : Seq(Nat), dtype : DTypes]
      /\ SameType(w.dtype, o.told.dtype) /\ o \in TensorRecords
  BY <1>0, TensorHas DEF Told
<1>2. Promised(tensors, o, t) /\ Stored(o, t)
  BY <1>0 DEF TensorInvariant, Sound, Promises
<1>3. tensors' = Append(tensors, r)
  BY DEF Detach
<1> HIDE DEF o, w
<1>4. /\ r \in TensorRecords /\ r.op = o.op /\ r.args = o.args /\ r.dims = o.dims
      /\ r.keep = o.keep /\ r.shape = o.shape
      /\ r.strides = o.strides /\ r.offset = o.offset /\ r.store = o.store
      /\ r.dtype = o.dtype /\ r.told = w
  BY <1>1 DEF TensorRecords
<1> HIDE DEF r
<1>5. \A a \in 1..(t - 1) : a \in 1..(Next1 - 1)
  BY <1>0
<1>6. ASSUME NEW a \in 1..(t - 1), NEW b \in 1..(t - 1), PromisedOfTwo(tensors, o, t, a, b)
      PROVE  PromisedOfTwo(tensors, r, Next1, a, b)
  BY <1>1, <1>4, <1>5, <1>6, AlikeIs DEF PromisedOfTwo
<1>7. ASSUME NEW a \in 1..(t - 1), PromisedOfOne(tensors, o, t, a)
      PROVE  PromisedOfOne(tensors, r, Next1, a)
  BY <1>1, <1>4, <1>5, <1>7, AlikeIs DEF PromisedOfOne
<1>8. SameType(r.dtype, r.told.dtype)
  BY <1>1, <1>2, <1>4, AlikeIs DEF Promised
<1>9. r.op = "real" => r.told.shape = r.shape /\ r.args = <<>>
  BY <1>1, <1>2, <1>4 DEF Promised
<1>10. r.op \in OfTwo => \E a, b \in 1..(Next1 - 1) : PromisedOfTwo(tensors, r, Next1, a, b)
  BY <1>2, <1>4, <1>5, <1>6 DEF Promised
<1>11. r.op \in OfOne => \E a \in 1..(Next1 - 1) : PromisedOfOne(tensors, r, Next1, a)
  BY <1>2, <1>4, <1>5, <1>7 DEF Promised
<1>12. Promised(tensors, r, Next1)
  BY <1>8, <1>9, <1>10, <1>11 DEF Promised
<1>13. CASE r.op # "real"
  <2>1. r.store.owner = 0 /\ r.offset = 0 /\ Len(r.strides) = Len(r.shape)
    BY <1>2, <1>4, <1>13 DEF Stored
  <2> QED
    BY <1>3, <1>4, <1>12, <1>13, <2>1, LazyAdded
<1>14. CASE r.op = "real"
  <2>1. Backed(o, t)
    BY <1>2, <1>4, <1>14 DEF Stored
  <2>2. Backed(o, Next1)
    <3>1. t \in Nat /\ Next1 \in Nat /\ t <= Next1
      BY <1>0
    <3> QED
      BY <2>1, <3>1, BackedWider
  <2>3. Backed(r, Next1)
    BY <1>4, <2>2 DEF Backed, InBounds
  <2>4. Sound(tensors)
    BY DEF TensorInvariant
  <2>5. Sound(Append(tensors, r))
    BY <1>0, <1>8, <1>9, <1>14, <2>3, <2>4, RealAdded
  <2> QED
    BY <1>3, <2>5 DEF TensorInvariant
<1> QED
  BY <1>13, <1>14

LEMMA TensorStep == ASSUME TensorInvariant, [TensorNext]_tensors PROVE TensorInvariant'
<1>1. ASSUME NEW shape \in NewShapes, NEW dtype \in NewDTypes, Create(shape, dtype)
      PROVE  TensorInvariant'
  BY <1>1, CreateKeeps
<1>2. ASSUME NEW a \in DOMAIN tensors, NEW b \in DOMAIN tensors, Binary(a, b) \/ Matmul(a, b)
      PROVE  TensorInvariant'
  BY <1>2, OfTwoKeeps
<1>3. ASSUME NEW t \in DOMAIN tensors, Unary(t) \/ Realize(t) \/ View(t) \/ Detach(t)
      PROVE  TensorInvariant'
  BY <1>3, UnaryKeeps, RealizeKeeps, ViewKeeps, DetachKeeps
<1>4. ASSUME NEW t \in DOMAIN tensors, NEW form \in {"sum", "max"}, NEW dims \in ReduceDims,
             NEW keep \in BOOLEAN, Reduce(form, t, dims, keep)
      PROVE  TensorInvariant'
  BY <1>4, ReduceKeeps
<1>5. ASSUME NEW t \in DOMAIN tensors, NEW dtype \in NewDTypes, Copy(t, dtype)
      PROVE  TensorInvariant'
  BY <1>5, CopyKeeps
<1>6. ASSUME UNCHANGED tensors PROVE TensorInvariant'
  BY <1>6 DEF TensorInvariant, Sound, Promises
<1> QED
  BY <1>1, <1>2, <1>3, <1>4, <1>5, <1>6 DEF TensorNext

(* The three properties of Tensors: its types, what a lazy tensor promises, and views. *)
TensorsHold == TensorTypeOK /\ PromiseKept /\ ViewsInBounds

(* For any shapes, types and operations: a realized tensor has the shape that it had when
   it was lazy, and the type if either is a floating-point type (core/tensor.py, shape,
   dtype and realize), and a view addresses elements of its storage only, however it was
   indexed, permuted and viewed again. *)
THEOREM TensorsKeepPromises == TensorSpec => []TensorsHold
<1>1. TensorInit => TensorInvariant
  BY TensorsStart
<1>2. TensorInvariant /\ [TensorNext]_tensors => TensorInvariant'
  BY TensorStep
<1>3. TensorInvariant => TensorsHold
  BY SoundMeans DEF TensorsHold
<1> QED
  BY <1>1, <1>2, <1>3, PTL DEF TensorSpec
-----------------------------------------------------------------------------
(* No layer makes more dimensions than it is given, or three. *)
Upto(n) == {y \in Activations : y # Raises => Len(y) <= n}

LEMMA UptoIs ==
  ASSUME NEW n \in Nat
  PROVE  /\ Raises \in Upto(n)
         /\ \A y \in Seq(Nat) : y \in Upto(n) <=> Len(y) <= n
         /\ \A y \in Upto(n) : y = Raises \/ (y \in Seq(Nat) /\ Len(y) <= n)
  BY RaisesIsNone DEF Upto, Activations

LEMMA WidthsUpto ==
  ASSUME NEW n \in Nat, n >= 3, NEW e \in Nat
  PROVE  <<e>> \in Upto(n) /\ <<>> \in Upto(n)
<1> DEFINE w == <<e>>  none == <<>>
<1>1. w \in Seq(Nat) /\ Len(w) = 1 /\ none \in Seq(Nat) /\ Len(none) = 0
  OBVIOUS
<1>2. 1 <= n /\ 0 <= n
  OBVIOUS
<1> HIDE DEF w, none
<1>3. w \in Upto(n) /\ none \in Upto(n)
  BY <1>1, <1>2, UptoIs
<1> QED
  BY <1>3 DEF w, none

LEMMA PlusUpto ==
  ASSUME NEW n \in Nat, NEW a \in Upto(n), NEW b \in Upto(n)
  PROVE  Plus(a, b) \in Upto(n)
<1>1. CASE Plus(a, b) = Raises
  BY <1>1, UptoIs
<1>2. CASE Plus(a, b) # Raises
  <2>1. /\ a \in Seq(Nat) /\ Len(a) <= n /\ b \in Seq(Nat) /\ Len(b) <= n
        /\ Plus(a, b) = BroadcastShapes(a, b)
    BY <1>2, UptoIs DEF Plus
  <2> DEFINE c == BroadcastShapes(a, b)
  <2>2. /\ c \in Seq(Nat) /\ Len(c) = Ranks(a, b)
        /\ Ranks(a, b) = IF Len(a) >= Len(b) THEN Len(a) ELSE Len(b)
    BY <2>1, BroadcastIsShape
  <2> HIDE DEF c
  <2>3. c \in Seq(Nat) /\ Len(c) <= n
    BY <2>1, <2>2
  <2> QED
    BY <2>1, <2>3, UptoIs DEF c
<1> QED
  BY <1>1, <1>2

LEMMA LastReducedUpto ==
  ASSUME NEW n \in Nat, NEW a \in Upto(n) PROVE Reduced(a, <<-1>>, TRUE) \in Upto(n)
<1>1. CASE a = Raises
  BY <1>1, UptoIs DEF Reduced
<1>2. CASE a = <<>>
  <2>1. ToSet(<<-1>>) = {-1} /\ Index(Len(a), -1) = 0 /\ DOMAIN a = {} /\ <<-1>> # Whole
    <3>1. Index(Len(a), -1) = 0
      BY <1>2 DEF Index
    <3> QED
      BY <1>2, <3>1, OneDim
  <2>2. Reduced(a, <<-1>>, TRUE) = Raises
    BY <2>1 DEF Reduced
  <2> QED
    BY <2>2, UptoIs
<1>3. CASE a # Raises /\ a # <<>>
  <2>1. a \in Seq(Nat) /\ Len(a) <= n
    BY <1>3, UptoIs
  <2> DEFINE r == Reduced(a, <<-1>>, TRUE)
  <2>2. r \in Seq(Nat) /\ Len(r) <= Len(a)
    BY <1>3, <2>1, LastReduced DEF Inside
  <2> HIDE DEF r
  <2>3. Len(r) <= n
    BY <2>1, <2>2
  <2> QED
    BY <2>2, <2>3, UptoIs DEF r
<1> QED
  BY <1>1, <1>2, <1>3

LEMMA FirstReducedUpto ==
  ASSUME NEW n \in Nat, NEW a \in Upto(n) PROVE Reduced(a, <<0>>, FALSE) \in Upto(n)
<1>1. CASE a = Raises
  BY <1>1, UptoIs DEF Reduced
<1>2. CASE a = <<>>
  <2>1. <<0>> \in Seq(Int) /\ DOMAIN <<0>> = {1} /\ <<0>>[1] = 0
    OBVIOUS
  <2>2. <<0>> # Whole /\ 0 \in ToSet(<<0>>) /\ Index(Len(a), 0) \notin DOMAIN a
    <3>1. <<0>> # Whole
      BY <2>1, TensorAssumption
    <3>2. 0 \in ToSet(<<0>>)
      BY <2>1 DEF ToSet
    <3> QED
      BY <1>2, <3>1, <3>2 DEF Index
  <2>3. Reduced(a, <<0>>, FALSE) = Raises
    BY <2>2 DEF Reduced
  <2> QED
    BY <2>3, UptoIs
<1>3. CASE a # Raises /\ a # <<>>
  <2>1. a \in Seq(Nat) /\ Len(a) <= n
    BY <1>3, UptoIs
  <2> DEFINE r == Reduced(a, <<0>>, FALSE)
  <2>2. r \in Seq(Nat) /\ DOMAIN r = 1..(Len(a) - 1)
    BY <1>3, <2>1, FirstReduced
  <2>3. Len(a) \in Nat /\ Len(a) >= 1
    BY <1>3, <2>1
  <2> HIDE DEF r
  <2>4. Len(r) <= n
    BY <2>1, <2>2, <2>3
  <2> QED
    BY <2>2, <2>4, UptoIs DEF r
<1> QED
  BY <1>1, <1>2, <1>3

LEMMA TimesUpto ==
  ASSUME NEW n \in Nat, n >= 3, NEW a \in Upto(n), NEW in \in Nat, NEW out \in Nat
  PROVE  Times(a, <<in, out>>) \in Upto(n)
<1> DEFINE w == <<in, out>>
<1>1. w \in Seq(Nat) /\ Len(w) = 2 /\ w # <<>> /\ Last(w) \in Nat
  BY DEF Last
<1> HIDE DEF w
<1>2. CASE Times(a, w) = Raises
  BY <1>2, UptoIs DEF w
<1>3. CASE Times(a, w) # Raises
  <2>1. /\ a \in Seq(Nat) /\ Len(a) <= n /\ a # <<>>
        /\ Times(a, w) = MatmulShape(a, w)
    BY <1>1, <1>3, UptoIs DEF Times
  <2>2. MatmulShape(a, w) \in Seq(Nat)
    BY <1>1, <2>1, MatmulIsShape
  <2>3. Batch(w) \in Seq(Nat) /\ Len(Batch(w)) = 0
    <3>0. Len(w) >= 2
      BY <1>1
    <3>1. IsBatch(Batch(w), w)
      BY <1>1, <3>0, BatchIs
    <3>2. Len(w) - 2 = 0
      BY <1>1
    <3> QED
      BY <3>1, <3>2 DEF IsBatch
  <2>4. CASE Len(a) = 1
    <3>1. MatmulShape(a, w) = Append(Batch(w), Last(w))
      BY <1>1, <2>4 DEF MatmulShape
    <3>2. Len(Append(Batch(w), Last(w))) = 1
      BY <1>1, <2>3
    <3>3. Len(MatmulShape(a, w)) <= n
      BY <3>1, <3>2
    <3> QED
      BY <2>1, <2>2, <3>3, UptoIs DEF w
  <2>5. CASE Len(a) # 1
    <3>0. Len(a) \in Nat /\ Len(a) >= 2
      <4>1. Len(a) \in Nat /\ Len(a) # 0
        BY <2>1
      <4>2. \A m \in Nat : m # 0 /\ m # 1 => m >= 2
        OBVIOUS
      <4> QED
        BY <2>5, <4>1, <4>2
    <3>1. Batch(a) \in Seq(Nat) /\ Len(Batch(a)) = Len(a) - 2
      BY <2>1, <3>0, BatchIs DEF IsBatch
    <3> DEFINE b == BroadcastShapes(Batch(a), Batch(w))
               r == <<a[Len(a) - 1], Last(w)>>
    <3>2. b \in Seq(Nat) /\ Len(b) = Len(a) - 2
      <4> DEFINE u == Batch(a)  v == Batch(w)
      <4>1. u \in Seq(Nat) /\ Len(u) = Len(a) - 2 /\ v \in Seq(Nat) /\ Len(v) = 0
        BY <2>3, <3>1
      <4> HIDE DEF u, v
      <4>2. /\ BroadcastShapes(u, v) \in Seq(Nat) /\ Len(BroadcastShapes(u, v)) = Ranks(u, v)
            /\ Ranks(u, v) = IF Len(u) >= Len(v) THEN Len(u) ELSE Len(v)
        BY <4>1, BroadcastIsShape
      <4>3. Len(u) >= Len(v)
        BY <3>0, <4>1
      <4> QED
        BY <4>1, <4>2, <4>3 DEF u, v
    <3>3. r \in Seq(Nat) /\ Len(r) = 2
      <4>1. Len(a) - 1 \in 1..Len(a)
        BY <3>0
      <4>2. a[Len(a) - 1] \in Nat
        BY <2>1, <4>1, ShapeIs
      <4> QED
        BY <1>1, <4>2
    <3>4. MatmulShape(a, w) = b \o r
      BY <1>1, <2>5 DEF MatmulShape
    <3> HIDE DEF b, r
    <3>5. Len(b \o r) = Len(b) + Len(r)
      BY <3>2, <3>3, ConcatProperties
    <3>6. Len(MatmulShape(a, w)) <= n
      BY <2>1, <3>0, <3>2, <3>3, <3>4, <3>5
    <3> QED
      BY <2>1, <2>2, <3>6, UptoIs DEF w
  <2> QED
    BY <2>4, <2>5
<1> QED
  BY <1>2, <1>3 DEF w

LEMMA LinearUpto ==
  ASSUME NEW n \in Nat, n >= 3, NEW a \in Upto(n), NEW in \in Nat, NEW out \in Nat,
         NEW bias \in BOOLEAN
  PROVE  Linear(a, in, out, bias) \in Upto(n)
<1>1. Times(a, <<in, out>>) \in Upto(n) /\ <<out>> \in Upto(n)
  BY TimesUpto, WidthsUpto
<1>2. Plus(Times(a, <<in, out>>), <<out>>) \in Upto(n)
  BY <1>1, PlusUpto
<1> QED
  BY <1>1, <1>2 DEF Linear

LEMMA NormsUpto ==
  ASSUME NEW n \in Nat, n >= 3, NEW a \in Upto(n), NEW e \in Nat, NEW training \in BOOLEAN
  PROVE  /\ LayerNorm(a, <<e>>) \in Upto(n) /\ RMSNorm(a, e) \in Upto(n)
         /\ BatchNorm1d(a, e, training) \in Upto(n)
<1>0. <<e>> \in Upto(n)
  BY WidthsUpto
<1>1. LayerNorm(a, <<e>>) \in Upto(n) /\ RMSNorm(a, e) \in Upto(n)
  <2> DEFINE mean == Reduced(a, <<-1>>, TRUE)
  <2>1. mean \in Upto(n)
    BY LastReducedUpto
  <2>2. /\ LayerNorm(a, <<e>>) = Plus(Plus(Plus(a, mean), <<e>>), <<e>>)
        /\ RMSNorm(a, e) = Plus(Plus(a, mean), <<e>>)
    BY NormDims DEF LayerNorm, RMSNorm
  <2> HIDE DEF mean
  <2> QED
    BY <1>0, <2>1, <2>2, PlusUpto
<1>2. BatchNorm1d(a, e, training) \in Upto(n)
  <2> DEFINE mean == IF training THEN Reduced(a, <<0>>, FALSE) ELSE <<e>>
  <2>1. mean \in Upto(n)
    BY <1>0, FirstReducedUpto
  <2>2. BatchNorm1d(a, e, training) = Plus(Plus(a, mean), <<e>>)
    BY DEF BatchNorm1d
  <2> HIDE DEF mean
  <2> QED
    BY <1>0, <2>1, <2>2, PlusUpto
<1> QED
  BY <1>1, <1>2

LEMMA ActivationsUpto ==
  ASSUME NEW n \in Nat, n >= 3, NEW a \in Upto(n)
  PROVE  Activation(a) \in Upto(n) /\ Softmax(a) \in Upto(n) /\ Dropout(a) \in Upto(n)
<1>1. Reduced(a, <<-1>>, TRUE) \in Upto(n)
  BY LastReducedUpto
<1>2. <<>> \in Upto(n)
  <2>1. 0 \in Nat
    OBVIOUS
  <2> QED
    BY <2>1, WidthsUpto
<1> QED
  BY <1>1, <1>2, PlusUpto DEF Activation, Softmax, Dropout

LEMMA AttentionUpto ==
  ASSUME NEW n \in Nat, n >= 3, NEW a \in Upto(n), NEW e \in Nat, NEW heads \in Nat \ {0},
         e % heads = 0, NEW first \in BOOLEAN
  PROVE  MultiheadAttention(a, e, heads, first) \in Upto(n)
<1>1. CASE a = Raises \/ Len(a) # 3
  BY <1>1, UptoIs DEF MultiheadAttention
<1>2. CASE a # Raises /\ Len(a) = 3
  <2>1. a \in Seq(Nat)
    BY <1>2, UptoIs
  <2>2. PICK i \in Nat, j \in Nat, k \in Nat : a = Rows(i, j, k)
    BY <1>2, <2>1, ThreeAre
  <2>3. Attends(i, j, k, e, heads, first)
    BY AttentionIs
  <2>4. <<i, j, e>> \in Seq(Nat) /\ Len(<<i, j, e>>) = 3
    OBVIOUS
  <2>5. <<i, j, e>> \in Upto(n) /\ Raises \in Upto(n)
    BY <2>4, UptoIs
  <2>6. MultiheadAttention(a, e, heads, first) \in {<<i, j, e>>, Raises}
    BY <2>2, <2>3 DEF Attends, Rows
  <2> QED
    BY <2>5, <2>6
<1> QED
  BY <1>1, <1>2

LEMMA FeedForwardUpto ==
  ASSUME NEW n \in Nat, n >= 3, NEW a \in Upto(n), NEW e \in Nat, NEW hidden \in Nat
  PROVE  FeedForward(a, e, hidden) \in Upto(n)
<1>1. Linear(a, e, hidden, TRUE) \in Upto(n)
  BY LinearUpto
<1>2. Dropout(Activation(Linear(a, e, hidden, TRUE))) \in Upto(n)
  BY <1>1, ActivationsUpto
<1>3. Linear(Dropout(Activation(Linear(a, e, hidden, TRUE))), hidden, e, TRUE) \in Upto(n)
  BY <1>2, LinearUpto
<1> QED
  BY <1>3, ActivationsUpto DEF FeedForward

LEMMA EncoderUpto ==
  ASSUME NEW n \in Nat, n >= 3, NEW a \in Upto(n), NEW e \in Nat, NEW heads \in Nat \ {0},
         e % heads = 0, NEW hidden \in Nat, NEW first \in BOOLEAN, NEW norm \in BOOLEAN
  PROVE  EncoderLayer(a, e, heads, hidden, first, norm) \in Upto(n)
<1>0. ASSUME NEW y \in Upto(n)
      PROVE  /\ LayerNorm(y, <<e>>) \in Upto(n) /\ FeedForward(y, e, hidden) \in Upto(n)
             /\ Dropout(MultiheadAttention(y, e, heads, first)) \in Upto(n)
  <2>0. TRUE \in BOOLEAN
    OBVIOUS
  <2>1. LayerNorm(y, <<e>>) \in Upto(n)
    BY <2>0, NormsUpto
  <2>2. MultiheadAttention(y, e, heads, first) \in Upto(n)
    BY AttentionUpto
  <2>3. Dropout(MultiheadAttention(y, e, heads, first)) \in Upto(n)
    BY <2>2, ActivationsUpto
  <2> QED
    BY <2>1, <2>3, FeedForwardUpto
<1>1. CASE norm
  <2> DEFINE c == LayerNorm(a, <<e>>)
             b == Plus(a, Dropout(MultiheadAttention(c, e, heads, first)))
             d == LayerNorm(b, <<e>>)
  <2>1. EncoderLayer(a, e, heads, hidden, first, norm) = Plus(b, FeedForward(d, e, hidden))
    BY <1>1 DEF EncoderLayer
  <2>2. c \in Upto(n)
    BY <1>0
  <2> HIDE DEF c
  <2>3. b \in Upto(n)
    BY <1>0, <2>2, PlusUpto
  <2> HIDE DEF b
  <2>4. d \in Upto(n)
    BY <1>0, <2>3
  <2> HIDE DEF d
  <2> QED
    BY <1>0, <2>1, <2>3, <2>4, PlusUpto
<1>2. CASE ~norm
  <2> DEFINE c == Plus(a, Dropout(MultiheadAttention(a, e, heads, first)))
             b == LayerNorm(c, <<e>>)
             d == Plus(b, FeedForward(b, e, hidden))
  <2>1. EncoderLayer(a, e, heads, hidden, first, norm) = LayerNorm(d, <<e>>)
    BY <1>2 DEF EncoderLayer
  <2>2. c \in Upto(n)
    BY <1>0, PlusUpto
  <2> HIDE DEF c
  <2>3. b \in Upto(n)
    BY <1>0, <2>2
  <2> HIDE DEF b
  <2>4. d \in Upto(n)
    BY <1>0, <2>3, PlusUpto
  <2> HIDE DEF d
  <2> QED
    BY <1>0, <2>1, <2>4
<1> QED
  BY <1>1, <1>2
-----------------------------------------------------------------------------
(* The type invariant of layers, whose dimensions are those of the input or three. *)
Most == IF Len(given) >= 3 THEN Len(given) ELSE 3
LayerTyped ==
  /\ depth \in 0..MaxLayers /\ (depth = 0 => x = given)
  /\ given \in Seq(Nat) /\ x \in Upto(Most)

LEMMA LayerTypeIs == ASSUME LayerTyped PROVE LayerTypeOK
<1>1. Len(given) \in Nat /\ Most \in Nat /\ depth \in 0..MaxLayers /\ (depth = 0 => x = given)
  BY DEF LayerTyped, Most
<1>2. x # Raises => Len(x) <= Most
  BY <1>1, UptoIs DEF LayerTyped
<1>3. x # Raises => Len(x) <= 3 \/ Len(x) <= Len(given)
  BY <1>2 DEF Most
<1> QED
  BY <1>1, <1>3 DEF LayerTypeOK

LEMMA LayerTypeStarts == ASSUME LayerInit PROVE LayerTyped
<1>1. x \in Seq(Nat) /\ given = x /\ depth = 0 /\ MaxLayers \in Nat
  BY LayerAssumption DEF LayerInit
<1>2. Most \in Nat /\ Len(x) \in Nat /\ Len(x) <= Most
  BY <1>1 DEF Most
<1>3. x \in Upto(Most)
  BY <1>1, <1>2, UptoIs
<1> QED
  BY <1>1, <1>3 DEF LayerTyped

LEMMA LayerTypeMoves ==
  ASSUME LayerTyped, NEW y, NEW e, y \in Upto(Most), Layer(y, e) PROVE LayerTyped'
<1>1. depth \in 0..MaxLayers /\ MaxLayers \in Nat /\ depth < MaxLayers
  BY LayerAssumption DEF LayerTyped, Layer
<1>2. x' = y /\ depth' = depth + 1 /\ given' = given
  BY DEF Layer
<1>3. depth' \in 0..MaxLayers /\ depth' # 0
  BY <1>1, <1>2
<1>4. Most' = Most
  BY <1>2 DEF Most
<1>5. given' \in Seq(Nat) /\ x' \in Upto(Most)
  BY <1>2 DEF LayerTyped
<1>6. x' \in Upto(Most')
  BY <1>4, <1>5
<1> QED
  BY <1>3, <1>5, <1>6 DEF LayerTyped, Upto

LEMMA EmbedTyped == ASSUME LayerTyped, NEW e \in Nat, Embed(e) PROVE LayerTyped'
<1>1. Len(given) \in Nat /\ Most \in Nat
  BY DEF LayerTyped, Most
<1>2. x \in Seq(Nat)
  BY <1>1, UptoIs DEF LayerTyped, Embed
<1>3. x' = Append(x, e) /\ given' = x' /\ depth' = depth
  BY DEF Embed, Embedding
<1>4. x' \in Seq(Nat) /\ Len(x') \in Nat
  BY <1>2, <1>3
<1>5. Most' \in Nat /\ Len(x') <= Most'
  BY <1>3, <1>4 DEF Most
<1>6. x' # Raises
  BY <1>4, RaisesIsNone
<1> QED
  BY <1>3, <1>4, <1>5, <1>6 DEF LayerTyped, Upto, Activations

LEMMA LayerTypeSteps == ASSUME LayerTyped, [LayerNext]_layerVars PROVE LayerTyped'
<1>0. x \in Upto(Most) /\ Most \in Nat /\ Most >= 3
  BY DEF LayerTyped, Most
<1>1. CASE UNCHANGED layerVars
  BY <1>1 DEF layerVars, LayerTyped, Most, Upto
<1>2. CASE Loss
  BY <1>2 DEF Loss, LayerTyped, Most, Upto
<1> HIDE DEF Most
<1>3. ASSUME NEW e \in Features, NEW out \in Features, NEW bias \in BOOLEAN,
             Layer(Linear(x, e, out, bias), e)
      PROVE  LayerTyped'
  <2>1. e \in Nat /\ out \in Nat
    BY LayerAssumption
  <2>2. Linear(x, e, out, bias) \in Upto(Most)
    BY <1>0, <2>1, LinearUpto
  <2> QED
    BY <1>3, <2>2, LayerTypeMoves
<1>4. ASSUME NEW e \in Features, NEW training \in BOOLEAN,
             \/ Layer(LayerNorm(x, <<e>>), e) \/ Layer(RMSNorm(x, e), e)
             \/ Layer(BatchNorm1d(x, e, training), e)
      PROVE  LayerTyped'
  <2>1. e \in Nat
    BY LayerAssumption
  <2>2. /\ LayerNorm(x, <<e>>) \in Upto(Most) /\ RMSNorm(x, e) \in Upto(Most)
        /\ BatchNorm1d(x, e, training) \in Upto(Most)
    BY <1>0, <2>1, NormsUpto
  <2> QED
    BY <1>4, <2>2, LayerTypeMoves
<1>5. ASSUME NEW e \in Features, NEW heads \in HeadCounts, NEW first \in BOOLEAN,
             NEW norm_first \in BOOLEAN, e % heads = 0,
             \/ Layer(MultiheadAttention(x, e, heads, first), e)
             \/ Layer(EncoderLayer(x, e, heads, 2, first, norm_first), e)
      PROVE  LayerTyped'
  <2>1. e \in Nat /\ heads \in Nat \ {0} /\ 2 \in Nat
    BY LayerAssumption
  <2>2. /\ MultiheadAttention(x, e, heads, first) \in Upto(Most)
        /\ EncoderLayer(x, e, heads, 2, first, norm_first) \in Upto(Most)
    BY <1>0, <1>5, <2>1, AttentionUpto, EncoderUpto
  <2> QED
    BY <1>5, <2>2, LayerTypeMoves
<1>6. ASSUME NEW e \in Features, Embed(e) PROVE LayerTyped'
  BY <1>6, LayerAssumption, EmbedTyped
<1>7. ASSUME \/ Layer(Activation(x), Last(x)) \/ Layer(Softmax(x), Last(x))
             \/ Layer(Dropout(x), Last(x))
      PROVE  LayerTyped'
  <2>1. Activation(x) \in Upto(Most) /\ Softmax(x) \in Upto(Most) /\ Dropout(x) \in Upto(Most)
    BY <1>0, ActivationsUpto
  <2> QED
    BY <1>7, <2>1, LayerTypeMoves
<1>8. TRUE \in BOOLEAN
  OBVIOUS
<1> QED
  BY <1>1, <1>2, <1>3, <1>4, <1>5, <1>6, <1>7, <1>8 DEF LayerNext
-----------------------------------------------------------------------------
(* The type invariant of quantization. *)
ConversionTyped ==
  /\ observers \subseteq Places /\ dynamic \in BOOLEAN
  /\ \A p \in Places : model[p] # (IF dynamic THEN "quantized" ELSE "dynamic")

LEMMA ConversionTypeStarts == ASSUME ConversionInit PROVE ConversionTyped
  BY DEF ConversionInit, ConversionTyped

LEMMA ConversionTypeSteps ==
  ASSUME ConversionTyped, ConversionNext \/ UNCHANGED conversionVars PROVE ConversionTyped'
<1>1. CASE UNCHANGED conversionVars
  BY <1>1 DEF conversionVars, ConversionTyped
<1>2. CASE Fails
  BY <1>2 DEF Fails, ConversionTyped
<1>3. ASSUME NEW named \in SUBSET Places, PrepareCalibration(named) PROVE ConversionTyped'
  BY <1>2, <1>3 DEF PrepareCalibration, ConversionTyped
<1>4. ASSUME NEW named \in SUBSET Places, NEW inplace \in BOOLEAN, ConvertModel(named, inplace)
      PROVE  ConversionTyped'
  <2> DEFINE reached == {p \in Places : \A q \in Misfits(named) : p < q}
  <2>1. CASE ~(~inplace /\ ~Copyable)
    <3>1. /\ model' = [p \in Places |->
                        IF p \in reached \cap named /\ model[p] \in {"square", "tall"}
                        THEN IF dynamic THEN "dynamic" ELSE "quantized" ELSE model[p]]
          /\ observers' = observers \ reached /\ dynamic' = dynamic
      BY <1>4, <2>1 DEF ConvertModel
    <3> HIDE DEF reached
    <3> QED
      BY <3>1 DEF ConversionTyped
  <2> QED
    BY <1>2, <1>4, <2>1 DEF ConvertModel
<1> QED
  BY <1>1, <1>2, <1>3, <1>4 DEF ConversionNext, QuantizeCopy
=============================================================================
