--------------------------------- MODULE Tensors ---------------------------------
(***************************************************************************)
(* Lazy tensors and their views (core/tensor.py).  An operation makes a    *)
(* tensor that promises a shape and a type and has no storage until it is  *)
(* realized; a view shares the storage of the tensor it is taken from.     *)
(*                                                                         *)
(* Abstracted: element values, which no operation of the code computes;    *)
(* gradients; devices; what the memory pool does (MemoryPool).             *)
(***************************************************************************)
EXTENDS Integers, Sequences, SequencesExt, FiniteSets, FiniteSetsExt

CONSTANTS
  NewShapes,     \* the shapes of the tensors that are made
  NewDTypes,     \* and their types
  MaxTensors,    \* bound on the tensors
  Whole          \* dim=None

ASSUME TensorAssumption == NewShapes \subseteq Seq(Nat) /\ Whole \notin Seq(Int) /\ MaxTensors \in Nat

\* In the order of creation.  "op", "args", "dims" and "keep" describe the lazy operation,
\* "real" if there is none; "shape", "strides", "offset" and "dtype" are the fields;
\* "store" is the storage: the tensor that it was allocated for, and its size.  "told" is
\* history: the shape and the type of the tensor when it was made.
VARIABLE tensors

Size(shape) == FoldLeft(LAMBDA n, d : n * d, 1, shape)
Contiguous(shape) == [i \in DOMAIN shape |-> Size(SubSeq(shape, i + 1, Len(shape)))]

\* A Python index: from the end if negative.
Index(n, d) == IF d < 0 THEN n + d + 1 ELSE d + 1
-----------------------------------------------------------------------------
Floats == {"float16", "float32", "float64"}

PromoteDTypes(a, b) ==
  IF {a, b} \cap Floats # {} THEN IF "float64" \in {a, b} THEN "float64" ELSE "float32"
  ELSE IF {a, b} # {"bool"} THEN "int64" ELSE a

FromRight(shape, i) == IF i < Len(shape) THEN shape[Len(shape) - i] ELSE 1
Ranks(a, b) == Max({Len(a), Len(b)})
Broadcasts(a, b) ==
  \A i \in 0..(Ranks(a, b) - 1) :
    FromRight(a, i) = FromRight(b, i) \/ 1 \in {FromRight(a, i), FromRight(b, i)}
BroadcastShapes(a, b) ==
  [j \in 1..Ranks(a, b) |-> LET i == Ranks(a, b) - j IN
     IF FromRight(a, i) = 1 THEN FromRight(b, i) ELSE FromRight(a, i)]

\* The inner dimensions are not compared.
Batch(shape) == SubSeq(shape, 1, Len(shape) - 2)
MatmulShape(a, b) ==
  IF Len(a) = 1 /\ Len(b) = 1 THEN <<>>
  ELSE IF Len(a) = 1 THEN Append(Batch(b), Last(b))
  ELSE IF Len(b) = 1 THEN Front(a)
  ELSE BroadcastShapes(Batch(a), Batch(b)) \o <<a[Len(a) - 1], Last(b)>>

\* The largest dimension first, the negative ones as they are.
Descending(dims) ==
  LET rank(i) == Cardinality({j \in DOMAIN dims : \/ dims[j] > dims[i]
                                                  \/ dims[j] = dims[i] /\ j <= i}) IN
  [k \in DOMAIN dims |-> dims[CHOOSE i \in DOMAIN dims : rank(i) = k]]
PopDim(shape, d) == RemoveAt(shape, Index(Len(shape), d))
ReduceShape(shape, dims, keep) ==
  IF dims = Whole THEN IF keep THEN [i \in DOMAIN shape |-> 1] ELSE <<>>
  ELSE IF keep THEN [i \in DOMAIN shape |->
                       IF \E d \in ToSet(dims) : Index(Len(shape), d) = i THEN 1 ELSE shape[i]]
  ELSE FoldLeft(PopDim, shape, Descending(dims))
ReduceDType(kind, dtype) == IF kind = "sum" /\ dtype = "int32" THEN "int64" ELSE dtype

\* Tensor.shape and Tensor.dtype of the tensor r, those of the tensors before it being f.
ShapeStep(f, r) ==
  CASE r.op = "real" -> r.shape
    [] r.op = "binary" -> BroadcastShapes(f[r.args[1]], f[r.args[2]])
    [] r.op = "matmul" -> MatmulShape(f[r.args[1]], f[r.args[2]])
    [] r.op = "unary" -> f[r.args[1]]
    [] r.op \in {"sum", "max"} -> ReduceShape(f[r.args[1]], r.dims, r.keep)
DTypeStep(f, r) ==
  CASE r.op = "real" -> r.dtype
    [] r.op \in {"binary", "matmul"} -> PromoteDTypes(f[r.args[1]], f[r.args[2]])
    [] r.op = "unary" -> f[r.args[1]]
    [] r.op \in {"sum", "max"} -> ReduceDType(r.op, f[r.args[1]])

\* Those of each tensor: of its operation, if it is lazy.
ShapeOf == LET f[t \in DOMAIN tensors] == ShapeStep(f, tensors[t]) IN f
DTypeOf == LET f[t \in DOMAIN tensors] == DTypeStep(f, tensors[t]) IN f
-----------------------------------------------------------------------------
Next1 == Len(tensors) + 1
Room == Len(tensors) < MaxTensors

Storage(owner, shape) == [owner |-> owner, size |-> Size(shape)]
NoStorage == [owner |-> 0, size |-> 0]

Empty(owner, shape, dtype) ==
  [op |-> "real", args |-> <<>>, dims |-> Whole, keep |-> FALSE, shape |-> shape,
   strides |-> Contiguous(shape), offset |-> 0, dtype |-> dtype,
   store |-> Storage(owner, shape), told |-> [shape |-> shape, dtype |-> dtype]]

\* empty, zeros, ones, full, rand, randn, arange, linspace, eye, from_numpy.
Create(shape, dtype) == Room /\ tensors' = Append(tensors, Empty(Next1, shape, dtype))

\* What a lazy tensor says of itself is not what is in its fields: a reduction has the
\* shape () and the type of its input there.
MakeLazy(op, args, dims, keep, fields, shape, dtype) ==
  /\ Room
  /\ tensors' = Append(tensors,
       [op |-> op, args |-> args, dims |-> dims, keep |-> keep, shape |-> fields.shape,
        strides |-> Contiguous(fields.shape), offset |-> 0, dtype |-> fields.dtype,
        store |-> NoStorage, told |-> [shape |-> shape, dtype |-> dtype]])

Told(shape, dtype) == [shape |-> shape, dtype |-> dtype]

\* The operators of arithmetic and of comparison.
Binary(a, b) ==
  LET shape == BroadcastShapes(ShapeOf[a], ShapeOf[b])
      dtype == PromoteDTypes(DTypeOf[a], DTypeOf[b]) IN
  /\ Broadcasts(ShapeOf[a], ShapeOf[b])
  /\ MakeLazy("binary", <<a, b>>, Whole, FALSE, Told(shape, dtype), shape, dtype)

Matmul(a, b) ==
  LET shape == MatmulShape(ShapeOf[a], ShapeOf[b])
      dtype == PromoteDTypes(DTypeOf[a], DTypeOf[b]) IN
  /\ ShapeOf[a] # <<>> /\ ShapeOf[b] # <<>> /\ Broadcasts(Batch(ShapeOf[a]), Batch(ShapeOf[b]))
  /\ MakeLazy("matmul", <<a, b>>, Whole, FALSE, Told(shape, dtype), shape, dtype)

Unary(a) ==
  MakeLazy("unary", <<a>>, Whole, FALSE, Told(ShapeOf[a], DTypeOf[a]), ShapeOf[a], DTypeOf[a])

\* No dimension is negative beside another one: what the code makes of those is in the
\* README.
Reduce(kind, a, dims, keep) ==
  /\ dims # Whole => \A d \in ToSet(dims) : Index(Len(ShapeOf[a]), d) \in DOMAIN ShapeOf[a]
  /\ MakeLazy(kind, <<a>>, dims, keep, Told(<<>>, DTypeOf[a]),
              ReduceShape(ShapeOf[a], dims, keep), ReduceDType(kind, DTypeOf[a]))
-----------------------------------------------------------------------------
\* The lazy tensors that are realized with t.
Needed(t) ==
  LET f[i \in DOMAIN tensors] ==
        IF tensors[i].op = "real" THEN {}
        ELSE {i} \cup UNION {f[a] : a \in ToSet(tensors[i].args)}
  IN f[t]

\* Mutant: the shape is not taken over from the result.
RealizedShapeless(t) ==
  [i \in DOMAIN tensors |->
     IF i \in Needed(t)
     THEN [tensors[i] EXCEPT !.op = "real", !.args = <<>>, !.store = Storage(i, ShapeOf[i])]
     ELSE tensors[i]]

\* The result's storage, shape and strides are taken over, its type is not.
Realized(t) ==
  [i \in DOMAIN tensors |->
     IF i \in Needed(t)
     THEN [tensors[i] EXCEPT !.op = "real", !.args = <<>>, !.shape = ShapeOf[i],
             !.strides = Contiguous(ShapeOf[i]), !.store = Storage(i, ShapeOf[i])]
     ELSE tensors[i]]

\* realize(), and all that needs the data: numpy(), item(), data_ptr, strides, x[i] = v.
Realize(t) == tensors[t].op # "real" /\ tensors' = Realized(t)

\* A view v of the tensor t is made of it once it is realized.
MakeView(t, v) ==
  /\ Room
  /\ tensors' = Append(Realized(t), [v EXCEPT !.told = Told(v.shape, v.dtype)])

IsContiguous(r) == r.strides = Contiguous(r.shape)

\* A copy is made, in storage of its own, of what is not contiguous.
Reshaped(r, shape) ==
  IF IsContiguous(r) THEN [r EXCEPT !.shape = shape, !.strides = Contiguous(shape)]
  ELSE Empty(Next1, shape, r.dtype)

Transposed(r, i, j) == [r EXCEPT !.shape = [@ EXCEPT ![i] = r.shape[j], ![j] = r.shape[i]],
                                 !.strides = [@ EXCEPT ![i] = r.strides[j], ![j] = r.strides[i]]]
Permuted(r, dims) == [r EXCEPT !.shape = [i \in DOMAIN dims |-> r.shape[dims[i]]],
                               !.strides = [i \in DOMAIN dims |-> r.strides[dims[i]]]]
Flattened(r) == Reshaped(r, <<Size(r.shape)>>)
Squeezed(r) == LET kept == FoldLeft(LAMBDA s, d : IF d = 1 THEN s ELSE Append(s, d), <<>>, r.shape) IN
  Reshaped(r, IF kept = <<>> THEN <<1>> ELSE kept)
Unsqueezed(r, d) == Reshaped(r, InsertAt(r.shape, d + 1, 1))

IndexInt(r, k) == [r EXCEPT !.shape = Tail(@), !.strides = Tail(@),
                            !.offset = @ + (IF k < 0 THEN r.shape[1] + k ELSE k) * r.strides[1]]

\* start and stop as slice.indices() makes them.
IndexSlice(r, start, stop, step) ==
  [r EXCEPT !.shape = <<Max({0, (stop - start + step - 1) \div step})>> \o Tail(@),
            !.strides = <<Head(@) * step>> \o Tail(@), !.offset = @ + start * r.strides[1]]

\* A tuple of None and a number: the number is taken of what None has made.
IndexNone(r, k) == IndexInt(Unsqueezed(r, 0), k)

View(t) ==
  LET r == Realized(t)[t]  n == Len(r.shape) IN
  \/ MakeView(t, Flattened(r)) \/ MakeView(t, Squeezed(r))
  \/ \E d \in 0..n : MakeView(t, Unsqueezed(r, d))
  \/ \E i, j \in 1..n : i < j /\ MakeView(t, Transposed(r, i, j))
  \/ \E p \in Bijection(1..n, 1..n) : MakeView(t, Permuted(r, p))
  \/ /\ n > 0 /\ \E k \in -r.shape[1]..(r.shape[1] - 1) : MakeView(t, IndexInt(r, k))
  \/ /\ n > 0
     /\ \E start, stop \in 0..r.shape[1], step \in {1, 2} :
          MakeView(t, IndexSlice(r, start, stop, step))
  \/ MakeView(t, IndexNone(r, 0))

\* clone() and to() another device or type.
Copy(t, dtype) ==
  /\ Room
  /\ tensors' = Append(Realized(t), Empty(Next1, Realized(t)[t].shape, dtype))

\* The lazy operation is shared, and will be done once for each.
Detach(t) == Room /\ tensors' = Append(tensors, [tensors[t] EXCEPT !.told =
                                                  Told(ShapeOf[t], DTypeOf[t])])

ReduceDims == {Whole, <<0>>, <<-1>>, <<0, 1>>}

TensorInit == tensors = <<>>

TensorNext ==
  \/ \E shape \in NewShapes, dtype \in NewDTypes : Create(shape, dtype)
  \/ \E a, b \in DOMAIN tensors : Binary(a, b) \/ Matmul(a, b)
  \/ \E t \in DOMAIN tensors :
       \/ Unary(t) \/ Realize(t) \/ View(t) \/ Detach(t)
       \/ \E kind \in {"sum", "max"}, dims \in ReduceDims, keep \in BOOLEAN :
            Reduce(kind, t, dims, keep)
       \/ \E dtype \in NewDTypes : Copy(t, dtype)

TensorSpec == TensorInit /\ [][TensorNext]_tensors
-----------------------------------------------------------------------------
TensorTypeOK ==
  \A t \in DOMAIN tensors : LET r == tensors[t] IN
    /\ ToSet(r.args) \subseteq 1..(t - 1) /\ r.store.owner \in 0..t
    /\ (r.op = "real") <=> (r.store.owner # 0) /\ Len(r.shape) = Len(r.strides)

(* A tensor has, whenever it and those it is made of are realized, the shape that it was
   promised to have, and if one of the two is a floating-point type, the type. *)
PromiseKept ==
  \A t \in DOMAIN tensors : LET r == tensors[t] IN
    /\ ShapeOf[t] = r.told.shape
    /\ (r.told.dtype \in Floats \/ DTypeOf[t] \in Floats) => DTypeOf[t] = r.told.dtype

\* How far the last element is from the first one.
Summed(w) == FoldLeft(LAMBDA n, d : n + d, 0, w)
Reach(shape, strides) == Summed([i \in DOMAIN shape |-> (shape[i] - 1) * strides[i]])

(* Whatever views are taken of views, each element of each lies in the storage, provided
   that indexes are in range and steps are positive. *)
ViewsInBounds ==
  \A t \in DOMAIN tensors : LET r == tensors[t] IN
    r.op = "real" /\ Size(r.shape) > 0 =>
      r.offset >= 0 /\ r.offset + Reach(r.shape, r.strides) < r.store.size
=============================================================================
