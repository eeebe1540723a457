---------------------------------- MODULE Layers ----------------------------------
(***************************************************************************)
(* The shapes that the layers and losses of nn/__init__.py compute: an     *)
(* input, three-dimensional or less, goes through one layer after another, *)
(* as in a Sequential.                                                     *)
(*                                                                         *)
(* Abstracted: everything but shapes, which are promised before anything   *)
(* is computed (Tensors): what raises is an operation on the shapes.       *)
(***************************************************************************)
EXTENDS Tensors

CONSTANTS
  InputShapes,   \* of what goes into the first layer
  Features,      \* possible numbers of features
  HeadCounts,    \* possible nhead
  MaxLayers,     \* bound on the depth
  Raises         \* the "shape" after an exception

ASSUME LayerAssumption ==
  /\ InputShapes \subseteq Seq(Nat) /\ Raises \notin Seq(Nat) /\ MaxLayers \in Nat
  /\ Features \subseteq Nat /\ HeadCounts \subseteq Nat \ {0}

VARIABLES
  x,             \* the shape of the activation
  depth,
  given,         \* history: what the layers were given, or an Embedding made of it
  fit,           \* history: whether each layer had the width of what it was given
  loss           \* the shape of a loss, Raises before

layerVars == <<x, depth, given, fit, loss>>

LayerInit == x \in InputShapes /\ given = x /\ depth = 0 /\ fit = TRUE /\ loss = Raises

\* The operators of Tensors that raise, on shapes that may be an exception already.
Plus(a, b) ==
  IF a = Raises \/ b = Raises THEN Raises
  ELSE IF Broadcasts(a, b) THEN BroadcastShapes(a, b) ELSE Raises
Times(a, b) ==
  IF a = Raises \/ b = Raises THEN Raises
  ELSE IF <<>> \in {a, b} \/ ~Broadcasts(Batch(a), Batch(b)) THEN Raises
  ELSE MatmulShape(a, b)
Reduced(a, dims, keep) ==
  IF a = Raises THEN Raises
  ELSE IF dims # Whole /\ \E d \in ToSet(dims) : Index(Len(a), d) \notin DOMAIN a THEN Raises
  ELSE ReduceShape(a, dims, keep)
View3(a, shape) == IF a = Raises THEN Raises ELSE IF Size(a) = Size(shape) THEN shape ELSE Raises
Swapped(a) == IF a = Raises THEN Raises ELSE <<a[2], a[1]>> \o SubSeq(a, 3, Len(a))
-----------------------------------------------------------------------------
\* The product does not compare x's last dimension with in_features.
Linear(a, in, out, bias) ==
  LET y == Times(a, <<in, out>>) IN IF bias THEN Plus(y, <<out>>) ELSE y

Embedding(a, dim) == Append(a, dim)

\* Normalized over the last dimensions, or with running statistics over the first one.
LayerNorm(a, shape) ==
  LET mean == Reduced(a, [i \in DOMAIN shape |-> -i], TRUE) IN
  Plus(Plus(Plus(a, mean), shape), shape)
RMSNorm(a, dim) == Plus(Plus(a, Reduced(a, <<-1>>, TRUE)), <<dim>>)
BatchNorm1d(a, features, training) ==
  Plus(Plus(a, IF training THEN Reduced(a, <<0>>, FALSE) ELSE <<features>>), <<features>>)

Activation(a) == Plus(a, a)
Softmax(a) == Plus(a, Reduced(a, <<-1>>, TRUE))
Dropout(a) == Plus(a, <<>>)

\* Self-attention: the heads' products, and the result in the shape of the query.
MultiheadAttention(q, embed, heads, batch_first) ==
  IF q = Raises \/ Len(q) # 3 THEN Raises
  ELSE
    LET s    == IF batch_first THEN Swapped(q) ELSE q
        dim  == embed \div heads
        proj == View3(Linear(s, embed, embed, TRUE), <<s[1], s[2], heads, dim>>)
        head == IF proj = Raises THEN Raises ELSE <<s[2], heads, s[1], dim>>
        weights == Times(head, IF head = Raises THEN Raises ELSE <<s[2], heads, dim, s[1]>>)
        out  == Linear(View3(Times(Softmax(weights), head), s), embed, embed, TRUE)
    IN IF batch_first THEN Swapped(out) ELSE out

FeedForward(a, embed, hidden) ==
  Dropout(Linear(Dropout(Activation(Linear(a, embed, hidden, TRUE))), hidden, embed, TRUE))

EncoderLayer(a, embed, heads, hidden, batch_first, norm_first) ==
  IF norm_first
  THEN LET b == Plus(a, Dropout(MultiheadAttention(LayerNorm(a, <<embed>>), embed, heads,
                                                   batch_first)))
       IN Plus(b, FeedForward(LayerNorm(b, <<embed>>), embed, hidden))
  ELSE LET b == LayerNorm(Plus(a, Dropout(MultiheadAttention(a, embed, heads, batch_first))),
                          <<embed>>)
       IN LayerNorm(Plus(b, FeedForward(b, embed, hidden)), <<embed>>)
-----------------------------------------------------------------------------
\* A layer of the given width is next; nothing follows what has raised.
Layer(y, width) ==
  /\ x # Raises /\ depth < MaxLayers /\ loss = Raises
  /\ x' = y /\ depth' = depth + 1 /\ fit' = (fit /\ x # <<>> /\ Last(x) = width)
  /\ UNCHANGED <<given, loss>>

Embed(dim) ==
  /\ x # Raises /\ Len(x) < 3 /\ loss = Raises
  /\ x' = Embedding(x, dim) /\ given' = x' /\ UNCHANGED <<depth, fit, loss>>

MSELoss(input, target, reduction) ==
  IF reduction = "none" THEN Plus(input, target) ELSE Reduced(Plus(input, target), Whole, FALSE)
\* With targets that are classes, what is returned is the negated logarithms themselves.
CrossEntropyLoss(input, target, classes, reduction) ==
  LET each == IF classes THEN Softmax(input)
              ELSE Reduced(Plus(target, Softmax(input)), <<-1>>, FALSE)
  IN IF reduction = "none" THEN each ELSE Reduced(each, Whole, FALSE)

Loss ==
  /\ x # Raises /\ loss = Raises /\ UNCHANGED <<x, depth, given, fit>>
  /\ \E reduction \in {"mean", "none"}, target \in InputShapes :
       \/ loss' = MSELoss(x, target, reduction)
       \/ \E classes \in BOOLEAN : loss' = CrossEntropyLoss(x, target, classes, reduction)

LayerNext ==
  \/ Loss
  \/ \E e \in Features :
       \/ \E out \in Features, bias \in BOOLEAN : Layer(Linear(x, e, out, bias), e)
       \/ Layer(LayerNorm(x, <<e>>), e) \/ Layer(RMSNorm(x, e), e)
       \/ \E training \in BOOLEAN : Layer(BatchNorm1d(x, e, training), e)
       \/ \E heads \in HeadCounts, first \in BOOLEAN :
            /\ e % heads = 0
            /\ \/ Layer(MultiheadAttention(x, e, heads, first), e)
               \/ \E norm_first \in BOOLEAN :
                    Layer(EncoderLayer(x, e, heads, 2, first, norm_first), e)
       \/ Embed(e)
  \/ Layer(Activation(x), Last(x)) \/ Layer(Softmax(x), Last(x)) \/ Layer(Dropout(x), Last(x))

LayerSpec == LayerInit /\ [][LayerNext]_layerVars
-----------------------------------------------------------------------------
LayerTypeOK ==
  /\ depth \in 0..MaxLayers /\ (depth = 0 => x = given)
  /\ x # Raises => Len(x) <= 3 \/ Len(x) <= Len(given)

(* However deep the model, three-dimensional activations go through layers of their
   width without an exception, and keep their first two dimensions; batch_first and
   norm_first change nothing in that. *)
FitKeepsRows ==
  fit /\ Len(given) = 3 => x # Raises /\ Front(x) = Front(given)
=============================================================================
