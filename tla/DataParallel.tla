------------------------------ MODULE DataParallel ------------------------------
(***************************************************************************)
(* Who holds what in data-parallel training (distributed/__init__.py): the *)
(* gradient buckets of DistributedDataParallel, and the partition that     *)
(* ZeRO makes of the parameters.                                           *)
(*                                                                         *)
(* Abstracted: a parameter is its position and its size.  Nothing is       *)
(* transmitted, as in the code: the bucket's all_reduce() and the hooks    *)
(* are empty.                                                              *)
(***************************************************************************)
EXTENDS Integers, Sequences, SequencesExt, FiniteSets

CONSTANTS
  Workers,        \* the ranks, 0..n-1
  ParamSizes,     \* possible sizes of a parameter
  MaxParams,      \* bound on the parameters of a model
  BucketCap       \* bucket_cap_mb, in the unit of ParamSizes

\* Ranks count from zero, and a parameter has elements: one that has none would be
\* given to a rank which has its share.
ASSUME DataParallelAssumption ==
  /\ Cardinality(Workers) \in Nat \ {0} /\ Workers = 0..(Cardinality(Workers) - 1)
  /\ ParamSizes \subseteq Nat \ {0} /\ BucketCap \in Nat /\ MaxParams \in Nat

VARIABLES
  sizes,          \* the model: the size of each of its parameters, in order
  buckets,        \* DistributedDataParallel._buckets, each with its parameters
  bucketOf,       \* _bucket_indices
  ready,          \* _ready_count of each bucket
  partitions,     \* ZeROOptimizer._param_partitions
  gathered        \* the broadcasts of the last _all_gather_parameters()

dataParallelVars == <<sizes, buckets, bucketOf, ready, partitions, gathered>>

WorldSize == Cardinality(Workers)
Params == [i \in DOMAIN sizes |-> i]
Numel(params) == FoldLeft(LAMBDA n, p : n + sizes[p], 0, params)

DataParallelInit ==
  /\ sizes \in SeqOf(ParamSizes, MaxParams)
  /\ buckets = <<>> /\ bucketOf = <<>> /\ ready = <<>> /\ gathered = <<>>
  /\ partitions = [w \in Workers |-> <<>>]
-----------------------------------------------------------------------------
\* add_param() refuses a parameter that does not fit, but to an empty bucket.
AddParam(bs, p) ==
  IF Numel(Last(bs)) + sizes[p] > BucketCap /\ Last(bs) # <<>>
  THEN Append(bs, <<p>>) ELSE Append(Front(bs), Append(Last(bs), p))

BuildBuckets == FoldLeft(AddParam, << <<>> >>, Reverse(Params))

\* DistributedDataParallel.__init__.
WrapDDP ==
  /\ buckets = <<>> /\ buckets' = BuildBuckets
  /\ bucketOf' = [p \in DOMAIN sizes |-> SelectInSeq(buckets', LAMBDA b : Contains(b, p))]
  /\ ready' = [b \in DOMAIN buckets' |-> 0]
  /\ UNCHANGED <<sizes, partitions, gathered>>

\* The count is never reset: once complete, a bucket stays it.
MarkGradReady(p) ==
  /\ buckets # <<>> /\ ready[bucketOf[p]] <= Len(buckets[bucketOf[p]])
  /\ ready' = [ready EXCEPT ![bucketOf[p]] = @ + 1]
  /\ UNCHANGED <<sizes, buckets, bucketOf, partitions, gathered>>
-----------------------------------------------------------------------------
PartitionSize == (Numel(Params) + WorldSize - 1) \div WorldSize

\* Mutant: what a rank has is not forgotten when the next one's turn comes.
AssignParamOn(acc, p) ==
  LET full == acc.numel >= PartitionSize /\ acc.rank < WorldSize - 1
      r    == IF full THEN acc.rank + 1 ELSE acc.rank IN
  [rank |-> r, numel |-> acc.numel + sizes[p], parts |-> [acc.parts EXCEPT ![r] = Append(@, p)]]

AssignParam(acc, p) ==
  LET full == acc.numel >= PartitionSize /\ acc.rank < WorldSize - 1
      r    == IF full THEN acc.rank + 1 ELSE acc.rank IN
  [rank |-> r, numel |-> IF full THEN sizes[p] ELSE acc.numel + sizes[p],
   parts |-> [acc.parts EXCEPT ![r] = Append(@, p)]]

PartitionParameters ==
  FoldLeft(AssignParam, [rank |-> 0, numel |-> 0, parts |-> [w \in Workers |-> <<>>]], Params)

\* ZeROOptimizer.__init__ at the stage PARAMETERS: the others partition nothing.
WrapZeRO ==
  /\ partitions' = PartitionParameters.parts /\ partitions' # partitions
  /\ UNCHANGED <<sizes, buckets, bucketOf, ready, gathered>>

\* step(): after the base optimizer's, each rank broadcasts its parameters, in rank order.
ZeROStep ==
  /\ gathered = <<>> /\ gathered' = FlattenSeq([k \in 1..WorldSize |-> partitions[k - 1]])
  /\ UNCHANGED <<sizes, buckets, bucketOf, ready, partitions>>

DataParallelNext ==
  WrapDDP \/ WrapZeRO \/ ZeROStep \/ \E p \in DOMAIN sizes : MarkGradReady(p)

DataParallelSpec == DataParallelInit /\ [][DataParallelNext]_dataParallelVars
-----------------------------------------------------------------------------
DataParallelTypeOK ==
  /\ DOMAIN ready = DOMAIN buckets /\ DOMAIN bucketOf \in {{}, DOMAIN sizes}
  /\ \A b \in DOMAIN buckets : ready[b] <= Len(buckets[b]) + 1

(* Gradients: the buckets hold each parameter once, the last one first, and only a
   parameter too large by itself makes a bucket exceed the limit.  ZeRO: the ranks have
   the parameters in order, each one rank, and all are broadcast; a rank has less than
   its share before it is given another one. *)
DividedInOrder ==
  /\ buckets # <<>> =>
       /\ FlattenSeq(buckets) = Reverse(Params)
       /\ \A b \in DOMAIN buckets : Numel(buckets[b]) <= BucketCap \/ Len(buckets[b]) = 1
  /\ \A w \in Workers : partitions[w] # <<>> => Numel(Front(partitions[w])) < PartitionSize
  /\ gathered # <<>> => gathered = Params
=============================================================================
