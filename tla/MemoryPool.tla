------------------------------ MODULE MemoryPool ------------------------------
(***************************************************************************)
(* MemoryPool (aethelred/core/runtime.py).  Its operations hold _lock from *)
(* beginning to end, so each is one action.  add_ref() takes no lock; its  *)
(* increment is taken as one step as well.                                 *)
(*                                                                         *)
(* The application is disciplined: it frees a reference once and does not  *)
(* use a block afterwards.  A name of Blocks stands for a MemoryBlock      *)
(* object that the application or a free list still refers to.             *)
(*                                                                         *)
(* _allocate_new() does not keep the buffer whose address it returns, so   *)
(* the next buffer may be anywhere, also at the address of a live block:   *)
(* addresses are chosen freely.  Of _blocks only the keys are ever used.   *)
(*                                                                         *)
(* Requested sizes are already rounded to the alignment.  Abstracted: the  *)
(* contents, memory types and alignments, which a reused block need not    *)
(* have, the order of equal addresses in a sort, and the counters that     *)
(* only statistics read.                                                   *)
(***************************************************************************)
EXTENDS Integers, FiniteSets, Sequences, SequencesExt

CONSTANTS
  Blocks,         \* MemoryBlock objects
  SizeClasses,    \* SIZE_CLASSES, ascending
  Requests,       \* sizes that are asked for
  Addresses,      \* where a buffer may be
  MaxRefs         \* bound on the references to a block

ASSUME PoolAssumption ==
  /\ IsFiniteSet(Blocks)
  /\ SizeClasses \in Seq(Nat \ {0})
  /\ \A i, j \in DOMAIN SizeClasses : i < j => SizeClasses[i] < SizeClasses[j]
  /\ Requests \subseteq Nat
  /\ Addresses \subseteq Nat
  /\ MaxRefs \in Nat \ {0}

VARIABLES
  refs,        \* ref_count of the blocks the application holds, else 0
  size,        \* size of each block
  ptr,         \* address of each block
  asked,       \* history: the (aligned) size its holder asked for
  lists,       \* _free_lists in the order of the classes, then
               \* _large_free_blocks
  addressed,   \* the keys of _blocks
  usage,       \* current_usage: _total_allocated - _total_freed
  obtained     \* history: bytes got from the system and not given back

poolVars == <<refs, size, ptr, asked, lists, addressed, usage, obtained>>

Large == Len(SizeClasses) + 1
Slots == 1..Large

\* The first class a block of this size fits into.
Slot(bytes) ==
  1 + Cardinality({i \in DOMAIN SizeClasses : SizeClasses[i] < bytes})

Held == {b \in Blocks : refs[b] > 0}
Free == UNION {ToSet(lists[i]) : i \in Slots}
Unnamed == Blocks \ (Held \cup Free)

PoolInit ==
  /\ refs = [b \in Blocks |-> 0]
  /\ size = [b \in Blocks |-> 0]
  /\ ptr = [b \in Blocks |-> 0]
  /\ asked = [b \in Blocks |-> 0]
  /\ lists = [i \in Slots |-> <<>>]
  /\ addressed = {}
  /\ usage = 0
  /\ obtained = 0

\* Mutant: the search begins one class too low.
SearchLow(bytes) ==
  LET first == IF Slot(bytes) = 1 THEN 1 ELSE Slot(bytes) - 1
      lowest(i) == \A j \in first..(i - 1) : lists[j] = <<>>
  IN  {<<i, Len(lists[i])>> : i \in {i \in first..(Large - 1) :
                                       lists[i] # <<>> /\ lowest(i)}}

\* _find_free_block(): where the block is, as a set of at most one pair.  The
\* lowest class with a free block gives its last, whatever that block's size;
\* of the large blocks the first one that is large enough is taken.
FindFreeBlock(bytes) ==
  LET fits(i, n) == i # Large \/ size[lists[i][n]] >= bytes
      places == {p \in UNION {{i} \X DOMAIN lists[i] : i \in Slot(bytes)..Large} :
                   fits(p[1], p[2])}
      before(p, q) == \/ p[1] < q[1]
                      \/ p[1] = q[1] /\ IF p[1] = Large THEN p[2] < q[2]
                                                        ELSE p[2] > q[2]
  IN  {p \in places : \A q \in places : q = p \/ before(p, q)}

Reuse(bytes) ==
  \E p \in FindFreeBlock(bytes) :
    LET b == lists[p[1]][p[2]] IN
    /\ lists' = [lists EXCEPT ![p[1]] = RemoveAt(@, p[2])]
    /\ refs' = [refs EXCEPT ![b] = 1]
    /\ asked' = [asked EXCEPT ![b] = bytes]
    /\ usage' = usage + size[b]
    /\ UNCHANGED <<size, ptr, addressed, obtained>>

AllocateNew(bytes) ==
  /\ FindFreeBlock(bytes) = {}
  /\ \E b \in Unnamed, p \in Addresses :
       /\ refs' = [refs EXCEPT ![b] = 1]
       /\ size' = [size EXCEPT ![b] = bytes]
       /\ asked' = [asked EXCEPT ![b] = bytes]
       /\ ptr' = [ptr EXCEPT ![b] = p]
       /\ addressed' = addressed \cup {p}
  /\ usage' = usage + bytes
  /\ obtained' = obtained + bytes
  /\ UNCHANGED lists

Allocate == \E bytes \in Requests : Reuse(bytes) \/ AllocateNew(bytes)

AddRef(b) ==
  /\ refs[b] \in 1..(MaxRefs - 1)
  /\ refs' = [refs EXCEPT ![b] = @ + 1]
  /\ UNCHANGED <<size, ptr, asked, lists, addressed, usage, obtained>>

\* Mutant: the block goes back to the pool whoever else holds it.
FreeIgnoresRefs(b) ==
  /\ refs[b] > 0
  /\ refs' = [refs EXCEPT ![b] = @ - 1]
  /\ usage' = usage - size[b]
  /\ lists' = [lists EXCEPT ![Slot(size[b])] = Append(@, b)]
  /\ UNCHANGED <<size, ptr, asked, addressed, obtained>>

FreeBlock(b) ==
  /\ refs[b] > 0
  /\ refs' = [refs EXCEPT ![b] = @ - 1]
  /\ IF refs[b] = 1
       THEN /\ usage' = usage - size[b]
            /\ asked' = [asked EXCEPT ![b] = 0]
            /\ lists' = [lists EXCEPT ![Slot(size[b])] = Append(@, b)]
       ELSE UNCHANGED <<usage, asked, lists>>
  /\ UNCHANGED <<size, ptr, addressed, obtained>>

Ascending(q) == \A m, n \in DOMAIN q : m < n => ptr[q[m]] <= ptr[q[n]]

\* The free blocks in the order of their addresses.
ByAddress == {q \in SetToSeqs(Free) : Ascending(q)}

\* The n-th of them begins where the one before it ends.
Joined(q, n) == n > 1 /\ ptr[q[n - 1]] + size[q[n - 1]] = ptr[q[n]]

\* Those that are not merged into the one before.
Leaders(q) == {q[n] : n \in {n \in DOMAIN q : ~Joined(q, n)}}

\* What the n-th covers once those that follow without a gap are merged.
Covered(q, n) ==
  LET last == CHOOSE m \in n..Len(q) : /\ \A k \in (n + 1)..m : Joined(q, k)
                                       /\ m < Len(q) => ~Joined(q, m + 1)
  IN  ptr[q[last]] + size[q[last]] - ptr[q[n]]

\* Each list gets the blocks of its size, in the order of their addresses.
Refile(kept) ==
  \E new \in [Slots -> {q \in SetToAllKPermutations(Free) : Ascending(q)}] :
    /\ \A i \in Slots : ToSet(new[i]) = {b \in kept : Slot(size'[b]) = i}
    /\ lists' = new

\* The attributes of an object nobody refers to any more do not matter.
Discard(gone) == ptr' = [b \in Blocks |-> IF b \in gone THEN 0 ELSE ptr[b]]

\* Mutant: the merged block keeps the size of its first part.
DefragmentLoses ==
  \E q \in ByAddress :
    /\ size' = [b \in Blocks |-> IF b \in Free \ Leaders(q) THEN 0 ELSE size[b]]
    /\ Refile(Leaders(q))
    /\ Discard(Free \ Leaders(q))
    /\ UNCHANGED <<refs, asked, addressed, usage, obtained>>

Defragment ==
  \E q \in ByAddress :
    /\ size' = [b \in Blocks |->
                  IF b \notin Free THEN size[b]
                  ELSE IF b \notin Leaders(q) THEN 0
                  ELSE Covered(q, CHOOSE n \in DOMAIN q : q[n] = b)]
    /\ Refile(Leaders(q))
    /\ Discard(Free \ Leaders(q))
    /\ UNCHANGED <<refs, asked, addressed, usage, obtained>>

\* trim() pops the large blocks and then the classes downwards, each from the
\* end.  It stops where `del' raises: at the first block whose address is not,
\* or no longer, a key of _blocks.
Places == UNION {{i} \X DOMAIN lists[i] : i \in Slots}
PoppedBefore(p, r) == p[1] > r[1] \/ (p[1] = r[1] /\ p[2] > r[2])
Address(p) == ptr[lists[p[1]][p[2]]]

Raises(p) ==
  \/ Address(p) \notin addressed
  \/ \E r \in Places : PoppedBefore(r, p) /\ Address(r) = Address(p)

Popped ==
  {p \in Places : ~\E r \in Places : Raises(r) /\ PoppedBefore(r, p)}

Keep(popped) ==
  lists' = [i \in Slots |->
              SubSeq(lists[i], 1,
                     Cardinality({n \in DOMAIN lists[i] : <<i, n>> \notin popped}))]

\* Mutant: trim() counts what it releases as freed.
TrimAccounts(target) ==
  /\ target > 0 /\ usage > target
  /\ LET gone == {lists[p[1]][p[2]] : p \in Popped} IN
     /\ Keep(Popped)
     /\ addressed' = addressed \ {ptr[b] : b \in gone}
     /\ size' = [b \in Blocks |-> IF b \in gone THEN 0 ELSE size[b]]
     /\ obtained' = obtained - MapThenSumSet(LAMBDA b : size[b], gone)
     /\ usage' = usage - MapThenSumSet(LAMBDA b : size[b], gone)
     /\ Discard(gone)
  /\ UNCHANGED <<refs, asked>>

\* Nothing in the loop changes current_usage.  A target of None or 0 means
\* current_usage, and nothing is released.
Trim(target) ==
  /\ target > 0 /\ usage > target
  /\ LET gone == {lists[p[1]][p[2]] : p \in Popped} IN
     /\ Keep(Popped)
     /\ addressed' = addressed \ {ptr[b] : b \in gone}
     /\ size' = [b \in Blocks |-> IF b \in gone THEN 0 ELSE size[b]]
     /\ obtained' = obtained - MapThenSumSet(LAMBDA b : size[b], gone)
     /\ Discard(gone)
  /\ UNCHANGED <<refs, asked, usage>>

PoolNext ==
  \/ Allocate
  \/ \E b \in Blocks : AddRef(b) \/ FreeBlock(b)
  \/ Defragment
  \/ \E target \in Requests : Trim(target)

PoolSpec == PoolInit /\ [][PoolNext]_poolVars
-----------------------------------------------------------------------------
\* The part of the type invariant that needs no sums.
PoolTypes ==
  /\ refs \in [Blocks -> 0..MaxRefs]
  /\ size \in [Blocks -> Nat]
  /\ ptr \in [Blocks -> Addresses \cup {0}]
  /\ asked \in [Blocks -> Requests \cup {0}]
  /\ lists \in [Slots -> Seq(Blocks)]
  /\ addressed \subseteq Addresses
  /\ usage \in Int /\ obtained \in Int

(* The type invariant of the pool: _total_freed never overtakes
   _total_allocated, nor what was given back to the system what was got. *)
PoolTypeOK == PoolTypes /\ usage >= 0 /\ obtained >= 0

(* allocate() hands a block to one owner: a free block is in one list, once,
   and nobody holds it, through frees, merges and trims. *)
OneOwner ==
  \A i, j \in Slots : \A m \in DOMAIN lists[i], n \in DOMAIN lists[j] :
    /\ refs[lists[i][m]] = 0
    /\ lists[i][m] = lists[j][n] => i = j /\ m = n

(* What allocate() does guarantee of the size: the block is of the class that
   was asked for, or of a higher one, and a large one is large enough. *)
OfTheClass ==
  \A b \in Held : /\ Slot(size[b]) >= Slot(asked[b])
                  /\ Slot(asked[b]) = Large => size[b] >= asked[b]

Bytes(S) == MapThenSumSet(LAMBDA b : size[b], S)

(* current_usage is what the holders have, however blocks were merged, shared
   or reused on their way. *)
UsageExact == usage = Bytes(Held)

(* No memory is lost: what was got from the system is held, free, or was
   given back by trim(). *)
NothingLost == obtained = Bytes(Held \cup Free)

(* "assert blk.size >= 128" after allocate(128): a block has at least the
   size that was asked for. *)
LargeEnough == \A b \in Held : size[b] >= asked[b]
=============================================================================
