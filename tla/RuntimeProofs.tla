---------------------------- MODULE RuntimeProofs ----------------------------
(***************************************************************************)
(* For any callers, keys and sizes: the types of JITCache, that its two    *)
(* structures never part so far that a hit would fail, and that whoever is *)
(* handed a kernel is handed the one of its key.  For any commands,        *)
(* events, streams and threads: the types of Streams, that a stream        *)
(* implements OrderedExecution, and that whoever synchronizes finds the    *)
(* work done.  For every number of blocks and classes: a block of          *)
(* MemoryPool has at most one owner, and it is of the class that was asked *)
(* for; current_usage is what the holders have, and no memory is lost.     *)
(***************************************************************************)
EXTENDS MCDeviceRuntime, SequenceLemmas

(* The memory pool.  Who owns a block does not depend on sizes, so PoolInvariant says
   nothing of them but the class a free block is filed under.  Accounts, the second part,
   has the sizes and their sums. *)

Shape ==
  /\ refs \in [Blocks -> Nat]
  /\ size = [b \in Blocks |-> size[b]]
  /\ asked \in [Blocks -> Requests \cup {0}]
  /\ lists \in [Slots -> Seq(Blocks)]

\* A free block is in the list that its size belongs to.
Filed == \A i \in Slots : \A m \in DOMAIN lists[i] : Slot(size[lists[i][m]]) = i

PoolInvariant == Shape /\ OneOwner /\ Filed /\ OfTheClass
-----------------------------------------------------------------------------
(* Slot() names a list, for every size. *)
LEMMA SlotType ==
  /\ Slots \subseteq Nat /\ Large \in Nat
  /\ \A bytes : Slot(bytes) \in Slots
<1>1. Len(SizeClasses) \in Nat /\ DOMAIN SizeClasses = 1..Len(SizeClasses)
  BY PoolAssumption, LenProperties
<1>2. ASSUME NEW bytes PROVE Slot(bytes) \in Slots
  <2> DEFINE smaller == {i \in DOMAIN SizeClasses : SizeClasses[i] < bytes}
  <2>1. IsFiniteSet(1..Len(SizeClasses))
          /\ Cardinality(1..Len(SizeClasses)) = Len(SizeClasses)
    <3>1. 1 \in Int /\ Len(SizeClasses) \in Int
      BY <1>1
    <3>2. /\ IsFiniteSet(1..Len(SizeClasses))
          /\ Cardinality(1..Len(SizeClasses)) =
               IF 1 > Len(SizeClasses) THEN 0 ELSE Len(SizeClasses) - 1 + 1
      BY <3>1, FS_Interval, Zenon
    <3>3. QED
      BY <1>1, <3>2
  <2>2. Cardinality(smaller) \in 0..Len(SizeClasses)
    BY <1>1, <2>1, FS_Subset, FS_CardinalityType
  <2>3. QED
    BY <1>1, <2>2 DEF Slot, Slots, Large
<1>3. QED
  BY <1>1, <1>2 DEF Slots, Large

(* _find_free_block() gives a place in a list from the asked class upwards,
   and a large block only if it is large enough. *)
LEMMA Found ==
  ASSUME PoolInvariant, NEW bytes, NEW p \in FindFreeBlock(bytes)
  PROVE  /\ p[1] \in Slot(bytes)..Large /\ p[1] \in Slots
         /\ p[2] \in DOMAIN lists[p[1]]
         /\ p[1] = Large => size[lists[p[1]][p[2]]] >= bytes
<1>1. /\ p \in UNION {{i} \X DOMAIN lists[i] : i \in Slot(bytes)..Large}
      /\ p[1] # Large \/ size[lists[p[1]][p[2]]] >= bytes
  BY DEF FindFreeBlock
<1>2. PICK i \in Slot(bytes)..Large : p \in {i} \X DOMAIN lists[i]
  BY <1>1
<1>3. p[1] = i /\ p[2] \in DOMAIN lists[i]
  BY <1>2
<1>4. i \in Slots
  BY SlotType, PoolAssumption, LenProperties DEF Slots, Large
<1>5. QED
  BY <1>1, <1>3, <1>4

(* The elements of the lists are blocks nobody holds. *)
LEMMA Listed ==
  ASSUME PoolInvariant, NEW i \in Slots
  PROVE  /\ lists[i] \in Seq(Blocks)
         /\ Len(lists[i]) \in Nat /\ DOMAIN lists[i] = 1..Len(lists[i])
         /\ \A m \in DOMAIN lists[i] :
              /\ lists[i][m] \in Blocks /\ lists[i][m] \in Free
              /\ refs[lists[i][m]] = 0
<1>1. lists[i] \in Seq(Blocks)
  BY DEF PoolInvariant, Shape
<1>2. Len(lists[i]) \in Nat /\ DOMAIN lists[i] = 1..Len(lists[i])
  BY <1>1, LenProperties
<1>3. ASSUME NEW m \in DOMAIN lists[i]
      PROVE  /\ lists[i][m] \in Blocks /\ lists[i][m] \in Free
             /\ refs[lists[i][m]] = 0
  BY <1>1, <1>2, ElementOfSeq DEF PoolInvariant, OneOwner, Free, ToSet
<1>4. QED
  BY <1>1, <1>2, <1>3

LEMMA Start == PoolInit => PoolInvariant
<1> SUFFICES ASSUME PoolInit PROVE PoolInvariant
  OBVIOUS
<1>1. Shape
  BY EmptySeq DEF PoolInit, Shape
<1>2. \A i \in Slots : DOMAIN lists[i] = {}
  BY DEF PoolInit
<1>3. OneOwner /\ Filed
  BY <1>2 DEF OneOwner, Filed
<1>4. OfTheClass
  BY DEF PoolInit, OfTheClass, Held
<1>5. QED
  BY <1>1, <1>3, <1>4 DEF PoolInvariant

LEMMA ReuseKeeps ==
  ASSUME PoolInvariant, NEW bytes \in Requests, Reuse(bytes)
  PROVE  PoolInvariant'
<1>1. PICK p \in FindFreeBlock(bytes) :
        /\ lists' = [lists EXCEPT ![p[1]] = RemoveAt(@, p[2])]
        /\ refs' = [refs EXCEPT ![lists[p[1]][p[2]]] = 1]
        /\ asked' = [asked EXCEPT ![lists[p[1]][p[2]]] = bytes]
        /\ size' = size
  BY DEF Reuse
<1> DEFINE from == p[1]
           n == p[2]
           block == lists[from][n]
<1>2. /\ from \in Slot(bytes)..Large /\ from \in Slots
      /\ n \in DOMAIN lists[from]
      /\ from = Large => size[block] >= bytes
  BY Found
<1>3. block \in Blocks /\ refs[block] = 0 /\ n \in 1..Len(lists[from])
  BY <1>2, Listed
<1>4. Slot(size[block]) = from
  BY <1>2 DEF PoolInvariant, Filed
<1> HIDE DEF from, n, block
<1>5. /\ lists' = [lists EXCEPT ![from] = RemoveAt(lists[from], n)]
      /\ refs' = [refs EXCEPT ![block] = 1]
      /\ asked' = [asked EXCEPT ![block] = bytes]
  BY <1>1 DEF from, n, block
<1>6. /\ RemoveAt(lists[from], n) \in Seq(Blocks)
      /\ DOMAIN RemoveAt(lists[from], n) = 1..(Len(lists[from]) - 1)
      /\ \A j \in 1..(Len(lists[from]) - 1) :
           RemoveAt(lists[from], n)[j] =
             IF j < n THEN lists[from][j] ELSE lists[from][j + 1]
  BY <1>2, <1>3, Listed, RemoveAtKeeps
<1>7. Shape'
  <2> DEFINE rest == RemoveAt(lists[from], n)
  <2>1. rest \in Seq(Blocks) /\ lists' = [lists EXCEPT ![from] = rest]
    BY <1>5, <1>6
  <2> HIDE DEF rest
  <2>2. lists' \in [Slots -> Seq(Blocks)]
    BY <1>2, <2>1 DEF PoolInvariant, Shape
  <2>3. /\ refs' \in [Blocks -> Nat]
        /\ size' = [b \in Blocks |-> size'[b]]
        /\ asked' \in [Blocks -> Requests \cup {0}]
    <3>1. refs' \in [Blocks -> Nat]
      BY <1>3, <1>5 DEF PoolInvariant, Shape
    <3>2. size' = [b \in Blocks |-> size'[b]]
      BY <1>1, Zenon DEF PoolInvariant, Shape
    <3>3. asked' \in [Blocks -> Requests \cup {0}]
      BY <1>5 DEF PoolInvariant, Shape
    <3>4. QED
      BY <3>1, <3>2, <3>3
  <2>4. QED
    BY <2>2, <2>3 DEF Shape
<1> DEFINE was(i, j) == IF i = from /\ j >= n THEN j + 1 ELSE j
<1>8. ASSUME NEW i \in Slots, NEW j \in DOMAIN lists'[i]
      PROVE  /\ j \in Nat
             /\ was(i, j) \in DOMAIN lists[i]
             /\ lists'[i][j] = lists[i][was(i, j)]
             /\ lists'[i][j] # block
  <2>0. Len(lists[i]) \in Nat /\ DOMAIN lists[i] = 1..Len(lists[i])
    BY Listed
  <2>1. CASE i = from
    <3>1. lists'[i] = RemoveAt(lists[from], n)
      BY <1>2, <1>5, <2>1 DEF PoolInvariant, Shape
    <3>2. j \in 1..(Len(lists[i]) - 1)
      BY <1>6, <2>1, <3>1
    <3>3. was(i, j) \in DOMAIN lists[i] /\ was(i, j) # n
      BY <1>3, <2>0, <2>1, <3>2
    <3>4. lists'[i][j] = lists[i][was(i, j)]
      BY <1>3, <1>6, <2>0, <2>1, <3>1, <3>2
    <3>5. lists[i][was(i, j)] # block
      BY <1>2, <2>1, <3>3 DEF block, PoolInvariant, OneOwner
    <3>6. QED
      BY <3>2, <3>3, <3>4, <3>5
  <2>2. CASE i # from
    <3>1. lists'[i] = lists[i]
      BY <1>5, <2>2 DEF PoolInvariant, Shape
    <3>2. lists[i][j] # block
      BY <1>2, <2>2, <3>1 DEF block, PoolInvariant, OneOwner
    <3>3. QED
      BY <2>0, <2>2, <3>1, <3>2
  <2>3. QED
    BY <2>1, <2>2
<1>9. ASSUME NEW i \in Slots, NEW j \in Slots,
             NEW m \in DOMAIN lists'[i], NEW k \in DOMAIN lists'[j]
      PROVE  /\ refs'[lists'[i][m]] = 0
             /\ lists'[i][m] = lists'[j][k] => i = j /\ m = k
  <2>1. refs'[lists'[i][m]] = refs[lists[i][was(i, m)]]
    BY <1>5, <1>8, Listed DEF PoolInvariant, Shape
  <2>2. refs[lists[i][was(i, m)]] = 0
    BY <1>8, Listed
  <2>3. ASSUME lists'[i][m] = lists'[j][k]
        PROVE  i = j /\ m = k
    <3>1. i = j /\ was(i, m) = was(j, k)
      BY <1>8, <2>3 DEF PoolInvariant, OneOwner
    <3>2. m \in Nat /\ k \in Nat
      BY <1>8
    <3>3. n \in Nat
      BY <1>2, <1>3, Listed
    <3>4. QED
      BY <3>1, <3>2, <3>3
  <2>4. QED
    BY <2>1, <2>2, <2>3
<1>10. Filed'
  BY <1>1, <1>8 DEF PoolInvariant, Filed
<1>11. OfTheClass'
  <2>1. Slot(bytes) \in Nat /\ Large \in Nat /\ from \in Nat
    BY SlotType, <1>2
  <2>2. ASSUME NEW b \in Blocks, refs'[b] > 0
        PROVE  /\ Slot(size[b]) >= Slot(asked'[b])
               /\ Slot(asked'[b]) = Large => size[b] >= asked'[b]
    <3>1. CASE b = block
      <4>1. asked'[b] = bytes
        BY <1>3, <1>5, <3>1 DEF PoolInvariant, Shape
      <4>2. QED
        BY <1>2, <1>4, <2>1, <3>1, <4>1 DEF block
    <3>2. CASE b # block
      BY <1>5, <2>2, <3>2 DEF PoolInvariant, Shape, OfTheClass, Held
    <3>3. QED
      BY <3>1, <3>2
  <2>3. QED
    BY <1>1, <2>2 DEF OfTheClass, Held
<1>12. QED
  BY <1>7, <1>9, <1>10, <1>11 DEF PoolInvariant, OneOwner

LEMMA AllocateNewKeeps ==
  ASSUME PoolInvariant, NEW bytes \in Requests, AllocateNew(bytes)
  PROVE  PoolInvariant'
<1>1. PICK b \in Unnamed : /\ refs' = [refs EXCEPT ![b] = 1]
                           /\ size' = [size EXCEPT ![b] = bytes]
                           /\ asked' = [asked EXCEPT ![b] = bytes]
                           /\ lists' = lists
  BY DEF AllocateNew
<1>2. b \in Blocks /\ b \notin Free
  BY DEF Unnamed
<1>3. \A i \in Slots : \A m \in DOMAIN lists[i] :
        lists[i][m] \in Blocks /\ lists[i][m] # b
  BY <1>2, Listed
<1>4. Shape'
  BY <1>1, <1>2 DEF PoolInvariant, Shape
<1>5. OneOwner'
  BY <1>1, <1>3 DEF PoolInvariant, Shape, OneOwner
<1>6. Filed'
  BY <1>1, <1>3 DEF PoolInvariant, Shape, Filed
<1>7. OfTheClass'
  <2>1. bytes \in Nat /\ Slot(bytes) \in Nat
    BY SlotType, PoolAssumption
  <2>2. ASSUME NEW c \in Blocks, refs'[c] > 0
        PROVE  /\ Slot(size'[c]) >= Slot(asked'[c])
               /\ Slot(asked'[c]) = Large => size'[c] >= asked'[c]
    <3>1. CASE c = b
      <4>1. size'[c] = bytes /\ asked'[c] = bytes
        BY <1>1, <1>2, <3>1 DEF PoolInvariant, Shape
      <4>2. QED
        BY <2>1, <4>1
    <3>2. CASE c # b
      BY <1>1, <2>2, <3>2 DEF PoolInvariant, Shape, OfTheClass, Held
    <3>3. QED
      BY <3>1, <3>2
  <2>3. QED
    BY <2>2 DEF OfTheClass, Held
<1>8. QED
  BY <1>4, <1>5, <1>6, <1>7 DEF PoolInvariant

LEMMA AddRefKeeps ==
  ASSUME PoolInvariant, NEW b \in Blocks, AddRef(b)
  PROVE  PoolInvariant'
<1>1. /\ refs[b] \in 1..(MaxRefs - 1) /\ refs' = [refs EXCEPT ![b] = @ + 1]
      /\ size' = size /\ asked' = asked /\ lists' = lists
  BY DEF AddRef
<1>2. refs[b] \in Nat /\ refs[b] > 0
  BY <1>1 DEF PoolInvariant, Shape
<1>3. Shape'
  BY <1>1, <1>2 DEF PoolInvariant, Shape
<1>4. OneOwner'
  BY <1>1, <1>2, Listed DEF PoolInvariant, Shape, OneOwner
<1>5. Filed' /\ OfTheClass'
  BY <1>1, <1>2 DEF PoolInvariant, Shape, Filed, OfTheClass, Held
<1>6. QED
  BY <1>3, <1>4, <1>5 DEF PoolInvariant

LEMMA FreeBlockKeeps ==
  ASSUME PoolInvariant, NEW b \in Blocks, FreeBlock(b)
  PROVE  PoolInvariant'
<1>1. /\ refs[b] > 0 /\ refs' = [refs EXCEPT ![b] = @ - 1]
      /\ size' = size
  BY DEF FreeBlock
<1>2. refs[b] \in Nat \ {0}
  BY <1>1 DEF PoolInvariant, Shape
<1>3. \A i \in Slots : \A m \in DOMAIN lists[i] :
        lists[i][m] # b /\ lists[i][m] \in Blocks /\ refs'[lists[i][m]] = 0
  BY <1>1, <1>2, Listed DEF PoolInvariant, Shape
<1>4. CASE refs[b] # 1
  <2>1. asked' = asked /\ lists' = lists
    BY <1>4 DEF FreeBlock
  <2>2. Shape'
    BY <1>1, <1>2, <2>1 DEF PoolInvariant, Shape
  <2>3. OneOwner'
    BY <1>3, <2>1 DEF PoolInvariant, OneOwner
  <2>4. Filed' /\ OfTheClass'
    BY <1>1, <1>2, <2>1 DEF PoolInvariant, Shape, Filed, OfTheClass, Held
  <2>5. QED
    BY <2>2, <2>3, <2>4 DEF PoolInvariant
<1>5. CASE refs[b] = 1
  <2> DEFINE to == Slot(size[b])
             longer == Append(lists[to], b)
  <2>1. /\ asked' = [asked EXCEPT ![b] = 0]
        /\ lists' = [lists EXCEPT ![to] = longer]
    BY <1>5 DEF FreeBlock
  <2>2. to \in Slots
    BY SlotType
  <2>3. /\ longer \in Seq(Blocks)
        /\ Len(lists[to]) \in Nat /\ DOMAIN lists[to] = 1..Len(lists[to])
        /\ Len(longer) = Len(lists[to]) + 1
        /\ \A m \in 1..Len(lists[to]) : longer[m] = lists[to][m]
        /\ longer[Len(lists[to]) + 1] = b
    BY <2>2, Listed, AppendProperties
  <2> HIDE DEF longer
  <2>4. DOMAIN longer = 1..(Len(lists[to]) + 1)
    BY <2>3, LenProperties
  <2>5. refs'[b] = 0
    BY <1>1, <1>5 DEF PoolInvariant, Shape
  <2>6. /\ refs' \in [Blocks -> Nat]
        /\ size' = [c \in Blocks |-> size'[c]]
        /\ asked' \in [Blocks -> Requests \cup {0}]
    <3>1. refs' \in [Blocks -> Nat]
      BY <1>1, <1>2 DEF PoolInvariant, Shape
    <3>2. size' = [c \in Blocks |-> size'[c]]
      BY <1>1, Zenon DEF PoolInvariant, Shape
    <3>3. asked' \in [Blocks -> Requests \cup {0}]
      BY <2>1 DEF PoolInvariant, Shape
    <3>4. QED
      BY <3>1, <3>2, <3>3
  <2> HIDE DEF to
  <2>7. lists' \in [Slots -> Seq(Blocks)] /\ lists'[to] = longer
        /\ \A i \in Slots \ {to} : lists'[i] = lists[i]
    BY <2>1, <2>2, <2>3 DEF PoolInvariant, Shape
  <2>8. ASSUME NEW i \in Slots, NEW m \in DOMAIN lists'[i]
        PROVE  \/ /\ m \in DOMAIN lists[i] /\ lists'[i][m] = lists[i][m]
                  /\ lists'[i][m] # b /\ lists'[i][m] \in Blocks
               \/ i = to /\ m = Len(lists[to]) + 1 /\ lists'[i][m] = b
    <3>1. CASE i # to
      BY <1>3, <2>7, <3>1
    <3>2. CASE i = to
      <4>1. m \in 1..Len(lists[to]) \/ m = Len(lists[to]) + 1
        BY <2>3, <2>4, <2>7, <3>2
      <4>2. QED
        BY <1>3, <2>3, <2>7, <3>2, <4>1
    <3>3. QED
      BY <3>1, <3>2
  <2>9. OneOwner'
    <3>1. ASSUME NEW i \in Slots, NEW j \in Slots,
                 NEW m \in DOMAIN lists'[i], NEW n \in DOMAIN lists'[j]
          PROVE  /\ refs'[lists'[i][m]] = 0
                 /\ lists'[i][m] = lists'[j][n] => i = j /\ m = n
      BY <1>3, <2>5, <2>8 DEF PoolInvariant, OneOwner
    <3>2. QED
      BY <3>1 DEF OneOwner
  <2>10. Filed'
    <3>1. ASSUME NEW i \in Slots, NEW m \in DOMAIN lists'[i]
          PROVE  Slot(size[lists'[i][m]]) = i
      BY <2>8 DEF PoolInvariant, Filed, to
    <3>2. QED
      BY <1>1, <3>1 DEF Filed
  <2>11. OfTheClass'
    BY <1>1, <1>5, <2>1 DEF PoolInvariant, Shape, OfTheClass, Held
  <2>12. QED
    BY <2>6, <2>7, <2>9, <2>10, <2>11 DEF PoolInvariant, Shape
<1>6. QED
  BY <1>4, <1>5

LEMMA DefragmentKeeps ==
  ASSUME PoolInvariant, Defragment
  PROVE  PoolInvariant'
<1>1. PICK q \in ByAddress :
        /\ size' = [b \in Blocks |->
                      IF b \notin Free THEN size[b]
                      ELSE IF b \notin Leaders(q) THEN 0
                      ELSE Covered(q, CHOOSE n \in DOMAIN q : q[n] = b)]
        /\ Refile(Leaders(q))
        /\ refs' = refs /\ asked' = asked
  BY DEF Defragment
<1>2. /\ lists' \in [Slots -> {s \in SetToAllKPermutations(Free) : Ascending(s)}]
      /\ \A i \in Slots :
           ToSet(lists'[i]) = {b \in Leaders(q) : Slot(size'[b]) = i}
  BY <1>1 DEF Refile
<1>3. Free \subseteq Blocks /\ \A b \in Free : refs[b] = 0
  <2>1. ASSUME NEW b \in Free PROVE b \in Blocks /\ refs[b] = 0
    <3>1. PICK i \in Slots : b \in ToSet(lists[i])
      BY DEF Free
    <3>2. PICK m \in DOMAIN lists[i] : b = lists[i][m]
      BY <3>1 DEF ToSet
    <3>3. QED
      BY <3>2, Listed
  <2>2. QED
    BY <2>1
<1>4. IsFiniteSet(Free)
  BY <1>3, PoolAssumption, FS_Subset
<1>5. ASSUME NEW i \in Slots
      PROVE  /\ lists'[i] \in Seq(Free)
             /\ \A m, n \in DOMAIN lists'[i] : lists'[i][m] = lists'[i][n] => m = n
             /\ \A m \in DOMAIN lists'[i] : /\ lists'[i][m] \in Free
                                            /\ Slot(size'[lists'[i][m]]) = i
  <2>1. lists'[i] \in SetToAllKPermutations(Free)
    BY <1>2
  <2>2. /\ lists'[i] \in Seq(Free)
        /\ \A m, n \in DOMAIN lists'[i] : lists'[i][m] = lists'[i][n] => m = n
    BY <1>4, <2>1, Permutation
  <2>3. ASSUME NEW m \in DOMAIN lists'[i]
        PROVE  lists'[i][m] \in Free /\ Slot(size'[lists'[i][m]]) = i
    <3>1. lists'[i][m] \in ToSet(lists'[i])
      BY DEF ToSet
    <3>2. m \in 1..Len(lists'[i])
      BY <2>2, LenProperties
    <3>3. QED
      BY <1>2, <2>2, <3>1, <3>2, ElementOfSeq
  <2>4. QED
    BY <2>2, <2>3
<1>6. Shape'
  <2>1. \A i \in Slots : lists'[i] \in Seq(Blocks)
    BY <1>3, <1>5, SeqMonotonic
  <2>2. lists' \in [Slots -> Seq(Blocks)]
    BY <1>2, <2>1
  <2>3. size' = [b \in Blocks |-> size'[b]]
    BY <1>1
  <2>4. QED
    BY <1>1, <2>2, <2>3 DEF PoolInvariant, Shape
<1>7. OneOwner' /\ Filed'
  <2>1. ASSUME NEW i \in Slots, NEW j \in Slots,
               NEW m \in DOMAIN lists'[i], NEW n \in DOMAIN lists'[j]
        PROVE  /\ refs'[lists'[i][m]] = 0
               /\ lists'[i][m] = lists'[j][n] => i = j /\ m = n
    <3>1. /\ lists'[i][m] \in Free /\ Slot(size'[lists'[i][m]]) = i
          /\ Slot(size'[lists'[j][n]]) = j
      BY <1>5
    <3>2. refs'[lists'[i][m]] = 0
      BY <1>1, <1>3, <3>1
    <3>3. ASSUME lists'[i][m] = lists'[j][n]
          PROVE  i = j /\ m = n
      <4>1. i = j
        BY <3>1, <3>3
      <4>2. QED
        BY <1>5, <3>3, <4>1
    <3>4. QED
      BY <3>2, <3>3
  <2>2. OneOwner'
    BY <2>1 DEF OneOwner
  <2>3. Filed'
    BY <1>5 DEF Filed
  <2>4. QED
    BY <2>2, <2>3
<1>8. OfTheClass'
  <2>1. \A b \in Blocks : refs[b] > 0 => size'[b] = size[b]
    BY <1>1, <1>3
  <2>2. QED
    BY <1>1, <2>1 DEF PoolInvariant, OfTheClass, Held
<1>9. QED
  BY <1>6, <1>7, <1>8 DEF PoolInvariant

(* trim() takes blocks from the ends of the lists: what stays is in front ... *)
LEMMA StayInFront ==
  ASSUME PoolInvariant, NEW i \in Slots
  PROVE  LET stay == {n \in DOMAIN lists[i] : <<i, n>> \notin Popped}
         IN  /\ Cardinality(stay) \in 0..Len(lists[i])
             /\ 1..Cardinality(stay) \subseteq stay
<1> DEFINE stay == {n \in DOMAIN lists[i] : <<i, n>> \notin Popped}
           k == Cardinality(stay)
<1>1. /\ lists[i] \in Seq(Blocks) /\ Len(lists[i]) \in Nat
      /\ DOMAIN lists[i] = 1..Len(lists[i])
  BY Listed
<1>2. \A m \in DOMAIN lists[i] : <<i, m>> \in Places
  BY DEF Places
<1>3. ASSUME NEW m \in stay, NEW n \in 1..m
      PROVE  n \in stay
  <2>1. m \in 1..Len(lists[i]) /\ n \in DOMAIN lists[i]
    BY <1>1
  <2>2. PICK r \in Places : Raises(r) /\ PoppedBefore(r, <<i, m>>)
    BY <1>2 DEF Popped
  <2>3. r[2] \in Nat
    <3>1. PICK j \in Slots : r \in {j} \X DOMAIN lists[j]
      BY DEF Places
    <3>2. QED
      BY <3>1, Listed
  <2>4. PoppedBefore(r, <<i, n>>)
    BY <2>1, <2>2, <2>3 DEF PoppedBefore
  <2>5. QED
    BY <1>2, <2>1, <2>2, <2>4 DEF Popped
<1>4. k \in 0..Len(lists[i]) /\ 1..k \subseteq stay
  <2>1. stay \in SUBSET (1..Len(lists[i]))
    BY <1>1
  <2> HIDE DEF stay
  <2>2. QED
    BY <1>1, <1>3, <2>1, Initial
<1>5. QED
  BY <1>4

(* ... and is none of those that go. *)
LEMMA KeptByTrim ==
  ASSUME PoolInvariant, Keep(Popped), NEW i \in Slots
  PROVE  /\ lists'[i] \in Seq(Blocks)
         /\ \A m \in DOMAIN lists'[i] :
              /\ m \in DOMAIN lists[i] /\ lists'[i][m] = lists[i][m]
              /\ <<i, m>> \notin Popped
<1> DEFINE stay == {n \in DOMAIN lists[i] : <<i, n>> \notin Popped}
           k == Cardinality(stay)
<1>1. lists'[i] = SubSeq(lists[i], 1, k)
  BY DEF Keep
<1>2. /\ lists[i] \in Seq(Blocks) /\ Len(lists[i]) \in Nat
      /\ DOMAIN lists[i] = 1..Len(lists[i])
  BY Listed
<1>5. k \in 0..Len(lists[i]) /\ 1..k \subseteq stay
  BY StayInFront
<1>6. \A m \in 1..k : m \in DOMAIN lists[i] /\ <<i, m>> \notin Popped
  BY <1>5
<1> HIDE DEF stay, k
<1>7. /\ SubSeq(lists[i], 1, k) \in Seq(Blocks)
      /\ Len(SubSeq(lists[i], 1, k)) = k
      /\ \A m \in 1..k : SubSeq(lists[i], 1, k)[m] = lists[i][m]
  <2>1. \A m \in 1..k : lists[i][m] \in Blocks
    BY <1>2, <1>6, ElementOfSeq
  <2>2. k \in Nat
    BY <1>2, <1>5
  <2>3. QED
    BY <2>1, <2>2, SubSeqProperties, Z3
<1>8. DOMAIN lists'[i] = 1..k
  BY <1>1, <1>7, LenProperties
<1>9. QED
  BY <1>1, <1>6, <1>7, <1>8

LEMMA TrimKeeps ==
  ASSUME PoolInvariant, NEW target, Trim(target)
  PROVE  PoolInvariant'
<1> DEFINE gone == {lists[p[1]][p[2]] : p \in Popped}
<1>1. /\ Keep(Popped)
      /\ size' = [b \in Blocks |-> IF b \in gone THEN 0 ELSE size[b]]
      /\ refs' = refs /\ asked' = asked
  BY DEF Trim
<1>2. \A p \in Popped : /\ p[1] \in Slots /\ p[2] \in DOMAIN lists[p[1]]
                        /\ p = <<p[1], p[2]>>
  <2>1. ASSUME NEW p \in Popped
        PROVE  /\ p[1] \in Slots /\ p[2] \in DOMAIN lists[p[1]]
               /\ p = <<p[1], p[2]>>
    <3>1. PICK j \in Slots : p \in {j} \X DOMAIN lists[j]
      BY DEF Popped, Places
    <3>2. QED
      BY <3>1
  <2>2. QED
    BY <2>1
<1>3. \A b \in gone : refs[b] = 0
  BY <1>2, Listed
<1>4. ASSUME NEW i \in Slots, NEW m \in DOMAIN lists'[i]
      PROVE  /\ m \in DOMAIN lists[i] /\ lists'[i][m] = lists[i][m]
             /\ lists'[i][m] \in Blocks /\ lists'[i][m] \notin gone
  <2>1. /\ m \in DOMAIN lists[i] /\ lists'[i][m] = lists[i][m]
        /\ <<i, m>> \notin Popped
    BY <1>1, KeptByTrim
  <2>2. lists[i][m] \notin gone
    <3>1. ASSUME NEW p \in Popped, lists[i][m] = lists[p[1]][p[2]]
          PROVE  FALSE
      <4>1. i = p[1] /\ m = p[2]
        BY <1>2, <2>1, <3>1 DEF PoolInvariant, OneOwner
      <4>2. QED
        BY <1>2, <2>1, <4>1
    <3>2. QED
      BY <3>1
  <2>3. QED
    BY <2>1, <2>2, Listed
<1> HIDE DEF gone
<1>5. Shape'
  <2>1. \A i \in Slots : lists'[i] \in Seq(Blocks)
    BY <1>1, KeptByTrim
  <2>2. lists' \in [Slots -> Seq(Blocks)]
    BY <1>1, <2>1 DEF Keep
  <2>3. size' = [b \in Blocks |-> size'[b]]
    BY <1>1
  <2>4. QED
    BY <1>1, <2>2, <2>3 DEF PoolInvariant, Shape
<1>6. OneOwner'
  <2>1. ASSUME NEW i \in Slots, NEW j \in Slots,
               NEW m \in DOMAIN lists'[i], NEW n \in DOMAIN lists'[j]
        PROVE  /\ refs'[lists'[i][m]] = 0
               /\ lists'[i][m] = lists'[j][n] => i = j /\ m = n
    BY <1>1, <1>4 DEF PoolInvariant, OneOwner
  <2>2. QED
    BY <2>1 DEF OneOwner
<1>7. Filed'
  <2>1. ASSUME NEW i \in Slots, NEW m \in DOMAIN lists'[i]
        PROVE  Slot(size'[lists'[i][m]]) = i
    <3>1. size'[lists'[i][m]] = size[lists[i][m]]
      BY <1>1, <1>4
    <3>2. QED
      BY <1>4, <3>1 DEF PoolInvariant, Filed
  <2>2. QED
    BY <2>1 DEF Filed
<1>8. OfTheClass'
  <2>1. \A b \in Blocks : refs[b] > 0 => size'[b] = size[b]
    BY <1>1, <1>3 DEF PoolInvariant, Shape
  <2>2. QED
    BY <1>1, <2>1 DEF PoolInvariant, OfTheClass, Held
<1>9. QED
  BY <1>5, <1>6, <1>7, <1>8 DEF PoolInvariant

LEMMA PoolStep == PoolInvariant /\ [PoolNext]_poolVars => PoolInvariant'
<1> SUFFICES ASSUME PoolInvariant, [PoolNext]_poolVars
             PROVE  PoolInvariant'
  OBVIOUS
<1>1. CASE Allocate
  BY <1>1, ReuseKeeps, AllocateNewKeeps DEF Allocate
<1>2. CASE \E b \in Blocks : AddRef(b) \/ FreeBlock(b)
  BY <1>2, AddRefKeeps, FreeBlockKeeps
<1>3. CASE Defragment
  BY <1>3, DefragmentKeeps
<1>4. CASE \E target \in Requests : Trim(target)
  BY <1>4, TrimKeeps
<1>5. CASE UNCHANGED poolVars
  <2>1. refs' = refs /\ size' = size /\ asked' = asked /\ lists' = lists
    BY <1>5 DEF poolVars
  <2>2. Shape' /\ OneOwner'
    BY <2>1 DEF PoolInvariant, Shape, OneOwner
  <2>3. Filed' /\ OfTheClass'
    BY <2>1 DEF PoolInvariant, Filed, OfTheClass, Held
  <2>4. QED
    BY <2>2, <2>3 DEF PoolInvariant
<1>6. QED
  BY <1>1, <1>2, <1>3, <1>4, <1>5 DEF PoolNext

-----------------------------------------------------------------------------
(* The accounts: what is used, and what was got from the system. *)

\* The types and the two sums.
Accounts == PoolTypes /\ UsageExact /\ NothingLost

\* Who has a block: nobody, a holder, or the pool.
LEMMA Shares ==
  ASSUME PoolInvariant
  PROVE  /\ Held \subseteq Blocks /\ Free \subseteq Blocks /\ Held \cap Free = {}
         /\ IsFiniteSet(Held) /\ IsFiniteSet(Free) /\ IsFiniteSet(Held \cup Free)
<1>1. Held \subseteq Blocks
  BY DEF Held
<1>2. ASSUME NEW b \in Free PROVE b \in Blocks /\ refs[b] = 0
  <2>1. PICK i \in Slots : b \in ToSet(lists[i])
    BY <1>2 DEF Free
  <2>2. PICK m \in DOMAIN lists[i] : b = lists[i][m]
    BY <2>1 DEF ToSet
  <2>3. QED
    BY <2>2, Listed
<1>3. Held \cap Free = {}
  BY <1>2 DEF Held
<1>4. IsFiniteSet(Held) /\ IsFiniteSet(Free)
  BY <1>1, <1>2, PoolAssumption, FS_Subset
<1>5. QED
  BY <1>1, <1>2, <1>3, <1>4, FS_Union

(* A chain of blocks without gaps: what its leader covers once they are merged. *)
Chain(q, l, m) ==
  /\ \A k \in (l + 1)..m : Joined(q, k)
  /\ m < Len(q) => ~Joined(q, m + 1)

LEMMA CoveredChain ==
  ASSUME NEW q, Len(q) \in Nat, NEW l \in 1..Len(q), NEW m \in l..Len(q), Chain(q, l, m)
  PROVE  Covered(q, l) = ptr[q[m]] + size[q[m]] - ptr[q[l]]
<1> DEFINE last == CHOOSE n \in l..Len(q) : Chain(q, l, n)
<1>1. Covered(q, l) = ptr[q[last]] + size[q[last]] - ptr[q[l]]
  BY DEF Covered, Chain
<1>2. last \in l..Len(q) /\ Chain(q, l, last)
  OBVIOUS
<1> HIDE DEF last
<1>3. last = m
  <2>1. ASSUME NEW a \in l..Len(q), NEW b \in l..Len(q), Chain(q, l, a), Chain(q, l, b), a < b
        PROVE  FALSE
    <3>1. a + 1 \in (l + 1)..b /\ a < Len(q)
      BY <2>1
    <3>2. QED
      BY <2>1, <3>1 DEF Chain
  <2>2. ~(last < m) /\ ~(m < last)
    BY <1>2, <2>1
  <2>3. QED
    BY <1>2, <2>2
<1>4. QED
  BY <1>1, <1>3

\* A chain ends somewhere.
LEMMA ChainEnds ==
  ASSUME NEW q, Len(q) \in Nat, NEW l \in 1..Len(q)
  PROVE  \E m \in l..Len(q) : Chain(q, l, m)
<1> DEFINE T == {m \in 0..Len(q) : m >= l /\ \A k \in (l + 1)..m : Joined(q, k)}
<1>1. T \in SUBSET (0..Len(q)) /\ l \in T
  OBVIOUS
<1>2. PICK m : m \in T /\ \A y \in T : m >= y
  <2> HIDE DEF T
  <2>1. QED
    BY <1>1, Greatest
<1>3. ASSUME m < Len(q), Joined(q, m + 1) PROVE FALSE
  <2>1. \A k \in (l + 1)..(m + 1) : k \in (l + 1)..m \/ k = m + 1
    BY <1>2
  <2>2. m + 1 \in T
    BY <1>2, <1>3, <2>1
  <2>3. QED
    BY <1>2, <2>2
<1>4. QED
  BY <1>2, <1>3 DEF Chain

\* ... and begins somewhere.
LEMMA ChainBegins ==
  ASSUME NEW q, Len(q) \in Nat, NEW n \in 1..Len(q)
  PROVE  \E l \in 1..n : ~Joined(q, l) /\ \A k \in (l + 1)..n : Joined(q, k)
<1> DEFINE T == {l \in 0..n : l >= 1 /\ ~Joined(q, l)}
<1>1. T \in SUBSET (0..n) /\ 1 \in T /\ n \in Nat
  BY DEF Joined
<1>2. PICK l : l \in T /\ \A y \in T : l >= y
  <2> HIDE DEF T
  <2>1. QED
    BY <1>1, Greatest
<1>3. QED
  BY <1>2

(* The free blocks in the order of their addresses are all of them, once. *)
LEMMA Ordered ==
  ASSUME PoolInvariant, NEW q \in ByAddress
  PROVE  /\ q \in [1..Len(q) -> Free] /\ Len(q) \in Nat /\ DOMAIN q = 1..Len(q)
         /\ \A m, n \in DOMAIN q : q[m] = q[n] => m = n
         /\ Free = {q[n] : n \in 1..Len(q)}
         /\ Ascending(q)
<1> DEFINE C == Cardinality(Free)
<1>1. IsFiniteSet(Free) /\ C \in Nat
  BY Shares, FS_CardinalityType
<1>2. q \in [1..C -> Free] /\ (\A i, j \in 1..C : i # j => q[i] # q[j]) /\ Ascending(q)
  BY DEF ByAddress, SetToSeqs
<1>3. IsFiniteSet(1..C) /\ Cardinality(1..C) = C
  BY <1>1, FS_Interval
<1>4. q \in Injection(1..C, Free)
  BY <1>2 DEF Injection, IsInjective
<1>5. q \in Surjection(1..C, Free)
  BY <1>1, <1>3, <1>4, FS_Injection
<1>6. Len(q) = C
  BY <1>1, <1>2
<1>7. Free = {q[n] : n \in 1..C}
  BY <1>2, <1>5 DEF Surjection
<1>8. QED
  BY <1>1, <1>2, <1>6, <1>7

\* The first n blocks, and the leaders among them.
FirstOf(q, n) == {q[k] : k \in 1..n}
LeadersOf(q, n) == {q[k] : k \in {k \in 1..n : ~Joined(q, k)}}

(* These are finite sets. *)
LEMMA FirstIsFinite ==
  ASSUME NEW q, NEW n \in Nat
  PROVE  IsFiniteSet(FirstOf(q, n)) /\ IsFiniteSet(LeadersOf(q, n))
<1> DEFINE f == [k \in 1..n |-> q[k]]
<1>1. IsFiniteSet(1..n)
  BY FS_Interval
<1>2. f \in Surjection(1..n, FirstOf(q, n))
  BY DEF Surjection, FirstOf
<1>3. IsFiniteSet(FirstOf(q, n))
  BY <1>1, <1>2, FS_Surjection
<1>4. LeadersOf(q, n) \in SUBSET FirstOf(q, n)
  BY DEF LeadersOf, FirstOf
<1>5. QED
  BY <1>3, <1>4, FS_Subset

\* Up to any block, what the leaders before its chain cover and what there is of its
\* chain is what the blocks had.
Balanced(q, F) ==
  \A n \in 1..Len(q), l \in 1..Len(q) :
    l <= n /\ ~Joined(q, l) /\ (\A k \in (l + 1)..n : Joined(q, k)) =>
      /\ Total(F, LeadersOf(q, l - 1)) \in Int
      /\ Total(size, FirstOf(q, n)) =
           Total(F, LeadersOf(q, l - 1)) + ptr[q[n]] + size[q[n]] - ptr[q[l]]

LEMMA Regrouped ==
  ASSUME NEW a \in Int, NEW p \in Int, NEW s \in Int, NEW r \in Int, NEW t \in Int,
         NEW next, p + s = next, NEW sum, sum = (a + p + s - r) + t
  PROVE  sum = a + next + t - r
OBVIOUS

(* Merging moves bytes from block to block: the sums agree up to every block. *)
LEMMA MergedSoFar ==
  ASSUME NEW q, Len(q) \in Nat, DOMAIN q = 1..Len(q),
         \A m, n \in 1..Len(q) : q[m] = q[n] => m = n,
         \A n \in 1..Len(q) : size[q[n]] \in Int /\ ptr[q[n]] \in Int,
         NEW F, \A n \in 1..Len(q) : ~Joined(q, n) => F[q[n]] = Covered(q, n)
  PROVE  Balanced(q, F)
<1> DEFINE Run(n, l) == l <= n /\ ~Joined(q, l) /\ \A k \in (l + 1)..n : Joined(q, k)
           Good(n, l) == 
             /\ Total(F, LeadersOf(q, l - 1)) \in Int
             /\ Total(size, FirstOf(q, n)) =
                  Total(F, LeadersOf(q, l - 1)) + ptr[q[n]] + size[q[n]] - ptr[q[l]]
           T == {n \in Nat : n \in 1..Len(q) /\ \E l \in 1..Len(q) : Run(n, l) /\ ~Good(n, l)}
<1>1. ASSUME T # {} PROVE FALSE
  <2>1. PICK n \in T : \A m \in T : n <= m
    BY <1>1, LeastNatural
  <2>2. n \in 1..Len(q) /\ \E l \in 1..Len(q) : Run(n, l) /\ ~Good(n, l)
    BY <2>1
  <2>3. PICK l \in 1..Len(q) : Run(n, l) /\ ~Good(n, l)
    BY <2>2
  <2>4. \A m \in 1..(n - 1), j \in 1..Len(q) : Run(m, j) => Good(m, j)
    <3>1. ASSUME NEW m \in 1..(n - 1) PROVE m \notin T /\ m \in Nat /\ m \in 1..Len(q)
      <4>1. m \in Nat /\ m \in 1..Len(q) /\ ~(n <= m)
        BY <2>2
      <4> HIDE DEF T
      <4>2. QED
        BY <2>1, <4>1
    <3> HIDE DEF Run, Good
    <3>2. QED
      BY <3>1
  <2> HIDE DEF T, Good
  <2>5. size[q[n]] \in Int /\ ptr[q[n]] \in Int /\ ptr[q[l]] \in Int
    BY <2>2, <2>3
  <2>6. CASE n = 1
    <3> DEFINE none == {}
    <3>0. none = {} /\ IsFiniteSet(none) /\ q[n] \notin none
      BY FS_EmptySet
    <3>1. l = 1 /\ LeadersOf(q, l - 1) = none /\ FirstOf(q, n) = none \cup {q[n]}
      BY <2>3, <2>6 DEF LeadersOf, FirstOf
    <3>2. Total(size, none) = 0 /\ Total(F, none) = 0
      BY TotalOfNothing
    <3>3. \A y \in none \cup {q[n]} : size[y] \in Int
      BY <2>5
    <3> HIDE DEF none
    <3>4. Total(size, none \cup {q[n]}) = Total(size, none) + size[q[n]]
      BY <3>0, <3>3, TotalOfOneMore
    <3>5. Good(n, l)
      <4>1. l = n /\ Total(F, LeadersOf(q, l - 1)) = 0
        BY <2>6, <3>1, <3>2
      <4>2. Total(size, FirstOf(q, n)) = 0 + size[q[n]]
        BY <3>1, <3>2, <3>4
      <4>3. size[q[n]] = ptr[q[n]] + size[q[n]] - ptr[q[n]]
        BY <2>5
      <4>4. QED
        BY <2>5, <4>1, <4>2, <4>3 DEF Good
    <3>6. QED
      BY <2>3, <3>5
  <2>7. CASE n # 1
    <3>0. n - 1 \in 1..(n - 1) /\ n - 1 \in 1..Len(q) /\ n \in Nat
      BY <2>2, <2>7
    <3>1. /\ Total(size, FirstOf(q, n - 1)) \in Int
          /\ Total(size, FirstOf(q, n)) = Total(size, FirstOf(q, n - 1)) + size[q[n]]
      <4>1. FirstOf(q, n) = FirstOf(q, n - 1) \cup {q[n]}
        <5>1. \A k \in 1..n : k \in 1..(n - 1) \/ k = n
          BY <3>0
        <5>2. \A k \in 1..(n - 1) : k \in 1..n
          BY <3>0
        <5>3. n \in 1..n
          BY <2>2
        <5>4. QED
          BY <5>1, <5>2, <5>3 DEF FirstOf
      <4>2. q[n] \notin FirstOf(q, n - 1)
        <5>1. \A k \in 1..(n - 1) : k \in 1..Len(q) /\ k # n
          BY <2>2
        <5>2. QED
          BY <2>2, <5>1 DEF FirstOf
      <4>3. IsFiniteSet(FirstOf(q, n - 1))
        BY <3>0, FirstIsFinite
      <4>4. \A y \in FirstOf(q, n - 1) \cup {q[n]} : size[y] \in Int
        <5>1. \A k \in 1..(n - 1) : k \in 1..Len(q)
          BY <2>2
        <5>2. QED
          BY <2>5, <5>1 DEF FirstOf
      <4>5. QED
        BY <4>1, <4>2, <4>3, <4>4, TotalOfOneMore
    <3>2. CASE l = n
      <4>1. PICK j \in 1..(n - 1) : ~Joined(q, j) /\ \A k \in (j + 1)..(n - 1) : Joined(q, k)
        BY <3>0, ChainBegins
      <4>0. j \in 1..Len(q) /\ j <= n - 1
        BY <3>0, <4>1
      <4>2. Good(n - 1, j)
        BY <2>4, <3>0, <4>0, <4>1
      <4>3. LeadersOf(q, n - 1) = LeadersOf(q, j - 1) \cup {q[j]}
        <5>1. ASSUME NEW k \in 1..(n - 1), ~Joined(q, k) PROVE k \in 1..(j - 1) \/ k = j
          <6>1. k \notin (j + 1)..(n - 1)
            BY <4>1, <5>1
          <6>2. QED
            BY <6>1
        <5>2. \A k \in 1..(j - 1) : k \in 1..(n - 1)
          BY <3>0, <4>0
        <5>3. QED
          BY <4>1, <5>1, <5>2 DEF LeadersOf
      <4>4. q[j] \notin LeadersOf(q, j - 1) /\ j \in 1..Len(q)
        <5>1. j \in 1..Len(q) /\ \A k \in 1..(j - 1) : k \in 1..Len(q) /\ k # j
          BY <2>2
        <5>2. QED
          BY <5>1 DEF LeadersOf
      <4>5. \A y \in LeadersOf(q, j - 1) \cup {q[j]} : F[y] \in Int
        <5>1. ASSUME NEW k \in 1..(n - 1), ~Joined(q, k) PROVE F[q[k]] \in Int
          <6>1. k \in 1..Len(q)
            BY <2>2
          <6>2. PICK m \in k..Len(q) : Chain(q, k, m)
            BY <6>1, ChainEnds
          <6>3. F[q[k]] = ptr[q[m]] + size[q[m]] - ptr[q[k]]
            BY <5>1, <6>1, <6>2, CoveredChain
          <6>4. m \in 1..Len(q)
            BY <6>1, <6>2
          <6>5. QED
            BY <6>1, <6>3, <6>4
        <5>2. \A y \in LeadersOf(q, n - 1) : F[y] \in Int
          BY <5>1 DEF LeadersOf
        <5>3. QED
          BY <4>3, <5>2
      <4>6. IsFiniteSet(LeadersOf(q, j - 1))
        <5>1. j - 1 \in Nat
          OBVIOUS
        <5>2. QED
          BY <5>1, FirstIsFinite
      <4>7. /\ Total(F, LeadersOf(q, j - 1)) \in Int
            /\ Total(F, LeadersOf(q, n - 1)) = Total(F, LeadersOf(q, j - 1)) + F[q[j]]
        BY <4>3, <4>4, <4>5, <4>6, TotalOfOneMore
      <4>8. F[q[j]] = ptr[q[n - 1]] + size[q[n - 1]] - ptr[q[j]]
        <5>1. Chain(q, j, n - 1)
          <6>1. (n - 1) + 1 = n /\ ~Joined(q, n)
            BY <2>3, <3>0, <3>2
          <6>2. QED
            BY <4>1, <6>1 DEF Chain
        <5>2. n - 1 \in j..Len(q)
          BY <3>0
        <5>3. QED
          BY <4>1, <4>4, <5>1, <5>2, CoveredChain
      <4>9. /\ size[q[n - 1]] \in Int /\ ptr[q[n - 1]] \in Int /\ ptr[q[j]] \in Int
        BY <3>0, <4>4
      <4>10. Good(n, l)
        <5>1. Total(size, FirstOf(q, n)) = Total(F, LeadersOf(q, n - 1)) + size[q[n]]
          BY <2>5, <3>1, <4>2, <4>7, <4>8, <4>9 DEF Good
        <5>2. Total(F, LeadersOf(q, n - 1)) \in Int
          BY <4>7, <4>8, <4>9
        <5>3. QED
          BY <2>5, <3>2, <5>1, <5>2 DEF Good
      <4>11. QED
        BY <2>3, <4>10
    <3>3. CASE l # n
      <4>1. l <= n - 1 /\ Joined(q, n) /\ \A k \in (l + 1)..(n - 1) : Joined(q, k)
        BY <2>2, <2>3, <3>3
      <4>2. Good(n - 1, l)
        BY <2>3, <2>4, <3>0, <4>1
      <4>3. ptr[q[n - 1]] + size[q[n - 1]] = ptr[q[n]]
        BY <4>1 DEF Joined
      <4>4. Good(n, l)
        <5>1. size[q[n - 1]] \in Int /\ ptr[q[n - 1]] \in Int
          BY <3>0
        <5>2. PICK a : a = Total(F, LeadersOf(q, l - 1))
          OBVIOUS
        <5>3. /\ a \in Int
              /\ Total(size, FirstOf(q, n - 1)) = a + ptr[q[n - 1]] + size[q[n - 1]] - ptr[q[l]]
          BY <4>2, <5>2 DEF Good
        <5>4. Total(size, FirstOf(q, n)) = a + ptr[q[n]] + size[q[n]] - ptr[q[l]]
          <6>1. PICK p \in Int, s \in Int, r \in Int, t \in Int :
                  p = ptr[q[n - 1]] /\ s = size[q[n - 1]] /\ r = ptr[q[l]] /\ t = size[q[n]]
            BY <2>5, <5>1
          <6>2. PICK sum : sum = Total(size, FirstOf(q, n))
            OBVIOUS
          <6>3. p + s = ptr[q[n]] /\ sum = (a + p + s - r) + t
            BY <3>1, <4>3, <5>3, <6>1, <6>2
          <6>4. sum = a + ptr[q[n]] + t - r
            BY <5>3, <6>3, Regrouped
          <6>5. QED
            BY <6>1, <6>2, <6>4
        <5>5. QED
          BY <5>2, <5>3, <5>4 DEF Good
      <4>5. QED
        BY <2>3, <4>4
    <3>4. QED
      BY <3>2, <3>3
  <2>8. QED
    BY <2>6, <2>7
<1>2. ASSUME NEW n \in 1..Len(q), NEW l \in 1..Len(q), Run(n, l) PROVE Good(n, l)
  <2> HIDE DEF Run, Good
  <2>1. QED
    BY <1>1, <1>2
<1>3. QED
  BY <1>2 DEF Balanced

\* The two sums by Total, which the lemmas on sums are about.
Used == usage = Total(size, Held)
Kept == obtained = Total(size, Held \cup Free)

LEMMA AccountsSay ==
  /\ UsageExact <=> usage = Total(size, Held)
  /\ NothingLost <=> obtained = Total(size, Held \cup Free)
  /\ UsageExact' <=> usage' = Total(size', Held')
  /\ NothingLost' <=> obtained' = Total(size', (Held \cup Free)')
<1>1. UsageExact <=> Used
  BY DEF UsageExact, Bytes, Total, Used
<1>2. NothingLost <=> Kept
  BY DEF NothingLost, Bytes, Total, Kept
<1>3. (UsageExact <=> Used)' /\ (NothingLost <=> Kept)'
  BY <1>1, <1>2, PTL
<1>4. QED
  BY <1>1, <1>2, <1>3 DEF Used, Kept

(* Sizes are numbers, and so are their sums. *)
LEMMA Sizes ==
  ASSUME Accounts, PoolInvariant
  PROVE  /\ \A b \in Blocks : size[b] \in Nat
         /\ Total(size, Held) \in Nat /\ Total(size, Held \cup Free) \in Nat
<1>1. \A b \in Blocks : size[b] \in Nat
  BY DEF Accounts, PoolTypes
<1>2. QED
  BY <1>1, Shares, TotalIsNatural

LEMMA AccountsStart == PoolInit => Accounts
<1> SUFFICES ASSUME PoolInit PROVE Accounts
  OBVIOUS
<1>1. Held = {} /\ Free = {}
  BY DEF PoolInit, Held, Free, ToSet
<1>2. UsageExact /\ NothingLost
  BY <1>1, AccountsSay, TotalOfNothing DEF PoolInit
<1>3. PoolTypes
  <2>1. lists \in [Slots -> Seq(Blocks)]
    BY DEF PoolInit
  <2>2. refs \in [Blocks -> 0..MaxRefs]
    BY PoolAssumption DEF PoolInit
  <2>3. QED
    BY <2>1, <2>2 DEF PoolInit, PoolTypes
<1>4. QED
  BY <1>2, <1>3 DEF Accounts

(* One lemma for each operation: reusing a block, ... *)
LEMMA ReuseCounted ==
  ASSUME PoolInvariant, PoolInvariant', Accounts, NEW bytes \in Requests, Reuse(bytes)
  PROVE  Accounts'
<1>1. PICK p \in FindFreeBlock(bytes) :
        /\ lists' = [lists EXCEPT ![p[1]] = RemoveAt(@, p[2])]
        /\ refs' = [refs EXCEPT ![lists[p[1]][p[2]]] = 1]
        /\ asked' = [asked EXCEPT ![lists[p[1]][p[2]]] = bytes]
        /\ usage' = usage + size[lists[p[1]][p[2]]]
        /\ size' = size /\ ptr' = ptr /\ addressed' = addressed /\ obtained' = obtained
  BY DEF Reuse
<1> DEFINE from == p[1]
           n == p[2]
           block == lists[from][n]
<1>2. from \in Slots /\ n \in DOMAIN lists[from]
  BY Found
<1>3. block \in Blocks /\ block \in Free /\ refs[block] = 0
  BY <1>2, Listed
<1> HIDE DEF from, n, block
<1>4. /\ lists' = [lists EXCEPT ![from] = RemoveAt(lists[from], n)]
      /\ refs' = [refs EXCEPT ![block] = 1] /\ usage' = usage + size[block]
      /\ asked' = [asked EXCEPT ![block] = bytes]
  BY <1>1 DEF from, n, block
<1>5. Held' = Held \cup {block}
  BY <1>3, <1>4 DEF PoolInvariant, Shape, Held
<1>6. Free' = Free \ {block}
  <2>1. ToSet(RemoveAt(lists[from], n)) = ToSet(lists[from]) \ {block}
    <3>1. lists[from] \in Seq(Blocks) /\ n \in 1..Len(lists[from])
      BY <1>2, Listed
    <3>2. \A i, j \in DOMAIN lists[from] : lists[from][i] = lists[from][j] => i = j
      BY <1>2 DEF PoolInvariant, OneOwner
    <3>3. QED
      BY <3>1, <3>2, RemoveAtTakes DEF block
  <2>2. ASSUME NEW i \in Slots, i # from PROVE block \notin ToSet(lists[i])
    BY <1>2, <2>2 DEF PoolInvariant, OneOwner, block, ToSet
  <2>3. \A i \in Slots : lists'[i] = IF i = from THEN RemoveAt(lists[from], n) ELSE lists[i]
    BY <1>2, <1>4 DEF PoolInvariant, Shape
  <2>4. \A i \in Slots : ToSet(lists'[i]) = ToSet(lists[i]) \ {block}
    BY <2>1, <2>2, <2>3
  <2>5. QED
    BY <2>4 DEF Free
<1>7. Held' \cup Free' = Held \cup Free
  BY <1>3, <1>5, <1>6
<1>8. block \notin Held
  BY <1>3 DEF Held
<1>9. \A b \in Held \cup {block} : size[b] \in Int
  BY <1>3, Sizes, Shares
<1>10. Total(size, Held \cup {block}) = Total(size, Held) + size[block]
  BY <1>8, <1>9, Shares, TotalOfOneMore
<1>11. UsageExact' /\ NothingLost'
  BY <1>1, <1>4, <1>5, <1>7, <1>10, AccountsSay DEF Accounts
<1>12. PoolTypes'
  <2>1. refs' \in [Blocks -> 0..MaxRefs] /\ asked' \in [Blocks -> Requests \cup {0}]
    BY <1>3, <1>4, PoolAssumption DEF Accounts, PoolTypes
  <2>2. usage' \in Int
    BY <1>4, <1>9 DEF Accounts, PoolTypes
  <2>3. lists' \in [Slots -> Seq(Blocks)]
    BY DEF PoolInvariant, Shape
  <2>4. QED
    BY <1>1, <2>1, <2>2, <2>3 DEF Accounts, PoolTypes
<1>13. QED
  BY <1>11, <1>12 DEF Accounts

(* ... a new one, ... *)
LEMMA NewCounted ==
  ASSUME PoolInvariant, PoolInvariant', Accounts, NEW bytes \in Requests, AllocateNew(bytes)
  PROVE  Accounts'
<1>1. PICK b \in Unnamed, p \in Addresses :
         /\ refs' = [refs EXCEPT ![b] = 1]
         /\ size' = [size EXCEPT ![b] = bytes]
         /\ asked' = [asked EXCEPT ![b] = bytes]
         /\ ptr' = [ptr EXCEPT ![b] = p]
         /\ addressed' = addressed \cup {p}
  BY DEF AllocateNew
<1>2. lists' = lists /\ usage' = usage + bytes /\ obtained' = obtained + bytes
  BY DEF AllocateNew
<1>3. b \in Blocks /\ b \notin Held /\ b \notin Free /\ bytes \in Nat
  BY PoolAssumption DEF Unnamed
<1>4. Held' = Held \cup {b} /\ Free' = Free /\ (Held \cup Free)' = (Held \cup Free) \cup {b}
  <2>1. Held' = Held \cup {b}
    BY <1>1, <1>3 DEF Accounts, PoolTypes, Held
  <2>2. Free' = Free
    BY <1>2 DEF Free
  <2>3. QED
    BY <2>1, <2>2
<1>5. size'[b] = bytes /\ \A c \in Blocks \ {b} : size'[c] = size[c]
  BY <1>1, <1>3 DEF Accounts, PoolTypes
<1>6. ASSUME NEW S, S \subseteq Held \cup Free
      PROVE  Total(size', S \cup {b}) = Total(size, S) + bytes
  <2>1. IsFiniteSet(S) /\ b \notin S /\ S \subseteq Blocks
    BY <1>3, <1>6, Shares, FS_Subset
  <2>2. \A y \in S \cup {b} : size'[y] \in Int
    BY <1>3, <1>5, <2>1, Sizes
  <2>3. Total(size', S \cup {b}) = Total(size', S) + size'[b]
    BY <2>1, <2>2, TotalOfOneMore
  <2>4. \A y \in S : size[y] = size'[y]
    BY <1>5, <2>1
  <2>5. Total(size, S) = Total(size', S)
    BY <2>1, <2>4, TotalOfSame
  <2>6. QED
    BY <1>5, <2>3, <2>5
<1>7. /\ Total(size', Held \cup {b}) = Total(size, Held) + bytes
      /\ Total(size', (Held \cup Free) \cup {b}) = Total(size, Held \cup Free) + bytes
  BY <1>6
<1>8. UsageExact' /\ NothingLost'
  BY <1>2, <1>4, <1>7, AccountsSay DEF Accounts
<1>9. PoolTypes'
  <2>1. /\ refs' \in [Blocks -> 0..MaxRefs] /\ size' \in [Blocks -> Nat]
        /\ asked' \in [Blocks -> Requests \cup {0}] /\ ptr' \in [Blocks -> Addresses \cup {0}]
        /\ addressed' \subseteq Addresses
    BY <1>1, <1>3, PoolAssumption DEF Accounts, PoolTypes
  <2>2. usage' \in Int /\ obtained' \in Int
    BY <1>2, <1>3 DEF Accounts, PoolTypes
  <2>3. QED
    BY <1>2, <2>1, <2>2 DEF Accounts, PoolTypes
<1>10. QED
  BY <1>8, <1>9 DEF Accounts

(* ... sharing one, ... *)
LEMMA RefCounted ==
  ASSUME PoolInvariant, Accounts, NEW b \in Blocks, AddRef(b)
  PROVE  Accounts'
<1>1. /\ refs[b] \in 1..(MaxRefs - 1) /\ refs' = [refs EXCEPT ![b] = @ + 1]
      /\ UNCHANGED <<size, ptr, asked, lists, addressed, usage, obtained>>
  BY DEF AddRef
<1>2. Held' = Held /\ Free' = Free
  <2>1. Held' = Held
    BY <1>1 DEF Accounts, PoolTypes, Held
  <2>2. QED
    BY <1>1, <2>1 DEF Free
<1>3. UsageExact' /\ NothingLost'
  BY <1>1, <1>2, AccountsSay DEF Accounts
<1>4. refs' \in [Blocks -> 0..MaxRefs]
  BY <1>1, PoolAssumption DEF Accounts, PoolTypes
<1>5. PoolTypes'
  BY <1>1, <1>4 DEF Accounts, PoolTypes
<1>6. QED
  BY <1>3, <1>5 DEF Accounts

(* ... and freeing it, which counts only if no one else has it. *)
LEMMA FreeCounted ==
  ASSUME PoolInvariant, PoolInvariant', Accounts, NEW b \in Blocks, FreeBlock(b)
  PROVE  Accounts'
<1>1. /\ refs[b] > 0 /\ refs' = [refs EXCEPT ![b] = @ - 1]
      /\ size' = size /\ ptr' = ptr /\ addressed' = addressed /\ obtained' = obtained
  BY DEF FreeBlock
<1>2. refs[b] \in 1..MaxRefs /\ refs' \in [Blocks -> 0..MaxRefs]
  BY <1>1, PoolAssumption DEF Accounts, PoolTypes
<1>3. CASE refs[b] # 1
  <2>1. usage' = usage /\ asked' = asked /\ lists' = lists
    BY <1>3 DEF FreeBlock
  <2>2. Held' = Held
    BY <1>1, <1>2, <1>3 DEF Accounts, PoolTypes, Held
  <2>3. Free' = Free
    BY <2>1 DEF Free
  <2>4. UsageExact' /\ NothingLost'
    BY <1>1, <2>1, <2>2, <2>3, AccountsSay DEF Accounts
  <2>5. PoolTypes'
    BY <1>1, <1>2, <2>1 DEF Accounts, PoolTypes
  <2>6. QED
    BY <2>4, <2>5 DEF Accounts
<1>4. CASE refs[b] = 1
  <2>1. /\ usage' = usage - size[b] /\ asked' = [asked EXCEPT ![b] = 0]
        /\ lists' = [lists EXCEPT ![Slot(size[b])] = Append(@, b)]
    BY <1>4 DEF FreeBlock
  <2>2. Held' = Held \ {b} /\ b \in Held
    BY <1>1, <1>2, <1>4 DEF Accounts, PoolTypes, Held
  <2>3. Free' = Free \cup {b}
    <3> DEFINE to == Slot(size[b])
    <3>1. to \in Slots
      BY SlotType
    <3> HIDE DEF to
    <3>2. \A i \in Slots : lists'[i] = IF i = to THEN Append(lists[to], b) ELSE lists[i]
      BY <2>1, <3>1 DEF PoolInvariant, Shape, to
    <3>3. ToSet(Append(lists[to], b)) = ToSet(lists[to]) \cup {b}
      BY <3>1, Listed, AppendAdds
    <3>4. \A i \in Slots : ToSet(lists'[i]) =
                             IF i = to THEN ToSet(lists[i]) \cup {b} ELSE ToSet(lists[i])
      BY <3>2, <3>3
    <3>5. QED
      BY <3>1, <3>4 DEF Free
  <2>4. Held' \cup Free' = Held \cup Free /\ Held = (Held \ {b}) \cup {b}
    BY <2>2, <2>3
  <2>5. IsFiniteSet(Held \ {b}) /\ b \notin Held \ {b}
    BY Shares, FS_RemoveElement
  <2>6. \A y \in (Held \ {b}) \cup {b} : size[y] \in Int
    BY Sizes, Shares
  <2>7. /\ Total(size, Held \ {b}) \in Int
        /\ Total(size, (Held \ {b}) \cup {b}) = Total(size, Held \ {b}) + size[b]
    BY <2>5, <2>6, TotalOfOneMore
  <2>8. Total(size, Held) = Total(size, Held \ {b}) + size[b]
    BY <2>4, <2>7
  <2>9. Total(size, Held \ {b}) = Total(size, Held) - size[b]
    BY <2>6, <2>7, <2>8
  <2>10. UsageExact' /\ NothingLost'
    BY <1>1, <2>1, <2>2, <2>4, <2>9, AccountsSay DEF Accounts
  <2>11. usage' \in Int
    BY <2>1, <2>6 DEF Accounts, PoolTypes
  <2>12. PoolTypes'
    <3>1. asked' \in [Blocks -> Requests \cup {0}]
      BY <2>1 DEF Accounts, PoolTypes
    <3>2. lists' \in [Slots -> Seq(Blocks)]
      BY DEF PoolInvariant, Shape
    <3>3. QED
      BY <1>1, <1>2, <2>11, <3>1, <3>2 DEF Accounts, PoolTypes
  <2>13. QED
    BY <2>10, <2>12 DEF Accounts
<1>5. QED
  BY <1>3, <1>4

(* What the leaders cover is what the free blocks had. *)
LEMMA MergedWhole ==
  ASSUME PoolInvariant, Accounts, NEW q \in ByAddress,
         NEW F, \A n \in 1..Len(q) : ~Joined(q, n) => F[q[n]] = Covered(q, n)
  PROVE  /\ Total(F, Leaders(q)) = Total(size, Free)
         /\ \A b \in Leaders(q) : F[b] \in Nat
<1>1. /\ q \in [1..Len(q) -> Free] /\ Len(q) \in Nat /\ DOMAIN q = 1..Len(q)
      /\ \A m, n \in 1..Len(q) : q[m] = q[n] => m = n
      /\ Free = {q[n] : n \in 1..Len(q)}
      /\ Ascending(q)
  BY Ordered
<1>2. \A n \in 1..Len(q) : size[q[n]] \in Nat /\ ptr[q[n]] \in Nat
  <2>1. \A b \in Blocks : ptr[b] \in Nat
    <3>1. Addresses \cup {0} \subseteq Nat
      BY PoolAssumption
    <3>2. ptr \in [Blocks -> Addresses \cup {0}]
      BY DEF Accounts, PoolTypes
    <3>3. QED
      BY <3>1, <3>2
  <2>2. \A n \in 1..Len(q) : q[n] \in Blocks
    BY <1>1, Shares
  <2>3. QED
    BY <2>1, <2>2, Sizes
<1>3. ASSUME NEW n \in 1..Len(q), ~Joined(q, n) PROVE F[q[n]] \in Nat
  <2>1. PICK m \in n..Len(q) : Chain(q, n, m)
    BY <1>1, ChainEnds
  <2>2. F[q[n]] = ptr[q[m]] + size[q[m]] - ptr[q[n]]
    BY <1>1, <1>3, <2>1, CoveredChain
  <2>3. m \in 1..Len(q) /\ ptr[q[n]] <= ptr[q[m]]
    BY <1>1, <1>2 DEF Ascending
  <2>4. QED
    BY <1>2, <2>2, <2>3
<1>4. \A b \in Leaders(q) : F[b] \in Nat
  BY <1>1, <1>3 DEF Leaders
<1>5. Leaders(q) = LeadersOf(q, Len(q)) /\ Free = FirstOf(q, Len(q))
  BY <1>1 DEF Leaders, LeadersOf, FirstOf
<1>6. CASE Len(q) = 0
  <2>1. Leaders(q) = {} /\ Free = {}
    BY <1>1, <1>6 DEF Leaders
  <2>2. QED
    BY <1>4, <2>1, TotalOfNothing
<1>7. CASE Len(q) # 0
  <2> DEFINE n == Len(q)
  <2>1. n \in 1..Len(q)
    BY <1>1, <1>7
  <2>2. PICK l \in 1..n : ~Joined(q, l) /\ \A k \in (l + 1)..n : Joined(q, k)
    BY <1>1, <2>1, ChainBegins
  <2>3. \A k \in 1..Len(q) : size[q[k]] \in Int /\ ptr[q[k]] \in Int
    BY <1>2
  <2>4. /\ Total(F, LeadersOf(q, l - 1)) \in Int
        /\ Total(size, FirstOf(q, n)) =
             Total(F, LeadersOf(q, l - 1)) + ptr[q[n]] + size[q[n]] - ptr[q[l]]
    <3>1. Balanced(q, F)
      BY <1>1, <2>3, MergedSoFar
    <3>2. l \in 1..Len(q) /\ l <= n
      BY <1>1
    <3> HIDE DEF n
    <3>3. n \in 1..Len(q)
      BY <2>1
    <3>4. QED
      BY <2>2, <3>1, <3>2, <3>3 DEF Balanced
  <2>5. F[q[l]] = ptr[q[n]] + size[q[n]] - ptr[q[l]]
    <3>1. Chain(q, l, n) /\ n \in l..Len(q)
      BY <1>1, <2>1, <2>2 DEF Chain
    <3>2. QED
      BY <1>1, <2>2, <3>1, CoveredChain
  <2>6. LeadersOf(q, n) = LeadersOf(q, l - 1) \cup {q[l]}
    <3>1. ASSUME NEW k \in 1..n, ~Joined(q, k) PROVE k \in 1..(l - 1) \/ k = l
      <4>1. k \notin (l + 1)..n
        BY <2>2, <3>1
      <4>2. QED
        BY <1>1, <4>1
    <3>2. \A k \in 1..(l - 1) : k \in 1..n
      BY <1>1
    <3>3. QED
      BY <2>2, <3>1, <3>2 DEF LeadersOf
  <2>7. q[l] \notin LeadersOf(q, l - 1)
    <3>1. \A k \in 1..(l - 1) : k \in 1..Len(q) /\ k # l
      BY <1>1
    <3>2. QED
      BY <1>1, <3>1 DEF LeadersOf
  <2>8. IsFiniteSet(LeadersOf(q, l - 1))
    <3>1. l - 1 \in Nat
      OBVIOUS
    <3>2. QED
      BY <3>1, FirstIsFinite
  <2>9. \A y \in LeadersOf(q, l - 1) \cup {q[l]} : F[y] \in Int
    BY <1>4, <1>5, <2>6
  <2>10. Total(F, LeadersOf(q, n)) = Total(F, LeadersOf(q, l - 1)) + F[q[l]]
    BY <2>6, <2>7, <2>8, <2>9, TotalOfOneMore
  <2>11. Total(F, LeadersOf(q, n)) = Total(size, FirstOf(q, n))
    <3>1. ptr[q[n]] \in Int /\ size[q[n]] \in Int /\ ptr[q[l]] \in Int
      BY <2>1, <2>3
    <3>2. QED
      BY <2>4, <2>5, <2>10, <3>1
  <2>12. QED
    BY <1>4, <1>5, <2>11
<1>8. QED
  BY <1>6, <1>7

(* Merging changes neither what is held nor the sum of what is free. *)
LEMMA DefragmentCounted ==
  ASSUME PoolInvariant, PoolInvariant', Accounts, Defragment
  PROVE  Accounts'
<1>1. PICK q \in ByAddress :
        /\ size' = [b \in Blocks |->
                      IF b \notin Free THEN size[b]
                      ELSE IF b \notin Leaders(q) THEN 0
                      ELSE Covered(q, CHOOSE n \in DOMAIN q : q[n] = b)]
        /\ Refile(Leaders(q))
        /\ ptr' = [b \in Blocks |-> IF b \in Free \ Leaders(q) THEN 0 ELSE ptr[b]]
        /\ UNCHANGED <<refs, asked, addressed, usage, obtained>>
  BY DEF Defragment, Discard
<1>2. /\ q \in [1..Len(q) -> Free] /\ Len(q) \in Nat /\ DOMAIN q = 1..Len(q)
      /\ \A m, n \in 1..Len(q) : q[m] = q[n] => m = n
      /\ Free = {q[n] : n \in 1..Len(q)}
  BY Ordered
<1>3. Leaders(q) \subseteq Free
  BY <1>2 DEF Leaders
<1>4. ASSUME NEW n \in 1..Len(q), ~Joined(q, n) PROVE size'[q[n]] = Covered(q, n)
  <2>1. q[n] \in Free /\ q[n] \in Leaders(q) /\ q[n] \in Blocks
    BY <1>2, <1>4, Shares DEF Leaders
  <2>2. (CHOOSE k \in DOMAIN q : q[k] = q[n]) = n
    BY <1>2
  <2>3. QED
    BY <1>1, <2>1, <2>2
<1>5. /\ Total(size', Leaders(q)) = Total(size, Free)
      /\ \A b \in Leaders(q) : size'[b] \in Nat
  BY <1>4, MergedWhole
<1>6. Held' = Held /\ Free' = Leaders(q)
  <2>1. Held' = Held
    BY <1>1 DEF Held
  <2>2. /\ lists' \in [Slots -> {s \in SetToAllKPermutations(Free) : Ascending(s)}]
        /\ \A i \in Slots : ToSet(lists'[i]) = {b \in Leaders(q) : Slot(size'[b]) = i}
    BY <1>1 DEF Refile
  <2>3. \A b \in Leaders(q) : Slot(size'[b]) \in Slots
    BY SlotType
  <2>4. QED
    BY <2>1, <2>2, <2>3 DEF Free
<1>7. Total(size', Held) = Total(size, Held)
  <2>1. \A b \in Held : size[b] = size'[b]
    BY <1>1, Shares
  <2>2. QED
    BY <2>1, Shares, TotalOfSame
<1>8. Total(size', Held \cup Leaders(q)) = Total(size, Held \cup Free)
  <2>1. IsFiniteSet(Leaders(q)) /\ IsFiniteSet(Held) /\ Held \cap Leaders(q) = {}
        /\ IsFiniteSet(Free) /\ Held \cap Free = {}
    BY <1>3, Shares, FS_Subset
  <2>2. \A b \in Held \cup Leaders(q) : size'[b] \in Int
    <3>1. \A b \in Held : size'[b] \in Int
      BY <1>1, Shares, Sizes
    <3>2. QED
      BY <1>5, <3>1
  <2>3. \A b \in Held \cup Free : size[b] \in Int
    BY Shares, Sizes
  <2>4. Total(size', Held \cup Leaders(q)) = Total(size', Held) + Total(size', Leaders(q))
    BY <2>1, <2>2, TotalOfBoth
  <2>5. Total(size, Held \cup Free) = Total(size, Held) + Total(size, Free)
    BY <2>1, <2>3, TotalOfBoth
  <2>6. QED
    BY <1>5, <1>7, <2>4, <2>5
<1>9. UsageExact' /\ NothingLost'
  BY <1>1, <1>6, <1>7, <1>8, AccountsSay DEF Accounts
<1>10. PoolTypes'
  <2>1. size' \in [Blocks -> Nat]
    <3>1. ASSUME NEW b \in Blocks PROVE size'[b] \in Nat
      <4>1. CASE b \notin Free
        BY <1>1, <4>1, Sizes
      <4>2. CASE b \in Free \ Leaders(q)
        BY <1>1, <4>2
      <4>3. CASE b \in Leaders(q)
        BY <1>5, <4>3
      <4>4. QED
        BY <4>1, <4>2, <4>3
    <3>2. QED
      BY <1>1, <3>1
  <2>2. ptr' \in [Blocks -> Addresses \cup {0}]
    BY <1>1 DEF Accounts, PoolTypes
  <2>3. lists' \in [Slots -> Seq(Blocks)]
    BY DEF PoolInvariant, Shape
  <2>4. QED
    BY <1>1, <2>1, <2>2, <2>3 DEF Accounts, PoolTypes
<1>11. QED
  BY <1>9, <1>10 DEF Accounts

(* trim() leaves what it does not pop. *)
LEMMA LeftByTrim ==
  ASSUME PoolInvariant, Keep(Popped), NEW i \in Slots, NEW m \in DOMAIN lists[i],
         <<i, m>> \notin Popped
  PROVE  lists[i][m] \in ToSet(lists'[i])
<1> DEFINE stay == {n \in DOMAIN lists[i] : <<i, n>> \notin Popped}
           k == Cardinality(stay)
<1>1. lists'[i] = SubSeq(lists[i], 1, k)
  BY DEF Keep
<1>2. /\ lists[i] \in Seq(Blocks) /\ Len(lists[i]) \in Nat
      /\ DOMAIN lists[i] = 1..Len(lists[i])
  BY Listed
<1>3. k \in 0..Len(lists[i]) /\ 1..k \subseteq stay
  BY StayInFront
<1>4. IsFiniteSet(stay) /\ stay \subseteq 1..Len(lists[i])
  <2>1. IsFiniteSet(1..Len(lists[i]))
    BY <1>2, FS_Interval
  <2>2. stay \in SUBSET (1..Len(lists[i]))
    BY <1>2
  <2>3. QED
    BY <2>1, <2>2, FS_Subset
<1>5. m \in 1..k
  <2>1. Cardinality(1..k) = k
    BY <1>2, <1>3, FS_Interval
  <2>2. 1..k = stay
    BY <1>3, <1>4, <2>1, FS_Subset
  <2>3. QED
    BY <2>2
<1> HIDE DEF stay, k
<1>6. Len(lists'[i]) = k /\ lists'[i][m] = lists[i][m] /\ lists'[i] \in Seq(Blocks)
  <2>1. \A n \in 1..k : lists[i][n] \in Blocks
    BY <1>2, <1>3, ElementOfSeq
  <2>2. k \in Nat
    BY <1>2, <1>3
  <2>3. QED
    BY <1>1, <1>5, <2>1, <2>2, SubSeqProperties, Z3
<1>7. m \in DOMAIN lists'[i]
  BY <1>5, <1>6, LenProperties
<1>8. QED
  BY <1>6, <1>7 DEF ToSet

(* What trim() gives back is what it pops, also if it raises half way. *)
LEMMA TrimCounted ==
  ASSUME PoolInvariant, PoolInvariant', Accounts, NEW target, Trim(target)
  PROVE  Accounts'
<1> DEFINE gone == {lists[p[1]][p[2]] : p \in Popped}
<1>1. /\ Keep(Popped)
      /\ addressed' = addressed \ {ptr[b] : b \in gone}
      /\ size' = [b \in Blocks |-> IF b \in gone THEN 0 ELSE size[b]]
      /\ ptr' = [b \in Blocks |-> IF b \in gone THEN 0 ELSE ptr[b]]
      /\ UNCHANGED <<refs, asked, usage>>
  BY DEF Trim, Discard
<1>2. obtained' = obtained - Total(size, gone)
  BY DEF Trim, Total
<1>3. gone \subseteq Free
  <2>1. ASSUME NEW p \in Popped PROVE lists[p[1]][p[2]] \in Free
    <3>1. PICK i \in Slots : p \in {i} \X DOMAIN lists[i]
      BY DEF Popped, Places
    <3>2. p[1] = i /\ p[2] \in DOMAIN lists[i]
      BY <3>1
    <3>3. QED
      BY <3>2, Listed
  <2>2. QED
    BY <2>1
<1>4. Free' = Free \ gone
  <2>1. ASSUME NEW b \in Free' PROVE b \in Free \ gone
    <3>1. PICK i \in Slots : b \in ToSet(lists'[i])
      BY <2>1 DEF Free
    <3>2. PICK m \in DOMAIN lists'[i] : b = lists'[i][m]
      BY <3>1 DEF ToSet
    <3>3. m \in DOMAIN lists[i] /\ lists'[i][m] = lists[i][m] /\ <<i, m>> \notin Popped
      BY <1>1, KeptByTrim
    <3>4. b \in Free
      BY <3>2, <3>3, Listed
    <3>5. ASSUME NEW p \in Popped, b = lists[p[1]][p[2]] PROVE FALSE
      <4>1. PICK j \in Slots : p \in {j} \X DOMAIN lists[j]
        BY DEF Popped, Places
      <4>2. p = <<j, p[2]>> /\ p[1] = j /\ p[2] \in DOMAIN lists[j]
        BY <4>1
      <4>3. i = j /\ m = p[2]
        BY <3>2, <3>3, <3>5, <4>2 DEF PoolInvariant, OneOwner
      <4>4. QED
        BY <3>3, <4>2, <4>3
    <3>6. QED
      BY <3>4, <3>5
  <2>2. ASSUME NEW b \in Free \ gone PROVE b \in Free'
    <3>1. PICK i \in Slots : b \in ToSet(lists[i])
      BY DEF Free
    <3>2. PICK m \in DOMAIN lists[i] : b = lists[i][m]
      BY <3>1 DEF ToSet
    <3>3. <<i, m>> \notin Popped
      BY <2>2, <3>2
    <3>4. b \in ToSet(lists'[i])
      BY <1>1, <3>2, <3>3, LeftByTrim
    <3>5. QED
      BY <3>4 DEF Free
  <2>3. QED
    BY <2>1, <2>2
<1> HIDE DEF gone
<1>5. Held' = Held /\ Held \cap gone = {}
  BY <1>1, <1>3, Shares DEF Held
<1>6. \A b \in Held \cup (Free \ gone) : size[b] = size'[b]
  BY <1>1, <1>5, Shares
<1>7. IsFiniteSet(Held \cup (Free \ gone)) /\ IsFiniteSet(gone) /\ IsFiniteSet(Held)
  BY <1>3, Shares, FS_Subset
<1>8. Total(size', Held) = Total(size, Held)
  BY <1>6, <1>7, TotalOfSame
<1>9. Total(size', Held \cup (Free \ gone)) = Total(size, Held \cup (Free \ gone))
  BY <1>6, <1>7, TotalOfSame
<1>10. /\ Total(size, gone) \in Int /\ Total(size, Held \cup (Free \ gone)) \in Int
       /\ Total(size, Held \cup Free) = Total(size, Held \cup (Free \ gone)) + Total(size, gone)
  <2> DEFINE rest == Held \cup (Free \ gone)
  <2>1. Held \cup Free = rest \cup gone
    BY <1>3
  <2>2. rest \cap gone = {} /\ IsFiniteSet(rest)
    BY <1>5, <1>7
  <2>3. \A b \in Held \cup Free : size[b] \in Int
    BY Shares, Sizes
  <2> HIDE DEF rest
  <2>4. /\ Total(size, gone) \in Int /\ Total(size, rest) \in Int
        /\ Total(size, rest \cup gone) = Total(size, rest) + Total(size, gone)
    BY <1>7, <2>1, <2>2, <2>3, TotalOfBoth
  <2>5. QED
    BY <2>1, <2>4 DEF rest
<1>11. UsageExact'
  BY <1>1, <1>5, <1>8, AccountsSay DEF Accounts
<1>12. NothingLost'
  <2>1. obtained = Total(size, Held \cup Free)
    BY AccountsSay DEF Accounts
  <2>2. obtained' = Total(size, Held \cup (Free \ gone))
    BY <1>2, <1>10, <2>1
  <2>3. (Held \cup Free)' = Held \cup (Free \ gone)
    BY <1>4, <1>5
  <2>4. QED
    BY <1>9, <2>2, <2>3, AccountsSay
<1>13. PoolTypes'
  <2>1. size' \in [Blocks -> Nat] /\ ptr' \in [Blocks -> Addresses \cup {0}]
        /\ addressed' \subseteq Addresses
    BY <1>1 DEF Accounts, PoolTypes
  <2>2. lists' \in [Slots -> Seq(Blocks)]
    BY DEF PoolInvariant, Shape
  <2>3. obtained' \in Int
    BY <1>2, <1>10 DEF Accounts, PoolTypes
  <2>4. QED
    BY <1>1, <2>1, <2>2, <2>3 DEF Accounts, PoolTypes
<1>14. QED
  BY <1>11, <1>12, <1>13 DEF Accounts

LEMMA AccountsStep == PoolInvariant /\ Accounts /\ [PoolNext]_poolVars => Accounts'
<1> SUFFICES ASSUME PoolInvariant, Accounts, [PoolNext]_poolVars
             PROVE  Accounts'
  OBVIOUS
<1>0. PoolInvariant'
  BY PoolStep
<1>1. CASE Allocate
  BY <1>0, <1>1, ReuseCounted, NewCounted DEF Allocate
<1>2. CASE \E b \in Blocks : AddRef(b) \/ FreeBlock(b)
  BY <1>0, <1>2, RefCounted, FreeCounted
<1>3. CASE Defragment
  BY <1>0, <1>3, DefragmentCounted
<1>4. CASE \E target \in Requests : Trim(target)
  BY <1>0, <1>4, TrimCounted
<1>5. CASE UNCHANGED poolVars
  <2>1. Held' = Held /\ Free' = Free
    BY <1>5 DEF poolVars, Held, Free
  <2>2. UsageExact' /\ NothingLost'
    BY <1>5, <2>1, AccountsSay DEF Accounts, poolVars
  <2>3. PoolTypes'
    BY <1>5 DEF Accounts, PoolTypes, poolVars
  <2>4. QED
    BY <2>2, <2>3 DEF Accounts
<1>6. QED
  BY <1>1, <1>2, <1>3, <1>4, <1>5 DEF PoolNext

LEMMA AccountsKept == PoolSpec => [](PoolInvariant /\ Accounts)
BY Start, AccountsStart, PoolStep, AccountsStep, PTL DEF PoolSpec

-----------------------------------------------------------------------------
(* allocate() never hands out a block that somebody holds, nor one block
   twice, whatever is freed, merged and trimmed in between. *)
THEOREM PoolHasOneOwner == PoolSpec => []OneOwner
<1>1. PoolInvariant => OneOwner
  BY DEF PoolInvariant
<1>2. QED
  BY <1>1, Start, PoolStep, PTL DEF PoolSpec

(* A block is of the class that was asked for or of a higher one, and a large
   one is large enough. *)
THEOREM PoolKeepsClass == PoolSpec => []OfTheClass
<1>1. PoolInvariant => OfTheClass
  BY DEF PoolInvariant
<1>2. QED
  BY <1>1, Start, PoolStep, PTL DEF PoolSpec

(* current_usage, _total_allocated - _total_freed, is the sum of the sizes of the blocks
   that are held, for any blocks, classes, requests and addresses. *)
THEOREM UsageStaysExact == PoolSpec => []UsageExact
<1>1. Accounts => UsageExact
  BY DEF Accounts
<1>2. QED
  BY <1>1, AccountsKept, PTL

(* What the pool got from the system and has not given back with trim() is held or in one
   of the free lists, however blocks were merged. *)
THEOREM NothingGetsLost == PoolSpec => []NothingLost
<1>1. Accounts => NothingLost
  BY DEF Accounts
<1>2. QED
  BY <1>1, AccountsKept, PTL

LEMMA PoolTyped == PoolInvariant /\ Accounts => PoolTypeOK
BY AccountsSay, Sizes DEF Accounts, PoolTypeOK

(* The types of the pool; _total_freed never overtakes _total_allocated. *)
THEOREM PoolTypeCorrect == PoolSpec => []PoolTypeOK
BY AccountsKept, PoolTyped, PTL
-----------------------------------------------------------------------------
(* The cache of compiled kernels. *)

\* What the type invariant says of the callers, of memory, and of the files.
CallersOK ==
  /\ caller \in [Callers -> [at : CallerPlaces, keys : SUBSET Keys]]
  /\ \A t \in Callers :
       /\ Cardinality(caller[t].keys) <= 1 \/ caller[t].at = "clears"
       /\ caller[t].at \in {"opens", "writes"} => caller[t].keys \subseteq Persistent
MemoryOK ==
  memory \subseteq Keys /\ order \in Seq(Keys) /\ memory \subseteq ToSet(order)
DiskOK ==
  /\ disk \in [Keys -> {"none", "good", "bad"}]
  /\ \A k \in Keys : disk[k] # "none" => k \in Persistent

CacheInvariant == CallersOK /\ MemoryOK /\ DiskOK /\ raced \in BOOLEAN
-----------------------------------------------------------------------------
LEMMA CacheStart == CacheInit => CacheInvariant
<1> SUFFICES ASSUME CacheInit PROVE CacheInvariant
  OBVIOUS
<1>1. order \in Seq(Keys)
  BY EmptySeq DEF CacheInit
<1>2. Nowhere \in [at : CallerPlaces, keys : SUBSET Keys]
  BY DEF Nowhere, CallerPlaces
<1>3. Cardinality({}) = 0
  BY FS_EmptySet
<1>4. \A t \in Callers : caller[t] = Nowhere
  BY DEF CacheInit
<1>5. \A t \in Callers : /\ Cardinality(caller[t].keys) <= 1
                         /\ caller[t].at = "idle"
  <2>1. Nowhere.keys = {} /\ Nowhere.at = "idle"
    BY DEF Nowhere
  <2>2. QED
    BY <1>3, <1>4, <2>1
<1>6. caller \in [Callers -> [at : CallerPlaces, keys : SUBSET Keys]]
  BY <1>2 DEF CacheInit
<1>7. CallersOK
  BY <1>5, <1>6 DEF CallersOK
<1>8. QED
  BY <1>1, <1>7 DEF CacheInit, CacheInvariant, MemoryOK, DiskOK

(* Popping from the front takes from memory what it takes from the order. *)
LEMMA EvictKeeps ==
  ASSUME NEW keys \in SUBSET Keys, NEW list \in Seq(Keys),
         keys \subseteq ToSet(list), NEW n \in 0..Len(list),
         Evict(keys, list, n)
  PROVE  /\ memory' \subseteq Keys /\ order' \in Seq(Keys)
         /\ memory' \subseteq ToSet(order')
<1>1. /\ memory' = keys \ {list[i] : i \in 1..n}
      /\ order' = SubSeq(list, n + 1, Len(list))
  BY DEF Evict, Without
<1>2. Len(list) \in Nat /\ DOMAIN list = 1..Len(list)
  BY LenProperties
<1>3. \A i \in 1..Len(list) : list[i] \in Keys
  BY <1>2, ElementOfSeq
<1>4. /\ order' \in Seq(Keys)
      /\ Len(order') = Len(list) - n
      /\ \A i \in 1..(Len(list) - n) : order'[i] = list[n + i]
  BY <1>1, RestKeeps, Zenon
<1>5. DOMAIN order' = 1..(Len(list) - n)
  <2>1. DOMAIN order' = 1..Len(order')
    BY <1>4, LenProperties, Zenon
  <2>2. QED
    BY <1>4, <2>1
<1>6. ASSUME NEW k \in memory'
      PROVE  k \in ToSet(order')
  <2>1. k \in keys /\ k \notin {list[i] : i \in 1..n}
    BY <1>1
  <2>2. PICK j \in 1..Len(list) : list[j] = k
    BY <1>2, <2>1 DEF ToSet
  <2>3. j \notin 1..n
    BY <2>1, <2>2
  <2>4. j - n \in 1..(Len(list) - n) /\ n + (j - n) = j
    BY <1>2, <2>3
  <2>5. order'[j - n] = k
    BY <1>4, <2>2, <2>4
  <2>6. QED
    BY <1>5, <2>4, <2>5 DEF ToSet
<1>7. QED
  BY <1>1, <1>4, <1>6

LEMMA InsertKeeps ==
  ASSUME MemoryOK, NEW k \in Keys, NEW n \in 0..(Len(order) + 1),
         Insert(k, n)
  PROVE  /\ memory' \subseteq Keys /\ order' \in Seq(Keys)
         /\ memory' \subseteq ToSet(order')
<1> DEFINE list == Append(order, k)
<1>1. order \in Seq(Keys) /\ memory \subseteq Keys /\ memory \subseteq ToSet(order)
  BY DEF MemoryOK
<1>2. /\ list \in Seq(Keys) /\ Len(list) = Len(order) + 1
      /\ \A i \in 1..Len(order) : list[i] = order[i]
      /\ list[Len(order) + 1] = k
  BY <1>1, AppendProperties
<1>3. Len(order) \in Nat /\ DOMAIN order = 1..Len(order)
  BY <1>1, LenProperties
<1>4. Evict(memory \cup {k}, list, n)
  BY DEF Insert
<1> HIDE DEF list
<1>5. DOMAIN list = 1..Len(list)
  BY <1>2, LenProperties
<1>6. memory \cup {k} \subseteq ToSet(list)
  <2>1. k \in ToSet(list)
    BY <1>2, <1>3, <1>5 DEF ToSet
  <2>2. ToSet(order) \subseteq ToSet(list)
    BY <1>2, <1>3, <1>5 DEF ToSet
  <2>3. QED
    BY <1>1, <2>1, <2>2
<1>7. n \in 0..Len(list)
  BY <1>2
<1>8. QED
  BY <1>1, <1>2, <1>4, <1>6, <1>7, EvictKeeps

(* A hit moves its key to the end. *)
LEMMA MoveKeeps ==
  ASSUME NEW list \in Seq(Keys), NEW n \in DOMAIN list
  PROVE  /\ Append(RemoveAt(list, n), list[n]) \in Seq(Keys)
         /\ ToSet(list) \subseteq ToSet(Append(RemoveAt(list, n), list[n]))
<1> DEFINE rest == RemoveAt(list, n)
           moved == Append(RemoveAt(list, n), list[n])
<1>1. Len(list) \in Nat /\ DOMAIN list = 1..Len(list) /\ n \in 1..Len(list)
  BY LenProperties
<1>2. list[n] \in Keys
  BY <1>1, ElementOfSeq
<1>3. /\ rest \in Seq(Keys) /\ DOMAIN rest = 1..(Len(list) - 1)
      /\ \A j \in 1..(Len(list) - 1) :
           rest[j] = IF j < n THEN list[j] ELSE list[j + 1]
  BY <1>1, RemoveAtKeeps
<1> HIDE DEF rest
<1>4. Len(rest) \in Nat /\ DOMAIN rest = 1..Len(rest)
  BY <1>3, LenProperties
<1>5. /\ moved \in Seq(Keys) /\ Len(moved) = Len(rest) + 1
      /\ \A i \in 1..Len(rest) : moved[i] = rest[i]
      /\ moved[Len(rest) + 1] = list[n]
  BY <1>2, <1>3, AppendProperties DEF rest
<1> HIDE DEF moved
<1>6. DOMAIN moved = 1..(Len(rest) + 1)
  <2>1. DOMAIN moved = 1..Len(moved)
    BY <1>5, LenProperties, Zenon
  <2>2. QED
    BY <1>5, <2>1
<1>7. ASSUME NEW i \in 1..Len(list)
      PROVE  \E j \in DOMAIN moved : moved[j] = list[i]
  <2>1. CASE i < n
    <3>1. i \in 1..(Len(list) - 1)
      BY <1>1, <2>1
    <3>2. i \in 1..Len(rest) /\ rest[i] = list[i]
      BY <1>3, <1>4, <2>1, <3>1
    <3>3. QED
      BY <1>4, <1>5, <1>6, <3>2
  <2>2. CASE i = n
    <3>1. Len(rest) + 1 \in DOMAIN moved
      BY <1>4, <1>6
    <3>2. QED
      BY <1>5, <2>2, <3>1
  <2>3. CASE i > n
    <3>1. i - 1 \in 1..(Len(list) - 1) /\ ~(i - 1 < n) /\ (i - 1) + 1 = i
      BY <1>1, <2>3
    <3>2. i - 1 \in 1..Len(rest) /\ rest[i - 1] = list[i]
      BY <1>3, <1>4, <3>1
    <3>3. QED
      BY <1>4, <1>5, <1>6, <3>2
  <2>4. QED
    BY <1>1, <2>1, <2>2, <2>3
<1>8. moved \in Seq(Keys) /\ ToSet(list) \subseteq ToSet(moved)
  BY <1>1, <1>5, <1>7 DEF ToSet
<1>9. QED
  BY <1>8 DEF moved
-----------------------------------------------------------------------------
(* A caller goes on with its key: to the file only if the key has one. *)
LEMMA GoesKeeps ==
  ASSUME CallersOK, NEW t \in Callers, NEW k \in Keys, NEW place \in CallerPlaces,
         place \in {"opens", "writes"} => k \in Persistent,
         Goes(t, place, k)
  PROVE  CallersOK'
<1> DEFINE there == [at |-> place, keys |-> {k}]
<1>1. Cardinality({k}) = 1
  BY FS_Singleton
<1>2. /\ there \in [at : CallerPlaces, keys : SUBSET Keys]
      /\ there.at = place /\ there.keys = {k}
  OBVIOUS
<1>3. caller' = [caller EXCEPT ![t] = there]
  BY DEF Goes
<1> HIDE DEF there
<1>4. /\ caller' \in [Callers -> [at : CallerPlaces, keys : SUBSET Keys]]
      /\ \A u \in Callers : caller'[u] = there \/ caller'[u] = caller[u]
  BY <1>2, <1>3 DEF CallersOK
<1>5. ASSUME NEW u \in Callers
      PROVE  /\ Cardinality(caller'[u].keys) <= 1 \/ caller'[u].at = "clears"
             /\ caller'[u].at \in {"opens", "writes"}
                  => caller'[u].keys \subseteq Persistent
  <2>1. CASE caller'[u] = there
    BY <1>1, <1>2, <2>1
  <2>2. CASE caller'[u] = caller[u]
    BY <2>2 DEF CallersOK
  <2>3. QED
    BY <1>4, <2>1, <2>2
<1>6. QED
  BY <1>4, <1>5 DEF CallersOK

LEMMA LeavesKeeps ==
  ASSUME CallersOK, NEW t \in Callers, Leaves(t)
  PROVE  CallersOK'
<1>1. Cardinality({}) = 0
  BY FS_EmptySet
<1>2. /\ Nowhere \in [at : CallerPlaces, keys : SUBSET Keys]
      /\ Nowhere.at = "idle" /\ Nowhere.keys = {}
  BY DEF Nowhere, CallerPlaces
<1>3. /\ caller' \in [Callers -> [at : CallerPlaces, keys : SUBSET Keys]]
      /\ \A u \in Callers : caller'[u] = Nowhere \/ caller'[u] = caller[u]
  BY <1>2 DEF Leaves, CallersOK
<1>4. ASSUME NEW u \in Callers
      PROVE  /\ Cardinality(caller'[u].keys) <= 1 \/ caller'[u].at = "clears"
             /\ caller'[u].at \in {"opens", "writes"}
                  => caller'[u].keys \subseteq Persistent
  <2>1. CASE caller'[u] = Nowhere
    BY <1>1, <1>2, <2>1
  <2>2. CASE caller'[u] = caller[u]
    BY <2>2 DEF CallersOK
  <2>3. QED
    BY <1>3, <2>1, <2>2
<1>5. QED
  BY <1>3, <1>4 DEF CallersOK

(* A lookup that does not change memory: a hit is the exception. *)
LEMMA HitKeeps ==
  ASSUME CacheInvariant, NEW t \in Callers, NEW k \in Keys, Hit(t, k)
  PROVE  CacheInvariant'
<1>1. CallersOK /\ MemoryOK /\ DiskOK /\ raced \in BOOLEAN
  BY DEF CacheInvariant
<1>2. memory' = memory /\ disk' = disk /\ raced' = raced /\ k \in ToSet(order)
  BY <1>1 DEF Hit, MemoryOK
<1>3. PICK n \in DOMAIN order : /\ order[n] = k
                               /\ order' = Append(RemoveAt(order, n), k)
                               /\ Leaves(t)
  BY <1>2 DEF Hit
<1>4. CallersOK'
  BY <1>1, <1>3, LeavesKeeps
<1>5. order \in Seq(Keys) /\ order' = Append(RemoveAt(order, n), order[n])
  BY <1>1, <1>3 DEF MemoryOK
<1>6. order' \in Seq(Keys) /\ ToSet(order) \subseteq ToSet(order')
  BY <1>5, MoveKeeps, Zenon
<1>7. MemoryOK'
  BY <1>1, <1>2, <1>6 DEF MemoryOK
<1>8. DiskOK' /\ raced' \in BOOLEAN
  BY <1>1, <1>2 DEF DiskOK
<1>9. QED
  BY <1>4, <1>7, <1>8, Zenon DEF CacheInvariant

(* What a caller does under the lock, when it puts its key into memory. *)
LEMMA PutKeeps ==
  ASSUME CacheInvariant, NEW t \in Callers, NEW k \in Keys,
         InsertLoaded(t, k) \/ Put(t, k)
  PROVE  CacheInvariant'
<1>1. CallersOK /\ MemoryOK /\ DiskOK /\ raced \in BOOLEAN
  BY DEF CacheInvariant
<1>2. disk' = disk /\ raced' = raced
  BY DEF InsertLoaded, Put
<1>3. PICK n \in 0..(Len(order) + 1) : Insert(k, n)
  BY DEF InsertLoaded, Put
<1>4. MemoryOK'
  BY <1>1, <1>3, InsertKeeps DEF MemoryOK
<1>5. DiskOK' /\ raced' \in BOOLEAN
  BY <1>1, <1>2 DEF DiskOK
<1>6. \/ Leaves(t)
      \/ \E place \in {"unlinks", "raised", "opens"} :
           Goes(t, place, k) /\ (place = "opens" => k \in Persistent)
  BY DEF InsertLoaded, Put
<1>7. CallersOK'
  <2>1. CASE Leaves(t)
    BY <1>1, <2>1, LeavesKeeps
  <2>2. CASE \E place \in {"unlinks", "raised", "opens"} :
               Goes(t, place, k) /\ (place = "opens" => k \in Persistent)
    <3>1. PICK place \in {"unlinks", "raised", "opens"} :
            Goes(t, place, k) /\ (place = "opens" => k \in Persistent)
      BY <2>2
    <3>2. place \in CallerPlaces /\ (place \in {"opens", "writes"} => k \in Persistent)
      BY <3>1 DEF CallerPlaces
    <3>3. QED
      BY <1>1, <3>1, <3>2, GoesKeeps
  <2>3. QED
    BY <1>6, <2>1, <2>2
<1>8. QED
  BY <1>4, <1>5, <1>7, Zenon DEF CacheInvariant

(* What a caller does outside the lock: it looks for the file, reads, unlinks or
   writes it. *)
LEMMA FileKeeps ==
  ASSUME CacheInvariant, NEW t \in Callers, NEW k \in Keys,
         \/ Miss(t, k) \/ Probe(t, k) \/ Load(t, k) \/ Unlink(t, k)
         \/ Open(t, k) \/ Write(t, k)
  PROVE  CacheInvariant'
<1>1. CallersOK /\ MemoryOK /\ DiskOK /\ raced \in BOOLEAN
  BY DEF CacheInvariant
<1>2. memory' = memory /\ order' = order
  BY DEF Miss, Probe, Load, Unlink, Open, Write
<1>3. MemoryOK'
  BY <1>1, <1>2 DEF MemoryOK
<1>4. raced' \in BOOLEAN
  BY <1>1 DEF Miss, Probe, Load, Unlink, Open, Write, Meets
<1>5. ASSUME IsAt(t, "opens", k) \/ IsAt(t, "writes", k)
      PROVE  k \in Persistent
  BY <1>1, <1>5 DEF IsAt, CallersOK
<1>6. DiskOK'
  <2>1. CASE Miss(t, k) \/ Probe(t, k) \/ Load(t, k)
    BY <1>1, <2>1 DEF Miss, Probe, Load, DiskOK
  <2>2. CASE Unlink(t, k)
    BY <1>1, <2>2 DEF Unlink, DiskOK
  <2>3. CASE Open(t, k)
    BY <1>1, <1>5, <2>3 DEF Open, DiskOK
  <2>4. CASE Write(t, k)
    BY <1>1, <1>5, <2>4 DEF Write, DiskOK
  <2>5. QED
    BY <2>1, <2>2, <2>3, <2>4
<1>7. CallersOK'
  <2>1. CASE Write(t, k)
    BY <1>1, <2>1, LeavesKeeps DEF Write
  <2>2. CASE Open(t, k)
    <3>1. Goes(t, "writes", k) /\ k \in Persistent /\ "writes" \in CallerPlaces
      BY <1>5, <2>2 DEF Open, CallerPlaces
    <3>2. QED
      BY <1>1, <3>1, GoesKeeps
  <2>3. CASE Miss(t, k) \/ Probe(t, k) \/ Load(t, k) \/ Unlink(t, k)
    <3>1. \E place \in {"missed", "compiles", "loads", "loaded", "unlinks", "raised"} :
            Goes(t, place, k)
      BY <2>3 DEF Miss, Probe, Load, Unlink
    <3>2. PICK place \in {"missed", "compiles", "loads", "loaded", "unlinks", "raised"} :
            Goes(t, place, k)
      BY <3>1
    <3>3. place \in CallerPlaces /\ place \notin {"opens", "writes"}
      BY <3>2 DEF CallerPlaces
    <3>4. QED
      BY <1>1, <3>2, <3>3, GoesKeeps
  <2>4. QED
    BY <2>1, <2>2, <2>3
<1>8. QED
  BY <1>3, <1>4, <1>6, <1>7 DEF CacheInvariant

LEMMA ClearKeeps ==
  ASSUME CacheInvariant, NEW t \in Callers,
         \/ ClearMemory(t) \/ ClearEnds(t)
         \/ \E k \in Keys : ClearFile(t, k)
  PROVE  CacheInvariant'
<1>1. CallersOK /\ MemoryOK /\ DiskOK /\ raced \in BOOLEAN
  BY DEF CacheInvariant
<1>2. CASE ClearMemory(t)
  <2>1. memory' = {} /\ order' = <<>> /\ disk' = disk /\ raced' \in BOOLEAN
    BY <1>1, <1>2 DEF ClearMemory
  <2>2. MemoryOK'
    BY <2>1, EmptySeq DEF MemoryOK
  <2>3. DiskOK'
    BY <1>1, <2>1 DEF DiskOK
  <2>4. CallersOK'
    BY <1>1, <1>2 DEF ClearMemory, CallersOK, CallerPlaces
  <2>5. QED
    BY <2>1, <2>2, <2>3, <2>4 DEF CacheInvariant
<1>3. CASE ClearEnds(t)
  <2>1. memory' = memory /\ order' = order /\ disk' = disk /\ raced' = raced
    BY <1>3 DEF ClearEnds
  <2>2. CallersOK'
    BY <1>1, <1>3, LeavesKeeps DEF ClearEnds
  <2>3. QED
    BY <1>1, <2>1, <2>2 DEF CacheInvariant, MemoryOK, DiskOK
<1>4. CASE \E k \in Keys : ClearFile(t, k)
  <2>1. PICK k \in Keys : ClearFile(t, k)
    BY <1>4
  <2>2. memory' = memory /\ order' = order /\ raced' = raced
    BY <2>1 DEF ClearFile
  <2>3. DiskOK'
    BY <1>1, <2>1 DEF ClearFile, DiskOK
  <2>4. CallersOK'
    <3>1. CASE disk[k] = "none"
      <4>1. Goes(t, "raised", k) /\ "raised" \in CallerPlaces
        BY <2>1, <3>1 DEF ClearFile, CallerPlaces
      <4>2. QED
        BY <1>1, <4>1, GoesKeeps
    <3>2. CASE disk[k] # "none"
      BY <1>1, <2>1, <3>2 DEF ClearFile, CallersOK, CallerPlaces
    <3>3. QED
      BY <3>1, <3>2
  <2>5. QED
    BY <1>1, <2>2, <2>3, <2>4 DEF CacheInvariant, MemoryOK
<1>5. QED
  BY <1>2, <1>3, <1>4

LEMMA CacheStep == CacheInvariant /\ [CacheNext]_cacheVars => CacheInvariant'
<1> SUFFICES ASSUME CacheInvariant, [CacheNext]_cacheVars
             PROVE  CacheInvariant'
  OBVIOUS
<1>1. ASSUME NEW t \in Callers, NEW k \in Keys, Hit(t, k)
      PROVE  CacheInvariant'
  BY <1>1, HitKeeps
<1>2. ASSUME NEW t \in Callers, NEW k \in Keys, InsertLoaded(t, k) \/ Put(t, k)
      PROVE  CacheInvariant'
  BY <1>2, PutKeeps
<1>3. ASSUME NEW t \in Callers, NEW k \in Keys,
             \/ Miss(t, k) \/ Probe(t, k) \/ Load(t, k) \/ Unlink(t, k)
             \/ Open(t, k) \/ Write(t, k)
      PROVE  CacheInvariant'
  BY <1>3, FileKeeps
<1>4. ASSUME NEW t \in Callers,
             \/ ClearMemory(t) \/ ClearEnds(t)
             \/ \E k \in Keys : ClearFile(t, k)
      PROVE  CacheInvariant'
  BY <1>4, ClearKeeps
<1>5. CASE Restart \/ UNCHANGED cacheVars
  <2>1. CallersOK /\ MemoryOK /\ DiskOK /\ raced \in BOOLEAN
    BY DEF CacheInvariant
  <2>2. CASE Restart
    <3>1. CallersOK'
      <4>1. Cardinality({}) = 0
        BY FS_EmptySet
      <4>2. /\ Nowhere \in [at : CallerPlaces, keys : SUBSET Keys]
            /\ Nowhere.at = "idle" /\ Nowhere.keys = {}
        BY DEF Nowhere, CallerPlaces
      <4>3. caller' = [t \in Callers |-> Nowhere]
        BY <2>2 DEF Restart
      <4>4. \A t \in Callers : Cardinality(caller'[t].keys) <= 1
        BY <4>1, <4>2, <4>3
      <4>5. QED
        BY <4>2, <4>3, <4>4 DEF CallersOK
    <3>2. MemoryOK'
      BY <2>2, EmptySeq DEF Restart, MemoryOK
    <3>3. QED
      BY <2>1, <2>2, <3>1, <3>2 DEF Restart, DiskOK, CacheInvariant
  <2>3. CASE UNCHANGED cacheVars
    BY <2>1, <2>3 DEF cacheVars, CacheInvariant, CallersOK, MemoryOK, DiskOK
  <2>4. QED
    BY <1>5, <2>2, <2>3
<1>6. QED
  BY <1>1, <1>2, <1>3, <1>4, <1>5 DEF CacheNext

LEMMA CacheCorrect == CacheSpec => []CacheInvariant
  BY CacheStart, CacheStep, PTL DEF CacheSpec

LEMMA CacheTyped == CacheInvariant => CacheTypeOK
BY DEF CacheInvariant, CallersOK, MemoryOK, DiskOK, CacheTypeOK

(* In every state the fields of JITCache have their types, and only a key with
   cache_compiled has a file. *)
THEOREM CacheTypeCorrect == CacheSpec => []CacheTypeOK
BY CacheCorrect, CacheTyped, PTL

(* For any number of callers and keys, get() and the eviction find in the access
   order every key that is in memory. *)
THEOREM HitsNeverFail == CacheSpec => []CacheInStep
<1>1. CacheInvariant => CacheInStep
  BY DEF CacheInvariant, MemoryOK, CacheInStep
<1>2. QED
  BY <1>1, CacheCorrect, PTL
-----------------------------------------------------------------------------
\* As long as callers are alone with their keys, the order names what is in
\* memory; a key that is being looked for is not there yet; and a file that was
\* found stays until it is read or unlinked by who found it.
OrderNames ==
  IsInjective(order) /\ ToSet(order) = memory /\ Cardinality(memory) <= MaxSize
Apart ==
  \A t, u \in Callers :
    t # u /\ Active(t) /\ Active(u) =>
      caller[t].at # "clears" /\ \A k \in caller[t].keys : k \notin caller[u].keys
Looking == {"missed", "loads", "loaded", "unlinks", "compiles"}
NotYet ==
  \A t \in Callers : caller[t].at \in Looking =>
    \A k \in caller[t].keys : k \notin memory
Located == {"loads", "unlinks", "clears"}
FilesThere ==
  \A t \in Callers : caller[t].at \in Located =>
    \A k \in caller[t].keys : disk[k] # "none"
NobodyFailed == \A t \in Callers : caller[t].at # "raised"

Orderly == ~raced => /\ OrderNames /\ Apart /\ NotYet /\ FilesThere /\ NobodyFailed
SoundInvariant == CacheInvariant /\ Orderly
-----------------------------------------------------------------------------
(* A caller that goes on with its own keys, or fewer, stays apart from the others,
   whatever it does with the memory and the files of those keys. *)
LEMMA OwnKeys ==
  ASSUME CacheInvariant, Apart, NotYet, FilesThere, NobodyFailed,
         NEW t \in Callers, Active(t),
         NEW next \in [at : CallerPlaces, keys : SUBSET Keys],
         caller' = [caller EXCEPT ![t] = next],
         next.keys \subseteq caller[t].keys,
         next.at = "clears" => caller[t].at = "clears",
         next.at # "raised",
         next.at \in Looking => \A k \in next.keys : k \notin memory',
         next.at \in Located => \A k \in next.keys : disk'[k] # "none",
         \A k \in memory' : k \in memory \/ k \in caller[t].keys,
         \A k \in Keys \ caller[t].keys : disk'[k] = disk[k]
  PROVE  Apart' /\ NotYet' /\ FilesThere' /\ NobodyFailed'
<1>1. /\ caller \in [Callers -> [at : CallerPlaces, keys : SUBSET Keys]]
      /\ \A u \in Callers : caller'[u] = IF u = t THEN next ELSE caller[u]
  BY DEF CacheInvariant, CallersOK
<1>2. \A u \in Callers : caller[u].keys \subseteq Keys
  BY <1>1
<1>3. \A u \in Callers : u # t /\ Active(u) =>
        /\ caller[u].at # "clears" /\ caller[t].at # "clears"
        /\ \A k \in caller[u].keys : k \notin caller[t].keys
  BY DEF Apart
<1>4. NobodyFailed'
  BY <1>1 DEF NobodyFailed
<1>5. ASSUME NEW u \in Callers, NEW v \in Callers, u # v,
             caller'[u].at \notin {"idle", "raised"},
             caller'[v].at \notin {"idle", "raised"}
      PROVE  caller'[u].at # "clears" /\ \A k \in caller'[u].keys : k \notin caller'[v].keys
  <2>1. CASE u = t
    <3>1. caller'[u] = next /\ caller'[v] = caller[v] /\ Active(v)
      BY <1>1, <1>5, <2>1 DEF Active
    <3>2. QED
      BY <1>3, <1>5, <2>1, <3>1
  <2>2. CASE v = t
    <3>1. caller'[v] = next /\ caller'[u] = caller[u] /\ Active(u)
      BY <1>1, <1>5, <2>2 DEF Active
    <3>2. QED
      BY <1>3, <1>5, <2>2, <3>1
  <2>3. CASE u # t /\ v # t
    <3>1. caller'[v] = caller[v] /\ caller'[u] = caller[u] /\ Active(u) /\ Active(v)
      BY <1>1, <1>5, <2>3 DEF Active
    <3>2. QED
      BY <1>5, <3>1 DEF Apart
  <2>4. QED
    BY <2>1, <2>2, <2>3
<1>6. Apart'
  BY <1>5 DEF Apart, Active
<1>7. ASSUME NEW u \in Callers, caller'[u].at \in Looking, NEW k \in caller'[u].keys
      PROVE  k \notin memory'
  <2>1. CASE u = t
    BY <1>1, <1>7, <2>1
  <2>2. CASE u # t
    <3>1. caller'[u] = caller[u] /\ Active(u)
      BY <1>1, <1>7, <2>2 DEF Active, Looking
    <3>2. k \notin memory /\ k \notin caller[t].keys
      BY <1>3, <1>7, <2>2, <3>1 DEF NotYet
    <3>3. QED
      BY <3>2
  <2>3. QED
    BY <2>1, <2>2
<1>8. ASSUME NEW u \in Callers, caller'[u].at \in Located, NEW k \in caller'[u].keys
      PROVE  disk'[k] # "none"
  <2>1. CASE u = t
    BY <1>1, <1>8, <2>1
  <2>2. CASE u # t
    <3>1. caller'[u] = caller[u] /\ Active(u)
      BY <1>1, <1>8, <2>2 DEF Active, Located
    <3>2. disk[k] # "none" /\ k \in Keys \ caller[t].keys
      BY <1>2, <1>3, <1>8, <2>2, <3>1 DEF FilesThere
    <3>3. QED
      BY <3>2
  <2>3. QED
    BY <2>1, <2>2
<1>9. QED
  BY <1>4, <1>6, <1>7, <1>8 DEF NotYet, FilesThere

(* Popping from the front of an order that names each key once never misses, and
   what is left in the order is what is left in memory. *)
LEMMA EvictIsSound ==
  ASSUME NEW list \in Seq(Keys), IsInjective(list), NEW n \in 0..Len(list),
         Evict(ToSet(list), list, n)
  PROVE  /\ ~Missing(ToSet(list), list, n)
         /\ OrderNames'
<1> DEFINE keys == ToSet(list)
<1>1. Len(list) \in Nat /\ DOMAIN list = 1..Len(list)
  BY LenProperties
<1>2. /\ memory' = keys \ {list[i] : i \in 1..n}
      /\ order' = SubSeq(list, n + 1, Len(list))
      /\ Stops(keys, list, n)
  BY DEF Evict, Without
<1>3. \A i \in 1..Len(list) : list[i] \in keys
  BY <1>1 DEF ToSet
<1>4. \A i, j \in 1..Len(list) : list[i] = list[j] => i = j
  BY <1>1 DEF IsInjective
<1>5. ~Missing(keys, list, n)
  <2>1. SUFFICES ASSUME n > 0
                 PROVE  list[n] \in Without(keys, list, n - 1)
    BY DEF Missing
  <2>2. n \in 1..Len(list) /\ n - 1 \in Nat /\ \A i \in 1..(n - 1) : i \in 1..Len(list) /\ i # n
    BY <1>1, <2>1
  <2>3. list[n] \in keys /\ \A i \in 1..(n - 1) : list[i] # list[n]
    BY <1>3, <1>4, <2>2
  <2>4. QED
    BY <2>3 DEF Without
<1>6. Cardinality(memory') <= MaxSize
  BY <1>2, <1>5 DEF Stops, SmallEnough, Without
<1>7. /\ order' \in Seq(Keys)
      /\ Len(order') = Len(list) - n
      /\ \A i \in 1..(Len(list) - n) : order'[i] = list[n + i]
  BY <1>2, RestKeeps, Zenon
<1>8. DOMAIN order' = 1..(Len(list) - n)
  <2>1. DOMAIN order' = 1..Len(order')
    BY <1>7, LenProperties, Zenon
  <2>2. QED
    BY <1>7, <2>1
<1>9. \A i \in 1..(Len(list) - n) : n + i \in 1..Len(list) /\ n + i \notin 1..n
  BY <1>1
<1>10. IsInjective(order')
  <2>1. ASSUME NEW i \in 1..(Len(list) - n), NEW j \in 1..(Len(list) - n),
               order'[i] = order'[j]
        PROVE  i = j
    <3>1. n + i = n + j
      BY <1>4, <1>7, <1>9, <2>1
    <3>2. QED
      BY <1>1, <3>1
  <2>2. QED
    BY <1>8, <2>1 DEF IsInjective
<1>11. \A k \in ToSet(order') : k \in memory'
  <2>1. ASSUME NEW i \in 1..(Len(list) - n)
        PROVE  order'[i] \in memory'
    <3>1. order'[i] = list[n + i] /\ list[n + i] \in keys
      BY <1>3, <1>7, <1>9
    <3>2. \A j \in 1..n : j \in 1..Len(list) /\ j # n + i
      BY <1>1
    <3>3. \A j \in 1..n : list[j] # list[n + i]
      BY <1>4, <1>9, <3>2
    <3>4. QED
      BY <1>2, <3>1, <3>3
  <2>2. QED
    BY <1>8, <2>1 DEF ToSet
<1>12. ASSUME NEW k \in memory'
       PROVE  k \in ToSet(order')
  <2>1. k \in keys /\ k \notin {list[i] : i \in 1..n}
    BY <1>2
  <2>2. PICK j \in 1..Len(list) : list[j] = k
    BY <1>1, <2>1 DEF ToSet
  <2>3. j \notin 1..n
    BY <2>1, <2>2
  <2>4. j - n \in 1..(Len(list) - n) /\ n + (j - n) = j
    BY <1>1, <2>3
  <2>5. order'[j - n] = k
    BY <1>7, <2>2, <2>4
  <2>6. QED
    BY <1>8, <2>4, <2>5 DEF ToSet
<1>13. ToSet(order') = memory'
  BY <1>11, <1>12
<1>14. QED
  BY <1>5, <1>6, <1>10, <1>13 DEF OrderNames

(* A new key goes into memory and into the order. *)
LEMMA InsertIsSound ==
  ASSUME MemoryOK, OrderNames, NEW k \in Keys, k \notin memory,
         NEW n \in 0..(Len(order) + 1), Insert(k, n)
  PROVE  /\ ~Fails(k, n)
         /\ OrderNames'
         /\ \A j \in memory' : j \in memory \/ j = k
<1> DEFINE list == Append(order, k)
<1>1. order \in Seq(Keys) /\ ToSet(order) = memory /\ IsInjective(order)
  BY DEF MemoryOK, OrderNames
<1>2. /\ list \in Seq(Keys) /\ Len(list) = Len(order) + 1
      /\ \A i \in 1..Len(order) : list[i] = order[i]
      /\ list[Len(order) + 1] = k
  BY <1>1, AppendProperties
<1>3. Len(order) \in Nat /\ DOMAIN order = 1..Len(order)
  BY <1>1, LenProperties
<1>4. Evict(memory \cup {k}, list, n)
  BY DEF Insert
<1>5. Fails(k, n) <=> Missing(memory \cup {k}, list, n)
  BY DEF Fails
<1> HIDE DEF list
<1>6. DOMAIN list = 1..(Len(order) + 1)
  <2>1. DOMAIN list = 1..Len(list)
    BY <1>2, LenProperties, Zenon
  <2>2. QED
    BY <1>2, <2>1
<1>7. \A i \in 1..(Len(order) + 1) : i = Len(order) + 1 \/ i \in 1..Len(order)
  BY <1>3
<1>8. \A i \in 1..Len(order) : order[i] \in memory /\ i # Len(order) + 1
                               /\ i \in 1..(Len(order) + 1)
  BY <1>1, <1>3 DEF ToSet
<1>9. Len(order) + 1 \in 1..(Len(order) + 1)
  BY <1>3
<1>10. ToSet(list) = memory \cup {k}
  <2>1. \A x \in ToSet(list) : x \in memory \cup {k}
    <3>1. \A i \in 1..(Len(order) + 1) : list[i] \in memory \cup {k}
      BY <1>2, <1>7, <1>8
    <3>2. QED
      BY <1>6, <3>1 DEF ToSet
  <2>2. k \in ToSet(list)
    BY <1>2, <1>6, <1>9 DEF ToSet
  <2>3. ASSUME NEW x \in memory
        PROVE  x \in ToSet(list)
    <3>1. PICK i \in 1..Len(order) : order[i] = x
      BY <1>1, <1>3 DEF ToSet
    <3>2. list[i] = x /\ i \in DOMAIN list
      BY <1>2, <1>6, <1>8, <3>1
    <3>3. QED
      BY <3>2 DEF ToSet
  <2>4. QED
    BY <2>1, <2>2, <2>3
<1>11. IsInjective(list)
  <2>1. \A i, j \in 1..Len(order) : order[i] = order[j] => i = j
    BY <1>1, <1>3 DEF IsInjective
  <2>2. ASSUME NEW i \in 1..(Len(order) + 1), NEW j \in 1..(Len(order) + 1),
               list[i] = list[j]
        PROVE  i = j
    BY <1>2, <1>7, <1>8, <2>1, <2>2
  <2>3. QED
    BY <1>6, <2>2 DEF IsInjective
<1>12. n \in 0..Len(list)
  BY <1>2
<1>13. Evict(ToSet(list), list, n)
  BY <1>4, <1>10
<1>14. ~Missing(ToSet(list), list, n) /\ OrderNames'
  BY <1>2, <1>11, <1>12, <1>13, EvictIsSound
<1>15. \A j \in memory' : j \in memory \/ j = k
  BY <1>4 DEF Evict, Without
<1>16. QED
  BY <1>5, <1>10, <1>14, <1>15

(* Moving a key to the end of the order names the same keys, each still once. *)
LEMMA MoveIsSound ==
  ASSUME NEW list \in Seq(Keys), IsInjective(list), NEW n \in DOMAIN list
  PROVE  /\ IsInjective(Append(RemoveAt(list, n), list[n]))
         /\ ToSet(Append(RemoveAt(list, n), list[n])) = ToSet(list)
<1> DEFINE rest == RemoveAt(list, n)
           moved == Append(RemoveAt(list, n), list[n])
           L == Len(list)
<1>1. L \in Nat /\ DOMAIN list = 1..L /\ n \in 1..L
  BY LenProperties
<1>2. list[n] \in Keys
  BY <1>1, ElementOfSeq
<1>3. /\ rest \in Seq(Keys) /\ DOMAIN rest = 1..(L - 1)
      /\ \A j \in 1..(L - 1) :
           rest[j] = IF j < n THEN list[j] ELSE list[j + 1]
  BY <1>1, RemoveAtKeeps
<1>4. ToSet(list) \subseteq ToSet(moved)
  BY MoveKeeps
<1> HIDE DEF rest, L
<1>5. Len(rest) = L - 1
  <2>1. Len(rest) \in Nat /\ DOMAIN rest = 1..Len(rest)
    BY <1>3, LenProperties
  <2>2. \A x \in Int : 1 <= x /\ x <= Len(rest) <=> 1 <= x /\ x <= L - 1
    <3>1. 1..Len(rest) = 1..(L - 1)
      BY <1>3, <2>1
    <3>2. QED
      BY <1>1, <2>1, <3>1
  <2>3. Len(rest) \in Int /\ L - 1 \in Int /\ L - 1 >= 0
    BY <1>1, <2>1
  <2>4. QED
    BY <1>1, <2>1, <2>2, <2>3
<1>6. /\ moved \in Seq(Keys) /\ Len(moved) = Len(rest) + 1
      /\ \A i \in 1..Len(rest) : moved[i] = rest[i]
      /\ moved[Len(rest) + 1] = list[n]
  BY <1>2, <1>3, AppendProperties DEF rest
<1> HIDE DEF moved
<1>7. DOMAIN moved = 1..L
  <2>1. DOMAIN moved = 1..Len(moved)
    BY <1>6, LenProperties, Zenon
  <2>2. Len(moved) = L
    BY <1>1, <1>5, <1>6
  <2>3. QED
    BY <2>1, <2>2
\* Where the key at a place of the moved list comes from.
<1> DEFINE from(i) == IF i < n THEN i ELSE IF i = L THEN n ELSE i + 1
<1>8. \A i \in 1..L : from(i) \in 1..L
  BY <1>1
<1>9. \A i \in 1..L : moved[i] = list[from(i)]
  <2>1. ASSUME NEW i \in 1..L
        PROVE  moved[i] = list[from(i)]
    <3>1. CASE i = L
      <4>1. ~(i < n) /\ from(i) = n /\ i = Len(rest) + 1
        BY <1>1, <1>5, <3>1
      <4>2. QED
        BY <1>6, <4>1
    <3>2. CASE i # L
      <4>1. i \in 1..(L - 1)
        BY <1>1, <3>2
      <4>2. moved[i] = rest[i]
        BY <1>5, <1>6, <4>1
      <4>3. rest[i] = IF i < n THEN list[i] ELSE list[i + 1]
        BY <1>3, <4>1
      <4>4. QED
        BY <3>2, <4>2, <4>3
    <3>3. QED
      BY <3>1, <3>2
  <2>2. QED
    BY <2>1
<1>10. \A i, j \in 1..L : from(i) = from(j) => i = j
  BY <1>1
<1> HIDE DEF from
<1>11. \A i, j \in 1..L : list[i] = list[j] => i = j
  BY <1>1 DEF IsInjective
<1>12. IsInjective(moved)
  BY <1>7, <1>8, <1>9, <1>10, <1>11 DEF IsInjective
<1>13. ToSet(moved) \subseteq ToSet(list)
  <2>1. \A i \in 1..L : moved[i] \in ToSet(list)
    BY <1>1, <1>8, <1>9 DEF ToSet
  <2>2. QED
    BY <1>7, <2>1 DEF ToSet
<1>14. QED
  BY <1>4, <1>12, <1>13 DEF moved

(* A caller that begins with nothing, or ends, leaves the others as they were. *)
LEMMA RestingIsSound ==
  ASSUME CacheInvariant, Apart, NotYet, FilesThere, NobodyFailed,
         NEW t \in Callers, Leaves(t), memory' = memory, disk' = disk
  PROVE  Apart' /\ NotYet' /\ FilesThere' /\ NobodyFailed'
<1>1. Nowhere.at = "idle" /\ Nowhere.keys = {}
  BY DEF Nowhere
<1>2. \A u \in Callers : caller'[u] = IF u = t THEN Nowhere ELSE caller[u]
  BY DEF Leaves, CacheInvariant, CallersOK
<1> HIDE DEF Nowhere
<1>3. NobodyFailed' /\ NotYet' /\ FilesThere'
  BY <1>1, <1>2 DEF NobodyFailed, NotYet, FilesThere
<1>4. Apart'
  BY <1>1, <1>2 DEF Apart, Active
<1>5. QED
  BY <1>3, <1>4

(* The lookup in memory. *)
LEMMA HitIsSound ==
  ASSUME SoundInvariant, ~raced, NEW t \in Callers, NEW k \in Keys, Hit(t, k)
  PROVE  Orderly'
<1>1. /\ CacheInvariant /\ MemoryOK /\ OrderNames
      /\ Apart /\ NotYet /\ FilesThere /\ NobodyFailed
  BY DEF SoundInvariant, CacheInvariant, Orderly
<1>2. memory' = memory /\ disk' = disk /\ k \in ToSet(order)
  BY <1>1 DEF Hit, MemoryOK
<1>3. PICK n \in DOMAIN order : /\ order[n] = k
                               /\ order' = Append(RemoveAt(order, n), k)
                               /\ Leaves(t)
  BY <1>2 DEF Hit
<1>4. /\ order \in Seq(Keys) /\ IsInjective(order)
      /\ order' = Append(RemoveAt(order, n), order[n])
  BY <1>1, <1>3 DEF MemoryOK, OrderNames
<1>5. IsInjective(order') /\ ToSet(order') = ToSet(order)
  BY <1>4, MoveIsSound, Zenon
<1>6. OrderNames'
  BY <1>1, <1>2, <1>5 DEF OrderNames
<1>7. QED
  BY <1>1, <1>2, <1>3, <1>6, RestingIsSound DEF Orderly

LEMMA MissIsSound ==
  ASSUME SoundInvariant, ~raced, NEW t \in Callers, NEW k \in Keys, Miss(t, k),
         ~raced'
  PROVE  Orderly'
<1>1. /\ CallersOK /\ OrderNames
      /\ Apart /\ NotYet /\ FilesThere /\ NobodyFailed
  BY DEF SoundInvariant, CacheInvariant, Orderly
<1> DEFINE next == [at |-> "missed", keys |-> {k}]
<1>2. /\ memory' = memory /\ order' = order /\ disk' = disk /\ k \notin memory
      /\ ~Meets(t, {k})
      /\ caller' = [caller EXCEPT ![t] = next]
  BY DEF Miss, Goes
<1>3. next.at = "missed" /\ next.keys = {k}
  OBVIOUS
<1> HIDE DEF next
<1>4. \A u \in Callers : caller'[u] = IF u = t THEN next ELSE caller[u]
  BY <1>1, <1>2 DEF CallersOK
<1>5. \A u \in Callers : u # t /\ Active(u) =>
        caller[u].at # "clears" /\ k \notin caller[u].keys
  BY <1>2 DEF Meets
<1>6. NobodyFailed' /\ NotYet' /\ FilesThere' /\ OrderNames'
  BY <1>1, <1>2, <1>3, <1>4
     DEF NobodyFailed, NotYet, FilesThere, Located, OrderNames
<1>7. ASSUME NEW u \in Callers, NEW v \in Callers, u # v,
             caller'[u].at \notin {"idle", "raised"},
             caller'[v].at \notin {"idle", "raised"}
      PROVE  caller'[u].at # "clears" /\ \A j \in caller'[u].keys : j \notin caller'[v].keys
  <2>1. CASE u = t
    BY <1>3, <1>4, <1>5, <1>7, <2>1 DEF Active
  <2>2. CASE v = t
    BY <1>3, <1>4, <1>5, <1>7, <2>2 DEF Active
  <2>3. CASE u # t /\ v # t
    BY <1>1, <1>4, <1>7, <2>3 DEF Active, Apart
  <2>4. QED
    BY <2>1, <2>2, <2>3
<1>8. Apart'
  BY <1>7 DEF Apart, Active
<1>9. QED
  BY <1>6, <1>8 DEF Orderly

(* What a caller does with the file of its key. *)
LEMMA FileIsSound ==
  ASSUME SoundInvariant, ~raced, NEW t \in Callers, NEW k \in Keys,
         \/ Probe(t, k) \/ Load(t, k) \/ Unlink(t, k) \/ Open(t, k) \/ Write(t, k)
  PROVE  Orderly'
<1>1. /\ CacheInvariant /\ CallersOK /\ DiskOK /\ OrderNames
      /\ Apart /\ NotYet /\ FilesThere /\ NobodyFailed
  BY DEF SoundInvariant, CacheInvariant, Orderly
<1>2. memory' = memory /\ order' = order
  BY DEF Probe, Load, Unlink, Open, Write
<1>3. OrderNames'
  BY <1>1, <1>2 DEF OrderNames
<1>4. PICK place \in {"missed", "loads", "unlinks", "opens", "writes"} :
        caller[t] = [at |-> place, keys |-> {k}]
  BY DEF Probe, Load, Unlink, Open, Write, IsAt
<1>5. caller[t].keys = {k} /\ caller[t].at = place /\ Active(t)
  BY <1>4 DEF Active
<1>6. /\ place \in Looking => k \notin memory
      /\ place \in Located => disk[k] # "none"
  BY <1>1, <1>5 DEF NotYet, FilesThere
<1>7. PICK next \in [at : CallerPlaces, keys : SUBSET Keys] :
        /\ caller' = [caller EXCEPT ![t] = next]
        /\ next.keys \subseteq {k}
        /\ next.at \notin {"clears", "raised"}
        /\ next.at \in Looking => place \in Looking
        /\ next.at \in Located => disk[k] # "none" /\ disk'[k] = disk[k]
  <2>1. CASE Probe(t, k)
    <3> DEFINE to == IF disk[k] = "none" THEN "compiles" ELSE "loads"
               there == [at |-> to, keys |-> {k}]
    <3>1. /\ there \in [at : CallerPlaces, keys : SUBSET Keys]
          /\ there.keys = {k} /\ there.at \in {"compiles", "loads"}
          /\ there.at = "loads" => disk[k] # "none"
      BY DEF CallerPlaces
    <3>2. caller' = [caller EXCEPT ![t] = there] /\ disk' = disk /\ place = "missed"
      BY <1>5, <2>1 DEF Probe, Goes, IsAt
    <3> HIDE DEF there
    <3>3. QED
      BY <3>1, <3>2 DEF Looking, Located
  <2>2. CASE Load(t, k)
    <3> DEFINE to == IF disk[k] = "good" THEN "loaded" ELSE "unlinks"
               there == [at |-> to, keys |-> {k}]
    <3>1. /\ there \in [at : CallerPlaces, keys : SUBSET Keys]
          /\ there.keys = {k} /\ there.at \in {"loaded", "unlinks"}
      BY DEF CallerPlaces
    <3>2. caller' = [caller EXCEPT ![t] = there] /\ disk' = disk /\ place = "loads"
      BY <1>5, <2>2 DEF Load, Goes, IsAt
    <3>3. disk[k] # "none"
      BY <1>6, <3>2 DEF Located
    <3> HIDE DEF there
    <3>4. QED
      BY <3>1, <3>2, <3>3 DEF Looking, Located
  <2>3. CASE Unlink(t, k)
    <3> DEFINE there == [at |-> "compiles", keys |-> {k}]
    <3>1. /\ there \in [at : CallerPlaces, keys : SUBSET Keys]
          /\ there.keys = {k} /\ there.at = "compiles"
      BY DEF CallerPlaces
    <3>2. place = "unlinks"
      BY <1>5, <2>3 DEF Unlink, IsAt
    <3>3. disk[k] # "none"
      BY <1>6, <3>2 DEF Located
    <3>4. caller' = [caller EXCEPT ![t] = there]
      BY <2>3, <3>3 DEF Unlink, Goes
    <3> HIDE DEF there
    <3>5. QED
      BY <3>1, <3>2, <3>4 DEF Looking, Located
  <2>4. CASE Open(t, k)
    <3> DEFINE there == [at |-> "writes", keys |-> {k}]
    <3>1. /\ there \in [at : CallerPlaces, keys : SUBSET Keys]
          /\ there.keys = {k} /\ there.at = "writes"
      BY DEF CallerPlaces
    <3>2. caller' = [caller EXCEPT ![t] = there]
      BY <2>4 DEF Open, Goes
    <3> HIDE DEF there
    <3>3. QED
      BY <3>1, <3>2 DEF Looking, Located
  <2>5. CASE Write(t, k)
    <3>1. /\ Nowhere \in [at : CallerPlaces, keys : SUBSET Keys]
          /\ Nowhere.keys = {} /\ Nowhere.at = "idle"
      BY DEF Nowhere, CallerPlaces
    <3>2. caller' = [caller EXCEPT ![t] = Nowhere]
      BY <2>5 DEF Write, Leaves
    <3>3. QED
      BY <3>1, <3>2 DEF Looking, Located
  <2>6. QED
    BY <2>1, <2>2, <2>3, <2>4, <2>5
<1>8. \A j \in Keys \ {k} : disk'[j] = disk[j]
  BY <1>1 DEF Probe, Load, Unlink, Open, Write, DiskOK
<1>9. Apart' /\ NotYet' /\ FilesThere' /\ NobodyFailed'
  <2>1. /\ next.keys \subseteq caller[t].keys
        /\ next.at = "clears" => caller[t].at = "clears"
        /\ next.at # "raised"
        /\ next.at \in Looking => \A j \in next.keys : j \notin memory'
        /\ next.at \in Located => \A j \in next.keys : disk'[j] # "none"
        /\ \A j \in memory' : j \in memory \/ j \in caller[t].keys
        /\ \A j \in Keys \ caller[t].keys : disk'[j] = disk[j]
    BY <1>2, <1>5, <1>6, <1>7, <1>8
  <2>2. QED
    BY <1>1, <1>5, <1>7, <2>1, OwnKeys
<1>10. QED
  BY <1>3, <1>9 DEF Orderly

(* What a caller puts into memory under the lock. *)
LEMMA PutIsSound ==
  ASSUME SoundInvariant, ~raced, NEW t \in Callers, NEW k \in Keys,
         InsertLoaded(t, k) \/ Put(t, k)
  PROVE  Orderly'
<1>1. /\ CacheInvariant /\ CallersOK /\ MemoryOK /\ OrderNames
      /\ Apart /\ NotYet /\ FilesThere /\ NobodyFailed
  BY DEF SoundInvariant, CacheInvariant, Orderly
<1>2. PICK place \in {"loaded", "compiles"} :
        caller[t] = [at |-> place, keys |-> {k}]
  BY DEF InsertLoaded, Put, IsAt
<1>3. caller[t].keys = {k} /\ caller[t].at = place /\ Active(t)
  BY <1>2 DEF Active
<1>4. k \notin memory /\ disk' = disk
  BY <1>1, <1>3 DEF NotYet, Looking, InsertLoaded, Put
<1>5. PICK n \in 0..(Len(order) + 1) :
        /\ Insert(k, n)
        /\ ~Fails(k, n) => Leaves(t) \/ Goes(t, "opens", k)
  BY DEF InsertLoaded, Put
<1>6. /\ ~Fails(k, n) /\ OrderNames'
      /\ \A j \in memory' : j \in memory \/ j = k
  BY <1>1, <1>4, <1>5, InsertIsSound
<1>7. PICK next \in [at : CallerPlaces, keys : SUBSET Keys] :
        /\ caller' = [caller EXCEPT ![t] = next]
        /\ next.keys \subseteq {k}
        /\ next.at \in {"idle", "opens"}
  <2>1. CASE Leaves(t)
    <3>1. /\ Nowhere \in [at : CallerPlaces, keys : SUBSET Keys]
          /\ Nowhere.keys = {} /\ Nowhere.at = "idle"
      BY DEF Nowhere, CallerPlaces
    <3>2. caller' = [caller EXCEPT ![t] = Nowhere]
      BY <2>1 DEF Leaves
    <3>3. QED
      BY <3>1, <3>2
  <2>2. CASE Goes(t, "opens", k)
    <3> DEFINE there == [at |-> "opens", keys |-> {k}]
    <3>1. /\ there \in [at : CallerPlaces, keys : SUBSET Keys]
          /\ there.keys = {k} /\ there.at = "opens"
      BY DEF CallerPlaces
    <3>2. caller' = [caller EXCEPT ![t] = there]
      BY <2>2 DEF Goes
    <3> HIDE DEF there
    <3>3. QED
      BY <3>1, <3>2
  <2>3. QED
    BY <1>5, <1>6, <2>1, <2>2
<1>8. Apart' /\ NotYet' /\ FilesThere' /\ NobodyFailed'
  <2>1. /\ next.keys \subseteq caller[t].keys
        /\ next.at = "clears" => caller[t].at = "clears"
        /\ next.at # "raised"
        /\ next.at \in Looking => \A j \in next.keys : j \notin memory'
        /\ next.at \in Located => \A j \in next.keys : disk'[j] # "none"
        /\ \A j \in memory' : j \in memory \/ j \in caller[t].keys
        /\ \A j \in Keys \ caller[t].keys : disk'[j] = disk[j]
    BY <1>3, <1>4, <1>6, <1>7 DEF Looking, Located
  <2>2. QED
    BY <1>1, <1>3, <1>7, <2>1, OwnKeys
<1>9. QED
  BY <1>6, <1>8 DEF Orderly

(* clear(), from its beginning to its end. *)
LEMMA ClearIsSound ==
  ASSUME SoundInvariant, ~raced, NEW t \in Callers,
         \/ (ClearMemory(t) /\ ~raced') \/ ClearEnds(t)
         \/ \E k \in Keys : ClearFile(t, k)
  PROVE  Orderly'
<1>1. /\ CacheInvariant /\ CallersOK /\ DiskOK /\ OrderNames
      /\ Apart /\ NotYet /\ FilesThere /\ NobodyFailed
  BY DEF SoundInvariant, CacheInvariant, Orderly
<1>2. CASE ClearMemory(t) /\ ~raced'
  <2> DEFINE next == [at |-> "clears", keys |-> {k \in Keys : disk[k] # "none"}]
  <2>1. /\ memory' = {} /\ order' = <<>> /\ disk' = disk
        /\ caller' = [caller EXCEPT ![t] = next]
        /\ \A u \in Callers \ {t} : ~Active(u)
    BY <1>2 DEF ClearMemory
  <2>2. next.at = "clears" /\ \A k \in next.keys : disk[k] # "none"
    OBVIOUS
  <2> HIDE DEF next
  <2>3. \A u \in Callers : caller'[u] = IF u = t THEN next ELSE caller[u]
    BY <1>1, <2>1 DEF CallersOK
  <2>4. \A u \in Callers : u # t => caller'[u].at = "idle"
    BY <1>1, <2>1, <2>3 DEF Active, NobodyFailed
  <2>5. OrderNames'
    <3>1. Cardinality({}) = 0 /\ MaxSize \in Nat
      BY FS_EmptySet, CacheAssumption
    <3>2. DOMAIN order' = {}
      <4>1. <<>> \in Seq(Keys) /\ Len(<<>>) = 0
        BY EmptySeq
      <4>2. DOMAIN <<>> = 1..0
        BY <4>1, LenProperties
      <4>3. QED
        BY <2>1, <4>2
    <3>3. ToSet(order') = {} /\ IsInjective(order')
      BY <3>2 DEF ToSet, IsInjective
    <3>4. QED
      BY <2>1, <3>1, <3>3 DEF OrderNames
  <2>6. Apart' /\ NotYet' /\ FilesThere' /\ NobodyFailed'
    <3>1. \A u \in Callers : caller'[u].at # "idle" => u = t /\ caller'[u] = next
      BY <2>3, <2>4
    <3>2. Apart'
      BY <3>1 DEF Apart, Active
    <3>3. NotYet' /\ FilesThere' /\ NobodyFailed'
      BY <2>1, <2>2, <3>1 DEF NotYet, FilesThere, NobodyFailed, Located
    <3>4. QED
      BY <3>2, <3>3
  <2>7. QED
    BY <2>5, <2>6 DEF Orderly
<1>3. CASE ClearEnds(t)
  <2>1. memory' = memory /\ order' = order /\ disk' = disk /\ Leaves(t)
    BY <1>3 DEF ClearEnds
  <2>2. OrderNames'
    BY <1>1, <2>1 DEF OrderNames
  <2>3. QED
    BY <1>1, <2>1, <2>2, RestingIsSound DEF Orderly
<1>4. CASE \E k \in Keys : ClearFile(t, k)
  <2>1. PICK k \in Keys : ClearFile(t, k)
    BY <1>4
  <2>2. memory' = memory /\ order' = order
    BY <2>1 DEF ClearFile
  <2>3. OrderNames'
    BY <1>1, <2>2 DEF OrderNames
  <2>4. caller[t].at = "clears" /\ k \in caller[t].keys /\ Active(t) /\ disk[k] # "none"
    BY <1>1, <2>1 DEF ClearFile, Active, FilesThere, Located
  <2> DEFINE next == [at |-> "clears", keys |-> caller[t].keys \ {k}]
  <2>5. caller' = [caller EXCEPT ![t] = next]
    <3>1. caller[t] \in [at : CallerPlaces, keys : SUBSET Keys]
      BY <1>1 DEF CallersOK
    <3>2. caller' = [caller EXCEPT ![t].keys = @ \ {k}]
      BY <2>1, <2>4 DEF ClearFile
    <3>3. [caller[t] EXCEPT !.keys = @ \ {k}] = next
      BY <2>4, <3>1
    <3>4. QED
      BY <3>2, <3>3
  <2>6. /\ next \in [at : CallerPlaces, keys : SUBSET Keys]
        /\ next.at = "clears" /\ next.keys = caller[t].keys \ {k}
    BY <1>1 DEF CallersOK, CallerPlaces
  <2> HIDE DEF next
  <2>7. disk' = [disk EXCEPT ![k] = "none"] /\ \A j \in Keys \ {k} : disk'[j] = disk[j]
    BY <1>1, <2>1 DEF ClearFile, DiskOK
  <2>8. \A j \in caller[t].keys : j \in Keys /\ disk[j] # "none"
    BY <1>1, <2>4 DEF FilesThere, Located, CallersOK
  <2>9. /\ next.keys \subseteq caller[t].keys
        /\ next.at = "clears" => caller[t].at = "clears"
        /\ next.at # "raised"
        /\ next.at \in Looking => \A j \in next.keys : j \notin memory'
        /\ next.at \in Located => \A j \in next.keys : disk'[j] # "none"
        /\ \A j \in memory' : j \in memory \/ j \in caller[t].keys
        /\ \A j \in Keys \ caller[t].keys : disk'[j] = disk[j]
    BY <2>2, <2>4, <2>6, <2>7, <2>8 DEF Looking
  <2>10. QED
    BY <1>1, <2>3, <2>4, <2>5, <2>6, <2>9, OwnKeys DEF Orderly
<1>5. QED
  BY <1>2, <1>3, <1>4

(* A process begins with nothing but its files. *)
Fresh == memory = {} /\ order = <<>> /\ caller = [t \in Callers |-> Nowhere]

LEMMA FreshIsSound == Fresh => Orderly
<1> SUFFICES ASSUME Fresh PROVE Orderly
  OBVIOUS
<1> USE DEF Fresh
<1>1. Cardinality({}) = 0 /\ MaxSize \in Nat
  BY FS_EmptySet, CacheAssumption
<1>2. DOMAIN order = {}
  <2>1. <<>> \in Seq(Keys) /\ Len(<<>>) = 0
    BY EmptySeq
  <2>2. DOMAIN <<>> = 1..0
    BY <2>1, LenProperties
  <2>3. QED
    BY <2>2
<1>3. ToSet(order) = {} /\ IsInjective(order)
  BY <1>2 DEF ToSet, IsInjective
<1>4. OrderNames
  BY <1>1, <1>3 DEF OrderNames
<1>5. \A t \in Callers : caller[t].at = "idle" /\ caller[t].keys = {}
  BY DEF Nowhere
<1>6. Apart /\ NotYet /\ FilesThere /\ NobodyFailed
  BY <1>5 DEF Apart, Active, NotYet, FilesThere, NobodyFailed
<1>7. QED
  BY <1>4, <1>6 DEF Orderly

LEMMA SoundStep == SoundInvariant /\ [CacheNext]_cacheVars => SoundInvariant'
<1> SUFFICES ASSUME SoundInvariant, [CacheNext]_cacheVars
             PROVE  SoundInvariant'
  OBVIOUS
<1>1. CacheInvariant'
  BY CacheStep DEF SoundInvariant
<1>2. CASE Restart
  <2>1. Fresh'
    BY <1>2 DEF Restart, Fresh
  <2>2. Fresh' => Orderly'
    BY FreshIsSound, PTL
  <2>3. QED
    BY <1>1, <2>1, <2>2 DEF SoundInvariant
<1>3. CASE UNCHANGED cacheVars
  BY <1>1, <1>3
     DEF cacheVars, SoundInvariant, Orderly, OrderNames, Apart, Active, NotYet,
         FilesThere, NobodyFailed
<1>4. CASE raced'
  BY <1>1, <1>4 DEF SoundInvariant, Orderly
<1>5. CASE ~Restart /\ ~UNCHANGED cacheVars /\ ~raced'
  <2>1. CacheNext /\ ~raced' /\ ~Restart
    BY <1>5
  <2>2. ~raced
    BY <2>1 DEF CacheNext, Hit, Miss, Probe, Load, InsertLoaded, Unlink, Put, Open,
                Write, ClearFile, ClearMemory, ClearEnds
  <2>3. ASSUME NEW t \in Callers, NEW k \in Keys, Hit(t, k)
        PROVE  Orderly'
    BY <2>2, <2>3, HitIsSound
  <2>4. ASSUME NEW t \in Callers, NEW k \in Keys, Miss(t, k)
        PROVE  Orderly'
    BY <2>1, <2>2, <2>4, MissIsSound
  <2>5. ASSUME NEW t \in Callers, NEW k \in Keys,
               \/ Probe(t, k) \/ Load(t, k) \/ Unlink(t, k)
               \/ Open(t, k) \/ Write(t, k)
        PROVE  Orderly'
    BY <2>2, <2>5, FileIsSound
  <2>6. ASSUME NEW t \in Callers, NEW k \in Keys, InsertLoaded(t, k) \/ Put(t, k)
        PROVE  Orderly'
    BY <2>2, <2>6, PutIsSound
  <2>7. ASSUME NEW t \in Callers,
               \/ ClearMemory(t) \/ ClearEnds(t)
               \/ \E k \in Keys : ClearFile(t, k)
        PROVE  Orderly'
    BY <2>1, <2>2, <2>7, ClearIsSound
  <2>8. Orderly'
    BY <2>1, <2>3, <2>4, <2>5, <2>6, <2>7 DEF CacheNext
  <2>9. QED
    BY <1>1, <2>8 DEF SoundInvariant
<1>6. QED
  BY <1>2, <1>3, <1>4, <1>5

(* For any callers, keys and max_size: as long as the callers of the process were
   alone with their keys, the access order names the cached keys once, they are
   max_size at most, and no call failed for the cache. *)
THEOREM CacheStaysSound == CacheSpec => []CacheSound
<1>1. CacheInit => SoundInvariant
  <2>1. CacheInit => Fresh
    BY DEF CacheInit, Fresh
  <2>2. QED
    BY <2>1, CacheStart, FreshIsSound DEF SoundInvariant
<1>2. SoundInvariant => CacheSound
  BY DEF SoundInvariant, Orderly, OrderNames, NobodyFailed, CacheSound
<1>3. QED
  BY <1>1, <1>2, SoundStep, PTL DEF CacheSpec
-----------------------------------------------------------------------------
(* The execution streams. *)

WorkerPlaces == {"idle", "depends", "failed", "runs", "cancelled"}
Place == [at : WorkerPlaces, cmd : Commands \cup {None}]
FutureStates == {"none", "pending", "result", "error", "cancelled"}
ThreadPlaces == {"idle", "enqueues", "synchronizes"}
Visit == [at : ThreadPlaces, stream : Streams \cup {None}, cmd : Commands \cup {None},
          waits : SUBSET Commands, owed : SUBSET Commands]

\* The parts of the state, but for those of a thread that is in enqueue().
StreamShape ==
  /\ queue \in [Streams -> Seq(Commands)] /\ taken \in [Streams -> Seq(Commands)]
  /\ worker \in [Streams -> Place]
  /\ work \in [Commands -> Work \cup {Plain}]
  /\ future \in [Commands -> FutureStates]
  /\ pending \in [Streams -> SUBSET Commands]
  /\ completed \subseteq Events
  /\ thread \in [Threads -> Visit]

\* A command is in one place of one stream.
OnePlace ==
  \A r, s \in Streams : \A m \in 1..Len(Issued(r)), n \in 1..Len(Issued(s)) :
    Issued(r)[m] = Issued(s)[n] => r = s /\ m = n

\* A worker is busy with the command that it took last.
LastTaken ==
  \A s \in Streams : worker[s].at # "idle" =>
    Len(taken[s]) > 0 /\ worker[s].cmd = taken[s][Len(taken[s])]

Ended == Ran \ At({"runs"})

\* What is in a stream was enqueued, and what has a result or an exception was run.
FuturesFit ==
  /\ \A s \in Streams : \A n \in 1..Len(Issued(s)) : future[Issued(s)[n]] # "none"
  /\ \A c \in Commands : future[c] \in {"result", "error"} => c \in Ended

\* The command that a thread is putting into a stream is there.
PuttingIsPut ==
  \A t \in Threads : thread[t].at = "enqueues" =>
    /\ thread[t].stream \in Streams
    /\ \E n \in 1..Len(Issued(thread[t].stream)) : Issued(thread[t].stream)[n] = thread[t].cmd

Has(s, c) == \E n \in 1..Len(Issued(s)) : Issued(s)[n] = c

\* What synchronize() need not wait for.
Forgotten(c) == Settled(c) \/ c \in excused

\* What is not settled is known to the stream, and what a thread does not wait for,
\* although the stream knows it or did when it began, is settled or excused.
WaitsSuffice ==
  /\ \A s \in Streams, c \in Commands :
       Has(s, c) => Forgotten(c) \/ Enqueuing(c) \/ c \in pending[s]
  /\ \A t \in Threads : thread[t].at = "synchronizes" =>
       /\ thread[t].stream \in Streams
       /\ \A c \in pending[thread[t].stream] \cup thread[t].owed :
            Forgotten(c) \/ c \in thread[t].waits

StreamInvariant ==
  StreamShape /\ OnePlace /\ LastTaken /\ FuturesFit /\ PuttingIsPut /\ WaitsSuffice

LEMMA StreamsStart == StreamInit => StreamInvariant
<1> SUFFICES ASSUME StreamInit PROVE StreamInvariant
  OBVIOUS
<1>1. \A s \in Streams : Len(Issued(s)) = 0 /\ worker[s].at = "idle"
  BY DEF StreamInit, Issued, Idle
<1>2. Idle \in Place /\ Outside \in Visit
  BY DEF Idle, Outside, Place, Visit, WorkerPlaces, ThreadPlaces
<1>3. StreamShape
  BY <1>2 DEF StreamInit, StreamShape, FutureStates
<1>4. OnePlace /\ LastTaken
  BY <1>1 DEF OnePlace, LastTaken
<1>5. FuturesFit
  BY <1>1 DEF FuturesFit, StreamInit
<1>6. PuttingIsPut /\ WaitsSuffice
  BY <1>1 DEF PuttingIsPut, WaitsSuffice, StreamInit, Outside, Has
<1>7. QED
  BY <1>3, <1>4, <1>5, <1>6 DEF StreamInvariant

(* The commands of a stream: those that were taken, and those that wait. *)
LEMMA IssuedAre ==
  ASSUME StreamShape, NEW s \in Streams
  PROVE  /\ taken[s] \in Seq(Commands) /\ queue[s] \in Seq(Commands)
         /\ Issued(s) \in Seq(Commands)
         /\ Len(taken[s]) \in Nat /\ Len(queue[s]) \in Nat
         /\ Len(Issued(s)) = Len(taken[s]) + Len(queue[s])
         /\ \A n \in 1..Len(taken[s]) : n \in 1..Len(Issued(s)) /\ Issued(s)[n] = taken[s][n]
         /\ \A n \in 1..Len(Issued(s)) : Issued(s)[n] \in Commands
<1>1. taken[s] \in Seq(Commands) /\ queue[s] \in Seq(Commands)
  BY DEF StreamShape
<1> DEFINE a == taken[s]
           b == queue[s]
           ab == Issued(s)
<1>2. Len(a) \in Nat /\ Len(b) \in Nat
  BY <1>1, LenProperties
<1>3. /\ ab \in Seq(Commands) /\ Len(ab) = Len(a) + Len(b)
      /\ \A n \in 1..Len(a) + Len(b) : ab[n] = IF n <= Len(a) THEN a[n] ELSE b[n - Len(a)]
  <2>1. ab = a \o b
    BY DEF Issued
  <2> HIDE DEF ab, a, b
  <2>2. QED
    BY <1>1, <2>1, ConcatProperties, Zenon DEF a, b
<1> HIDE DEF ab, a, b
<1>4. \A n \in 1..Len(a) : n \in 1..Len(ab) /\ ab[n] = a[n]
  BY <1>2, <1>3
<1>5. \A n \in 1..Len(ab) : ab[n] \in Commands
  BY <1>3, ElementOfSeq
<1>6. QED
  BY <1>1, <1>2, <1>3, <1>4, <1>5 DEF a, b, ab

LEMMA TakenAre ==
  ASSUME StreamShape, NEW c
  PROVE  c \in UNION {ToSet(taken[s]) : s \in Streams} <=>
           \E s \in Streams : \E n \in 1..Len(taken[s]) : taken[s][n] = c
<1>1. \A s \in Streams : DOMAIN taken[s] = 1..Len(taken[s])
  BY IssuedAre, LenProperties
<1>2. QED
  BY <1>1 DEF ToSet

(* A command of a worker that is busy is the last of its own stream. *)
LEMMA BusyWithLast ==
  ASSUME StreamInvariant, NEW r \in Streams, worker[r].at # "idle",
         NEW s \in Streams, NEW n \in 1..Len(taken[s]), taken[s][n] = worker[r].cmd
  PROVE  r = s /\ n = Len(taken[s])
<1> DEFINE k == Len(taken[r])
<1>1. k > 0 /\ taken[r][k] = worker[r].cmd
  BY DEF StreamInvariant, LastTaken
<1>2. k \in 1..k /\ k \in 1..Len(Issued(r)) /\ n \in 1..Len(Issued(s))
  <2>1. k \in Nat
    BY IssuedAre DEF StreamInvariant
  <2>2. k \in 1..k
    BY <1>1, <2>1
  <2>3. QED
    BY <2>2, IssuedAre DEF StreamInvariant
<1>3. Issued(r)[k] = Issued(s)[n]
  BY <1>1, <1>2, IssuedAre DEF StreamInvariant
<1>4. r = s /\ k = n
  BY <1>2, <1>3 DEF StreamInvariant, OnePlace
<1>5. QED
  BY <1>4

LEMMA BusyApart ==
  ASSUME StreamInvariant, NEW r \in Streams, NEW s \in Streams,
         worker[r].at # "idle", worker[s].at # "idle", worker[r].cmd = worker[s].cmd
  PROVE  r = s
<1>1. /\ Len(taken[s]) \in 1..Len(taken[s]) /\ taken[s][Len(taken[s])] = worker[r].cmd
  BY IssuedAre DEF StreamInvariant, LastTaken
<1>2. QED
  BY <1>1, BusyWithLast

-----------------------------------------------------------------------------
(* What a worker is busy with. *)

LEMMA WorkersAt ==
  ASSUME NEW places, NEW c
  PROVE  c \in At(places) <=> \E r \in Streams : worker[r].at \in places /\ worker[r].cmd = c
BY DEF At

(* A worker goes on with its command, or has done with it. *)
LEMMA WorkerMoves ==
  ASSUME StreamInvariant, NEW s \in Streams, worker[s].at # "idle", NEW p \in Place,
         worker' = [worker EXCEPT ![s] = p], p.at # "idle" => p.cmd = worker[s].cmd,
         NEW places \in SUBSET (WorkerPlaces \ {"idle"}), NEW c
  PROVE  /\ c \in At(places)' <=> IF c = worker[s].cmd THEN p.at \in places ELSE c \in At(places)
         /\ c = worker[s].cmd => (c \in At(places) <=> worker[s].at \in places)
<1>1. \A r \in Streams : worker'[r] = IF r = s THEN p ELSE worker[r]
  BY DEF StreamInvariant, StreamShape
<1>2. \A r \in Streams : worker[r].at # "idle" /\ worker[r].cmd = worker[s].cmd => r = s
  BY BusyApart
<1>3. "idle" \notin places
  OBVIOUS
<1>4. c \in At(places)' <=> \E r \in Streams : worker'[r].at \in places /\ worker'[r].cmd = c
  BY DEF At
<1>5. c \in At(places) <=> \E r \in Streams : worker[r].at \in places /\ worker[r].cmd = c
  BY DEF At
<1>6. CASE c = worker[s].cmd
  BY <1>1, <1>2, <1>3, <1>4, <1>5, <1>6
<1>7. CASE c # worker[s].cmd
  <2>1. p.at \in places => p.cmd # c
    BY <1>3, <1>7
  <2>2. QED
    BY <1>1, <1>4, <1>5, <1>7, <2>1
<1>8. QED
  BY <1>6, <1>7

Taken == UNION {ToSet(taken[s]) : s \in Streams}

LEMMA BusyTaken ==
  ASSUME StreamInvariant, NEW s \in Streams, worker[s].at # "idle"
  PROVE  worker[s].cmd \in Taken
<1>1. Len(taken[s]) \in 1..Len(taken[s]) /\ taken[s][Len(taken[s])] = worker[s].cmd
  BY IssuedAre DEF StreamInvariant, LastTaken
<1>2. QED
  BY <1>1, TakenAre DEF StreamInvariant, Taken

LEMMA RanIs ==
  /\ Ran = Taken \ At({"depends", "failed"}) /\ Ended = Ran \ At({"runs"})
  /\ Ran' = Taken' \ At({"depends", "failed"})' /\ Ended' = Ran' \ At({"runs"})'
<1>1. Ran = Taken \ At({"depends", "failed"})
  BY DEF Ran, Taken
<1>2. Ran' = Taken' \ At({"depends", "failed"})'
  BY DEF Ran, Taken
<1>3. QED
  BY <1>1, <1>2 DEF Ended

(* A worker's steps in terms of what has begun and what has ended. *)
LEMMA WorkerBegins ==
  ASSUME StreamInvariant, NEW s \in Streams, worker[s].at = "depends", NEW p \in Place,
         worker' = [worker EXCEPT ![s] = p], p.cmd = worker[s].cmd, taken' = taken
  PROVE  /\ p.at = "failed" => Ran' = Ran /\ Ended' = Ended
         /\ p.at = "runs" => Ran' = Ran \cup {p.cmd} /\ Ended' = Ended
         /\ p.cmd \notin Ran
<1> DEFINE now == {"depends", "failed"}
<1>1. now \in SUBSET (WorkerPlaces \ {"idle"}) /\ {"runs"} \in SUBSET (WorkerPlaces \ {"idle"})
  BY DEF WorkerPlaces
<1>2. p.cmd \in Taken
  BY BusyTaken
<1>3. ASSUME NEW c
      PROVE  /\ c \in At(now)' <=> IF c = p.cmd THEN p.at \in now ELSE c \in At(now)
             /\ c \in At({"runs"})' <=> IF c = p.cmd THEN p.at = "runs" ELSE c \in At({"runs"})
             /\ c = p.cmd => c \in At(now) /\ c \notin At({"runs"})
  <2>1. worker[s].at # "idle" /\ worker[s].at \in now /\ worker[s].at \notin {"runs"}
    OBVIOUS
  <2>2. /\ c \in At(now)' <=> IF c = worker[s].cmd THEN p.at \in now ELSE c \in At(now)
        /\ c = worker[s].cmd => (c \in At(now) <=> worker[s].at \in now)
    BY <1>1, <2>1, WorkerMoves
  <2>3. /\ c \in At({"runs"})' <=> IF c = worker[s].cmd THEN p.at \in {"runs"}
                                                        ELSE c \in At({"runs"})
        /\ c = worker[s].cmd => (c \in At({"runs"}) <=> worker[s].at \in {"runs"})
    BY <1>1, <2>1, WorkerMoves
  <2>4. QED
    BY <2>1, <2>2, <2>3
<1>4. Ran = Taken \ At(now) /\ Ran' = Taken \ At(now)'
  <2>1. Taken' = Taken
    BY DEF Taken
  <2>2. QED
    BY <2>1, RanIs
<1>5. Ended = Ran \ At({"runs"}) /\ Ended' = Ran' \ At({"runs"})'
  BY DEF Ended
<1>6. p.cmd \notin Ran
  BY <1>3, <1>4
<1>7. CASE p.at = "failed"
  BY <1>2, <1>3, <1>4, <1>5, <1>6, <1>7
<1>8. CASE p.at = "runs"
  BY <1>2, <1>3, <1>4, <1>5, <1>6, <1>8
<1>9. QED
  BY <1>6, <1>7, <1>8

LEMMA WorkerEnds ==
  ASSUME StreamInvariant, NEW s \in Streams, worker[s].at = "runs", NEW p \in Place,
         worker' = [worker EXCEPT ![s] = p], p.at \in {"idle", "cancelled"},
         p.at # "idle" => p.cmd = worker[s].cmd, taken' = taken
  PROVE  /\ Ran' = Ran /\ Ended' = Ended \cup {worker[s].cmd}
         /\ worker[s].cmd \in Ran \ Ended
<1> DEFINE now == {"depends", "failed"}
           cmd == worker[s].cmd
<1>1. now \in SUBSET (WorkerPlaces \ {"idle"}) /\ {"runs"} \in SUBSET (WorkerPlaces \ {"idle"})
  BY DEF WorkerPlaces
<1>2. cmd \in Taken
  BY BusyTaken
<1>3. ASSUME NEW c
      PROVE  /\ c \in At(now)' <=> c \in At(now)
             /\ c \in At({"runs"})' <=> c # cmd /\ c \in At({"runs"})
             /\ c = cmd => c \notin At(now) /\ c \in At({"runs"})
  <2>1. /\ c \in At(now)' <=> IF c = cmd THEN p.at \in now ELSE c \in At(now)
        /\ c = cmd => c \notin At(now)
    BY <1>1, WorkerMoves
  <2>2. /\ c \in At({"runs"})' <=> IF c = cmd THEN p.at \in {"runs"} ELSE c \in At({"runs"})
        /\ c = cmd => c \in At({"runs"})
    BY <1>1, WorkerMoves
  <2>3. QED
    BY <2>1, <2>2
<1>4. Ran = Taken \ At(now) /\ Ran' = Taken \ At(now)'
  <2>1. Taken' = Taken
    BY DEF Taken
  <2>2. QED
    BY <2>1, RanIs
<1>5. Ended = Ran \ At({"runs"}) /\ Ended' = Ran' \ At({"runs"})'
  BY DEF Ended
<1> HIDE DEF cmd, now
<1>6. QED
  BY <1>2, <1>3, <1>4, <1>5 DEF cmd

(* A command that is taken has neither begun nor ended. *)
LEMMA WorkerTakes ==
  ASSUME StreamInvariant, NEW s \in Streams, Take(s)
  PROVE  /\ \A r \in Streams : Issued(r)' = Issued(r)
         /\ Ran' = Ran /\ Ended' = Ended
<1> DEFINE cmd == Head(queue[s])
           now == {"depends", "failed"}
<1>1. /\ taken[s] \in Seq(Commands) /\ queue[s] \in Seq(Commands) /\ queue[s] # <<>>
      /\ worker[s].at = "idle"
      /\ worker' = [worker EXCEPT ![s] = [at |-> "depends", cmd |-> cmd]]
      /\ queue' = [queue EXCEPT ![s] = Tail(queue[s])]
      /\ taken' = [taken EXCEPT ![s] = Append(taken[s], cmd)]
  BY DEF Take, StreamInvariant, StreamShape
<1>2. \A r \in Streams : /\ taken'[r] = IF r = s THEN Append(taken[s], cmd) ELSE taken[r]
                         /\ queue'[r] = IF r = s THEN Tail(queue[s]) ELSE queue[r]
                         /\ worker'[r] = IF r = s THEN [at |-> "depends", cmd |-> cmd] ELSE worker[r]
  BY <1>1 DEF StreamInvariant, StreamShape
<1>3. Append(taken[s], cmd) \o Tail(queue[s]) = taken[s] \o queue[s]
  BY <1>1, HeadMoved
<1>4. \A r \in Streams : Issued(r)' = Issued(r)
  BY <1>2, <1>3 DEF Issued
<1>5. cmd \in Commands
  BY <1>1, HeadTailProperties
<1>6. cmd \notin Taken
  <2>1. SUFFICES ASSUME NEW r \in Streams, NEW n \in 1..Len(taken[r]), taken[r][n] = cmd
                 PROVE  FALSE
    BY TakenAre DEF StreamInvariant, Taken
  <2> DEFINE k == Len(taken[s]) + 1
  <2>2. k \in 1..Len(Issued(s)) /\ Issued(s)[k] = cmd
    <3> DEFINE a == taken[s]
               b == queue[s]
    <3>1. a \in Seq(Commands) /\ b \in Seq(Commands) /\ Len(b) \in Nat \ {0} /\ cmd = b[1]
      BY <1>1, EmptySeq
    <3> HIDE DEF a, b, cmd
    <3>2. Len(a) + 1 \in 1..Len(a \o b) /\ (a \o b)[Len(a) + 1] = cmd
      BY <3>1, LaterPart
    <3>3. QED
      BY <3>2 DEF a, b, Issued
  <2>3. n \in 1..Len(Issued(r)) /\ Issued(r)[n] = cmd
    BY <2>1, IssuedAre DEF StreamInvariant
  <2>4. r = s /\ n = k
    BY <2>2, <2>3 DEF StreamInvariant, OnePlace
  <2>5. Len(taken[s]) \in Nat
    BY <1>1, LenProperties
  <2>6. QED
    BY <2>1, <2>4, <2>5
<1>7. \A c : c \in Taken' <=> c \in Taken \/ c = cmd
  <2>1. DOMAIN Append(taken[s], cmd) = DOMAIN taken[s] \cup {Len(taken[s]) + 1}
    <3>1. Append(taken[s], cmd) \in Seq(Commands) /\ Len(Append(taken[s], cmd)) = Len(taken[s]) + 1
      BY <1>1, <1>5, AppendProperties
    <3>2. QED
      BY <1>1, <3>1, LenProperties
  <2>2. ToSet(Append(taken[s], cmd)) = ToSet(taken[s]) \cup {cmd}
    <3>1. DOMAIN taken[s] = 1..Len(taken[s])
      BY <1>1, LenProperties
    <3>2. QED
      BY <1>1, <1>5, <2>1, <3>1, AppendProperties DEF ToSet
  <2> HIDE DEF cmd
  <2>3. QED
    BY <1>2, <2>2 DEF Taken
<1>8. \A c : /\ c \in At(now)' <=> c \in At(now) \/ c = cmd
             /\ c \in At({"runs"})' <=> c \in At({"runs"})
  <2> DEFINE p == [at |-> "depends", cmd |-> cmd]
  <2>1. p.at = "depends" /\ p.cmd = cmd
    OBVIOUS
  <2>2. \A r \in Streams : worker'[r] = IF r = s THEN p ELSE worker[r]
    BY <1>2
  <2> HIDE DEF p, cmd
  <2>3. ASSUME NEW c PROVE c \in At(now)' <=> c \in At(now) \/ c = cmd
    BY <1>1, <2>1, <2>2 DEF At
  <2>4. ASSUME NEW c PROVE c \in At({"runs"})' <=> c \in At({"runs"})
    BY <1>1, <2>1, <2>2 DEF At
  <2>5. QED
    BY <2>3, <2>4
<1>9. Ran = Taken \ At(now) /\ Ran' = Taken' \ At(now)'
  BY RanIs
<1>10. Ended = Ran \ At({"runs"}) /\ Ended' = Ran' \ At({"runs"})'
  BY DEF Ended
<1> HIDE DEF cmd, now
<1>11. Ran' = Ran
  BY <1>6, <1>7, <1>8, <1>9
<1>12. QED
  BY <1>4, <1>8, <1>10, <1>11
-----------------------------------------------------------------------------
(* What a step of a worker, a thread or a future does to the invariant. *)

LEMMA WorkerGoes ==
  ASSUME StreamShape, NEW s \in Streams, NEW p \in Place,
         worker' = [worker EXCEPT ![s] = p]
  PROVE  /\ worker' \in [Streams -> Place]
         /\ \A r \in Streams : worker'[r] = IF r = s THEN p ELSE worker[r]
BY DEF StreamShape

LEMMA ThreadGoes ==
  ASSUME StreamShape, NEW t \in Threads, NEW v \in Visit,
         thread' = [thread EXCEPT ![t] = v]
  PROVE  /\ thread' \in [Threads -> Visit]
         /\ \A u \in Threads : thread'[u] = IF u = t THEN v ELSE thread[u]
BY DEF StreamShape

(* A step that issues nothing, and leaves the threads alone. *)
LEMMA FuturesMove ==
  ASSUME StreamInvariant, StreamShape', LastTaken',
         \A s \in Streams : Issued(s)' = Issued(s),
         thread' = thread, pending' = pending, excused' = excused, Ended \subseteq Ended',
         \A c \in Commands : \/ future'[c] = future[c]
                             \/ future[c] = "pending" /\ future'[c] = "cancelled"
                             \/ future'[c] \in {"result", "error"} /\ c \in Ended'
  PROVE  StreamInvariant'
<1>1. \A s \in Streams : \A n \in 1..Len(Issued(s)) : Issued(s)[n] \in Commands
  BY IssuedAre DEF StreamInvariant
<1>2. OnePlace'
  BY DEF OnePlace, StreamInvariant
<1>3. FuturesFit'
  <2>1. ASSUME NEW s \in Streams, NEW n \in 1..Len(Issued(s))
        PROVE  future'[Issued(s)[n]] # "none"
    BY <1>1, <2>1 DEF FuturesFit, StreamInvariant
  <2>2. ASSUME NEW c \in Commands, future'[c] \in {"result", "error"}
        PROVE  c \in Ended'
    BY <2>2 DEF FuturesFit, StreamInvariant
  <2>3. QED
    BY <2>1, <2>2 DEF FuturesFit
<1>4. PuttingIsPut'
  BY DEF PuttingIsPut, StreamInvariant
<1>5. \A c \in Commands : Settled(c) => Settled(c)'
  BY DEF Settled
<1>6. WaitsSuffice'
  <2>1. \A c \in Commands : Forgotten(c) => Forgotten(c)'
    BY <1>5 DEF Forgotten
  <2>2. \A c : Enqueuing(c)' <=> Enqueuing(c)
    BY DEF Enqueuing
  <2>3. ASSUME NEW s \in Streams, NEW c \in Commands, Has(s, c)
        PROVE  Forgotten(c)' \/ Enqueuing(c)' \/ c \in pending'[s]
    BY <2>1, <2>2, <2>3 DEF WaitsSuffice, StreamInvariant
  <2>4. ASSUME NEW t \in Threads, thread[t].at = "synchronizes"
        PROVE  /\ thread[t].stream \in Streams
               /\ \A c \in pending[thread[t].stream] \cup thread[t].owed :
                    Forgotten(c)' \/ c \in thread[t].waits
    <3>1. thread[t].stream \in Streams
      BY <2>4 DEF WaitsSuffice, StreamInvariant
    <3>2. pending[thread[t].stream] \cup thread[t].owed \subseteq Commands
      BY <3>1 DEF StreamInvariant, StreamShape, Visit
    <3>3. QED
      BY <2>1, <2>4, <3>1, <3>2 DEF WaitsSuffice, StreamInvariant
  <2>5. QED
    BY <2>3, <2>4 DEF WaitsSuffice, Has
<1>7. QED
  BY <1>2, <1>3, <1>4, <1>6 DEF StreamInvariant

(* A step of a thread that puts nothing into a stream. *)
LEMMA ThreadsMove ==
  ASSUME StreamInvariant, thread' \in [Threads -> Visit],
         pending' \in [Streams -> SUBSET Commands], WaitsSuffice',
         queue' = queue, worker' = worker, work' = work, future' = future,
         completed' = completed, taken' = taken,
         \A t \in Threads : thread'[t].at = "enqueues" => thread'[t] = thread[t]
  PROVE  StreamInvariant'
<1>1. \A s \in Streams : Issued(s)' = Issued(s)
  BY DEF Issued
<1>2. Ended' = Ended
  BY DEF Ended, Ran, At
<1>3. StreamShape'
  BY DEF StreamInvariant, StreamShape
<1>4. OnePlace' /\ LastTaken'
  BY <1>1 DEF OnePlace, LastTaken, StreamInvariant
<1>5. FuturesFit'
  BY <1>1, <1>2 DEF FuturesFit, StreamInvariant
<1>6. PuttingIsPut'
  BY <1>1 DEF PuttingIsPut, StreamInvariant
<1>7. QED
  BY <1>3, <1>4, <1>5, <1>6 DEF StreamInvariant

-----------------------------------------------------------------------------
LEMMA TakeKeeps ==
  ASSUME StreamInvariant, NEW s \in Streams, Take(s)
  PROVE  StreamInvariant'
<1> DEFINE cmd == Head(queue[s])
           p == [at |-> "depends", cmd |-> cmd]
<1>1. /\ StreamShape /\ taken[s] \in Seq(Commands) /\ queue[s] \in Seq(Commands)
      /\ queue[s] # <<>>
  BY DEF StreamInvariant, StreamShape, Take
<1>2. /\ worker' = [worker EXCEPT ![s] = p]
      /\ queue' = [queue EXCEPT ![s] = Tail(queue[s])]
      /\ taken' = [taken EXCEPT ![s] = Append(taken[s], cmd)]
      /\ work' = work /\ future' = future /\ pending' = pending
      /\ completed' = completed /\ thread' = thread /\ excused' = excused
  BY DEF Take
<1>3. cmd \in Commands /\ Tail(queue[s]) \in Seq(Commands)
  BY <1>1, HeadTailProperties
<1>4. /\ Append(taken[s], cmd) \in Seq(Commands)
      /\ Len(Append(taken[s], cmd)) = Len(taken[s]) + 1
      /\ Append(taken[s], cmd)[Len(taken[s]) + 1] = cmd
      /\ Len(taken[s]) \in Nat
  BY <1>1, <1>3, AppendProperties, LenProperties
<1>5. p \in Place /\ p.cmd = cmd
  BY <1>3 DEF Place, WorkerPlaces
<1> HIDE DEF p, cmd
<1>6. /\ worker' \in [Streams -> Place]
      /\ \A r \in Streams : worker'[r] = IF r = s THEN p ELSE worker[r]
  BY <1>1, <1>2, <1>5, WorkerGoes
<1>7. StreamShape'
  BY <1>1, <1>2, <1>3, <1>4, <1>6 DEF StreamShape
<1>8. LastTaken'
  <2>1. ASSUME NEW r \in Streams, worker'[r].at # "idle"
        PROVE  Len(taken'[r]) > 0 /\ worker'[r].cmd = taken'[r][Len(taken'[r])]
    <3>1. CASE r = s
      <4>1. taken'[r] = Append(taken[s], cmd) /\ worker'[r] = p
        BY <1>1, <1>2, <1>6, <3>1 DEF StreamShape
      <4>2. QED
        BY <1>4, <1>5, <4>1
    <3>2. CASE r # s
      <4>1. taken'[r] = taken[r] /\ worker'[r] = worker[r]
        BY <1>1, <1>2, <1>6, <3>2 DEF StreamShape
      <4>2. QED
        BY <2>1, <4>1 DEF StreamInvariant, LastTaken
    <3>3. QED
      BY <3>1, <3>2
  <2>2. QED
    BY <2>1 DEF LastTaken
<1>9. /\ \A r \in Streams : Issued(r)' = Issued(r)
      /\ Ended' = Ended
  BY WorkerTakes
<1>10. QED
  BY <1>2, <1>7, <1>8, <1>9, FuturesMove

(* A worker that goes on with the command at hand, or has done with it. *)
LEMMA WorkerStays ==
  ASSUME StreamInvariant, NEW s \in Streams, worker[s].at # "idle", NEW p \in Place,
         worker' = [worker EXCEPT ![s] = p], p.at # "idle" => p.cmd = worker[s].cmd,
         queue' = queue, taken' = taken, work' = work, pending' = pending,
         thread' = thread, excused' = excused,
         future' \in [Commands -> FutureStates], completed' \subseteq Events,
         Ended \subseteq Ended',
         \A c \in Commands : \/ future'[c] = future[c]
                             \/ future'[c] \in {"result", "error"} /\ c \in Ended'
  PROVE  StreamInvariant'
<1>1. /\ worker' \in [Streams -> Place]
      /\ \A r \in Streams : worker'[r] = IF r = s THEN p ELSE worker[r]
  BY WorkerGoes DEF StreamInvariant
<1>2. StreamShape'
  BY <1>1 DEF StreamInvariant, StreamShape
<1>3. LastTaken'
  BY <1>1 DEF StreamInvariant, LastTaken
<1>4. \A r \in Streams : Issued(r)' = Issued(r)
  BY DEF Issued
<1>5. QED
  BY <1>2, <1>3, <1>4, FuturesMove

(* The command at hand is one, and so is the worker's next place. *)
LEMMA AtHand ==
  ASSUME StreamInvariant, NEW s \in Streams, worker[s].at # "idle"
  PROVE  /\ worker[s].cmd \in Commands
         /\ \A at \in WorkerPlaces : /\ [worker[s] EXCEPT !.at = at] \in Place
                                     /\ [worker[s] EXCEPT !.at = at].at = at
                                     /\ [worker[s] EXCEPT !.at = at].cmd = worker[s].cmd
<1>1. worker[s].cmd \in Commands
  <2>1. Len(taken[s]) \in 1..Len(taken[s]) /\ worker[s].cmd = taken[s][Len(taken[s])]
    BY IssuedAre DEF StreamInvariant, LastTaken
  <2>2. taken[s] \in Seq(Commands)
    BY IssuedAre DEF StreamInvariant
  <2>3. QED
    BY <2>1, <2>2, ElementOfSeq
<1>2. worker[s] \in Place
  BY DEF StreamInvariant, StreamShape
<1>3. QED
  BY <1>1, <1>2 DEF Place

LEMMA BeginKeeps ==
  ASSUME StreamInvariant, NEW s \in Streams, Begin(s)
  PROVE  StreamInvariant'
<1> DEFINE p == [worker[s] EXCEPT !.at = "runs"]
<1>1. /\ worker[s].at = "depends" /\ worker' = [worker EXCEPT ![s] = p]
      /\ queue' = queue /\ taken' = taken /\ work' = work /\ pending' = pending
      /\ thread' = thread /\ excused' = excused /\ future' = future /\ completed' = completed
  BY DEF Begin, Depending
<1>2. p \in Place /\ p.at = "runs" /\ p.cmd = worker[s].cmd
  BY <1>1, AtHand DEF WorkerPlaces
<1> HIDE DEF p
<1>3. Ended' = Ended
  BY <1>1, <1>2, WorkerBegins
<1>4. future \in [Commands -> FutureStates] /\ completed \subseteq Events
  BY DEF StreamInvariant, StreamShape
<1>5. worker[s].at # "idle"
  BY <1>1
<1>6. QED
  BY <1>1, <1>2, <1>3, <1>4, <1>5, WorkerStays

LEMMA DependencyRaisesKeeps ==
  ASSUME StreamInvariant, NEW s \in Streams, DependencyRaises(s)
  PROVE  StreamInvariant'
<1> DEFINE p == [worker[s] EXCEPT !.at = "failed"]
<1>1. /\ worker[s].at = "depends" /\ worker' = [worker EXCEPT ![s] = p]
      /\ queue' = queue /\ taken' = taken /\ work' = work /\ pending' = pending
      /\ thread' = thread /\ excused' = excused /\ future' = future /\ completed' = completed
  BY DEF DependencyRaises, Depending
<1>2. p \in Place /\ p.at = "failed" /\ p.cmd = worker[s].cmd
  BY <1>1, AtHand DEF WorkerPlaces
<1> HIDE DEF p
<1>3. Ended' = Ended
  BY <1>1, <1>2, WorkerBegins
<1>4. future \in [Commands -> FutureStates] /\ completed \subseteq Events
  BY DEF StreamInvariant, StreamShape
<1>5. worker[s].at # "idle"
  BY <1>1
<1>6. QED
  BY <1>1, <1>2, <1>3, <1>4, <1>5, WorkerStays

LEMMA FinishRaisesKeeps ==
  ASSUME StreamInvariant, NEW s \in Streams, FinishRaises(s)
  PROVE  StreamInvariant'
<1> DEFINE p == [worker[s] EXCEPT !.at = "cancelled"]
<1>1. /\ worker[s].at = "runs" /\ worker' = [worker EXCEPT ![s] = p]
      /\ queue' = queue /\ taken' = taken /\ work' = work /\ pending' = pending
      /\ thread' = thread /\ excused' = excused /\ future' = future /\ completed' = completed
  BY DEF FinishRaises, MayEnd
<1>2. p \in Place /\ p.at = "cancelled" /\ p.cmd = worker[s].cmd
  BY <1>1, AtHand DEF WorkerPlaces
<1> HIDE DEF p
<1>3. Ended' = Ended \cup {worker[s].cmd}
  BY <1>1, <1>2, WorkerEnds
<1>4. future \in [Commands -> FutureStates] /\ completed \subseteq Events
  BY DEF StreamInvariant, StreamShape
<1>5. worker[s].at # "idle"
  BY <1>1
<1>6. QED
  BY <1>1, <1>2, <1>3, <1>4, <1>5, WorkerStays

LEMMA FinishKeeps ==
  ASSUME StreamInvariant, NEW s \in Streams, Finish(s)
  PROVE  StreamInvariant'
<1> DEFINE cmd == worker[s].cmd
<1>1. /\ worker[s].at = "runs" /\ worker' = [worker EXCEPT ![s] = Idle]
      /\ queue' = queue /\ taken' = taken /\ work' = work /\ pending' = pending
      /\ thread' = thread /\ excused' = excused
      /\ completed' = completed \cup ({work[cmd].signals} \ {None})
  BY DEF Finish, MayEnd
<1>2. Idle \in Place /\ Idle.at = "idle" /\ cmd \in Commands
  BY <1>1, AtHand DEF WorkerPlaces, Idle, Place
<1>3. PICK outcome \in {"result", "error"} : future' = [future EXCEPT ![cmd] = outcome]
  BY DEF Finish
<1>4. Ended' = Ended \cup {cmd}
  BY <1>1, <1>2, WorkerEnds
<1>5. future \in [Commands -> FutureStates] /\ completed \subseteq Events
      /\ work \in [Commands -> Work \cup {Plain}]
  BY DEF StreamInvariant, StreamShape
<1>6. completed' \subseteq Events
  <2>1. work[cmd].signals \in Events \cup {None}
    BY <1>2, <1>5, StreamAssumption DEF Plain
  <2>2. QED
    BY <1>1, <1>5, <2>1
<1>7. /\ future' \in [Commands -> FutureStates]
      /\ \A c \in Commands : \/ future'[c] = future[c]
                             \/ future'[c] \in {"result", "error"} /\ c \in Ended'
  <2>1. \A c \in Commands : future'[c] = IF c = cmd THEN outcome ELSE future[c]
    BY <1>2, <1>3, <1>5
  <2>2. future' \in [Commands -> FutureStates]
    BY <1>2, <1>3, <1>5 DEF FutureStates
  <2>3. QED
    BY <1>4, <2>1, <2>2
<1>8. worker[s].at # "idle"
  BY <1>1
<1>9. QED
  BY <1>1, <1>2, <1>4, <1>6, <1>7, <1>8, WorkerStays

LEMMA CancelKeeps ==
  ASSUME StreamInvariant, NEW c \in Commands, Cancel(c)
  PROVE  StreamInvariant'
<1>1. /\ future[c] = "pending" /\ future' = [future EXCEPT ![c] = "cancelled"]
      /\ queue' = queue /\ taken' = taken /\ work' = work /\ pending' = pending
      /\ thread' = thread /\ excused' = excused /\ worker' = worker
      /\ completed' = completed
  BY DEF Cancel
<1>2. StreamShape' /\ \A d \in Commands :
        future'[d] = IF d = c THEN "cancelled" ELSE future[d]
  <2>1. future \in [Commands -> FutureStates]
    BY DEF StreamInvariant, StreamShape
  <2>2. /\ future' \in [Commands -> FutureStates]
        /\ \A d \in Commands : future'[d] = IF d = c THEN "cancelled" ELSE future[d]
    BY <1>1, <2>1 DEF FutureStates
  <2>3. QED
    BY <1>1, <2>2 DEF StreamInvariant, StreamShape
<1>3. LastTaken'
  BY <1>1 DEF StreamInvariant, LastTaken
<1>4. Ended' = Ended /\ \A s \in Streams : Issued(s)' = Issued(s)
  BY <1>1 DEF Ended, Ran, At, Issued
<1>5. QED
  BY <1>1, <1>2, <1>3, <1>4, FuturesMove

-----------------------------------------------------------------------------
LEMMA EnqueueEndsKeeps ==
  ASSUME StreamInvariant, NEW t \in Threads, EnqueueEnds(t)
  PROVE  StreamInvariant'
<1>2. PICK s \in Streams, cmd \in Commands :
        thread[t].stream = s /\ thread[t].cmd = cmd /\ Has(s, cmd)
  <2>1. thread[t].at = "enqueues"
    BY DEF EnqueueEnds
  <2>2. thread[t].stream \in Streams
    BY <2>1 DEF PuttingIsPut, StreamInvariant
  <2>3. PICK k \in 1..Len(Issued(thread[t].stream)) :
          Issued(thread[t].stream)[k] = thread[t].cmd
    BY <2>1 DEF PuttingIsPut, StreamInvariant
  <2>4. QED
    BY <2>2, <2>3, IssuedAre DEF StreamInvariant, Has
<1>1. /\ thread[t].at = "enqueues" /\ thread' = [thread EXCEPT ![t] = Outside]
      /\ pending' = [pending EXCEPT ![s] = pending[s] \cup {cmd}]
      /\ excused \subseteq excused' /\ (Synchronizing(s) => cmd \in excused')
      /\ queue' = queue /\ worker' = worker /\ work' = work /\ future' = future
      /\ completed' = completed /\ taken' = taken
  BY <1>2 DEF EnqueueEnds
<1>4. /\ thread' \in [Threads -> Visit] /\ Outside.at = "idle"
      /\ \A u \in Threads : thread'[u] = IF u = t THEN Outside ELSE thread[u]
  <2>1. Outside \in Visit
    BY DEF Outside, Visit, ThreadPlaces
  <2>2. QED
    BY <1>1, <2>1, ThreadGoes DEF StreamInvariant, Outside
<1>5. /\ pending' \in [Streams -> SUBSET Commands]
      /\ \A r \in Streams : pending'[r] = IF r = s THEN pending[s] \cup {cmd} ELSE pending[r]
  BY <1>1 DEF StreamInvariant, StreamShape
<1>6. \A r \in Streams : Issued(r)' = Issued(r)
  BY <1>1 DEF Issued
<1>7. \A c : Forgotten(c) => Forgotten(c)'
  BY <1>1 DEF Forgotten, Settled
<1>8. \A c : Enqueuing(c) => Enqueuing(c)' \/ c = cmd
  BY <1>2, <1>4 DEF Enqueuing
<1>9. WaitsSuffice'
  <2>1. ASSUME NEW r \in Streams, NEW c \in Commands, Has(r, c)
        PROVE  Forgotten(c)' \/ Enqueuing(c)' \/ c \in pending'[r]
    <3>1. Forgotten(c) \/ Enqueuing(c) \/ c \in pending[r]
      BY <2>1 DEF WaitsSuffice, StreamInvariant
    <3>2. c = cmd => r = s
      BY <1>2, <2>1 DEF OnePlace, StreamInvariant, Has
    <3>3. QED
      BY <1>5, <1>7, <1>8, <3>1, <3>2
  <2>2. ASSUME NEW u \in Threads, thread'[u].at = "synchronizes"
        PROVE  /\ thread'[u].stream \in Streams
               /\ \A c \in pending'[thread'[u].stream] \cup thread'[u].owed :
                    Forgotten(c)' \/ c \in thread'[u].waits
    <3>1. thread'[u] = thread[u] /\ thread[u].at = "synchronizes"
      BY <1>4, <2>2
    <3>2. /\ thread[u].stream \in Streams
          /\ \A c \in pending[thread[u].stream] \cup thread[u].owed :
               Forgotten(c) \/ c \in thread[u].waits
      BY <3>1 DEF WaitsSuffice, StreamInvariant
    <3>3. thread[u].stream = s => Forgotten(cmd)'
      BY <1>1, <3>1 DEF Synchronizing, Forgotten
    <3>4. \A c : c \in pending'[thread[u].stream] =>
                   c \in pending[thread[u].stream] \/ (thread[u].stream = s /\ c = cmd)
      BY <1>5, <3>2
    <3>5. QED
      BY <1>7, <3>1, <3>2, <3>3, <3>4
  <2>3. QED
    BY <1>6, <2>1, <2>2 DEF WaitsSuffice, Has
<1>10. QED
  BY <1>1, <1>4, <1>5, <1>9, ThreadsMove

LEMMA SynchronizeStartsKeeps ==
  ASSUME StreamInvariant, NEW t \in Threads, NEW s \in Streams, SynchronizeStarts(t, s)
  PROVE  StreamInvariant'
<1> DEFINE owes == {c \in ToSet(Issued(s)) : ~Settled(c) /\ ~Enqueuing(c)}
           v == [at |-> "synchronizes", stream |-> s, cmd |-> None, waits |-> pending[s],
                 owed |-> owes]
<1>1. /\ thread[t].at = "idle" /\ thread' = [thread EXCEPT ![t] = v]
      /\ pending' = pending /\ excused' = excused
      /\ queue' = queue /\ worker' = worker /\ work' = work /\ future' = future
      /\ completed' = completed /\ taken' = taken
  BY DEF SynchronizeStarts, Available
<1>2. \A c : c \in ToSet(Issued(s)) <=> \E n \in 1..Len(Issued(s)) : Issued(s)[n] = c
  <2>1. DOMAIN Issued(s) = 1..Len(Issued(s))
    BY IssuedAre, LenProperties DEF StreamInvariant
  <2>2. QED
    BY <2>1 DEF ToSet
<1>3. owes \subseteq Commands /\ pending[s] \subseteq Commands
      /\ \A c \in owes : /\ ~Settled(c) /\ ~Enqueuing(c)
                         /\ Has(s, c)
  <2>1. ToSet(Issued(s)) \subseteq Commands
    BY <1>2, IssuedAre DEF StreamInvariant
  <2>2. QED
    BY <1>2, <2>1 DEF StreamInvariant, StreamShape, Has
<1> HIDE DEF owes
<1>4. /\ v \in Visit /\ v.at = "synchronizes" /\ v.stream = s /\ v.waits = pending[s]
      /\ v.owed = owes
  BY <1>3 DEF Visit, ThreadPlaces
<1> HIDE DEF v
<1>5. /\ thread' \in [Threads -> Visit]
      /\ \A u \in Threads : thread'[u] = IF u = t THEN v ELSE thread[u]
  BY <1>1, <1>4, ThreadGoes DEF StreamInvariant
<1>6. \A r \in Streams : Issued(r)' = Issued(r)
  BY <1>1 DEF Issued
<1>7. \A c : Forgotten(c) => Forgotten(c)'
  BY <1>1 DEF Forgotten, Settled
<1>8. \A c : Enqueuing(c) => Enqueuing(c)'
  BY <1>1, <1>5 DEF Enqueuing
<1>9. WaitsSuffice'
  <2>1. ASSUME NEW r \in Streams, NEW c \in Commands, Has(r, c)
        PROVE  Forgotten(c)' \/ Enqueuing(c)' \/ c \in pending'[r]
    BY <1>1, <1>7, <1>8, <2>1 DEF WaitsSuffice, StreamInvariant
  <2>2. ASSUME NEW u \in Threads, thread'[u].at = "synchronizes"
        PROVE  /\ thread'[u].stream \in Streams
               /\ \A c \in pending'[thread'[u].stream] \cup thread'[u].owed :
                    Forgotten(c)' \/ c \in thread'[u].waits
    <3>1. CASE u = t
      <4>1. thread'[u] = v
        BY <1>5, <3>1
      <4>2. ASSUME NEW c \in owes
            PROVE  Forgotten(c)' \/ c \in pending[s]
        <5>1. Forgotten(c) \/ Enqueuing(c) \/ c \in pending[s]
          BY <1>3, <4>2 DEF WaitsSuffice, StreamInvariant
        <5>2. QED
          BY <1>3, <1>7, <4>2, <5>1
      <4>3. QED
        BY <1>1, <1>4, <4>1, <4>2
    <3>2. CASE u # t
      <4>1. thread'[u] = thread[u]
        BY <1>5, <3>2
      <4>2. QED
        BY <1>1, <1>7, <2>2, <4>1 DEF WaitsSuffice, StreamInvariant
    <3>3. QED
      BY <3>1, <3>2
  <2>3. QED
    BY <1>6, <2>1, <2>2 DEF WaitsSuffice, Has
<1>10. \A u \in Threads : thread'[u].at = "enqueues" => thread'[u] = thread[u]
  BY <1>4, <1>5
<1>11. pending' \in [Streams -> SUBSET Commands]
  BY <1>1 DEF StreamInvariant, StreamShape
<1>12. QED
  BY <1>1, <1>5, <1>9, <1>10, <1>11, ThreadsMove

LEMMA GivesUpKeeps ==
  ASSUME StreamInvariant, NEW t \in Threads, NEW c \in Commands, GivesUp(t, c)
  PROVE  StreamInvariant'
<1> DEFINE v == [thread[t] EXCEPT !.waits = thread[t].waits \ {c},
                                  !.owed = thread[t].owed \ {c}]
<1>1. /\ thread[t].at = "synchronizes"
      /\ pending' = pending /\ excused' = excused \cup {c}
      /\ queue' = queue /\ worker' = worker /\ work' = work /\ future' = future
      /\ completed' = completed /\ taken' = taken
  BY DEF GivesUp
<1>2. thread[t] \in Visit
  BY DEF StreamInvariant, StreamShape
<1>3. /\ v \in Visit /\ v.at = thread[t].at /\ v.stream = thread[t].stream
      /\ v.waits = thread[t].waits \ {c} /\ v.owed = thread[t].owed \ {c}
  BY <1>2 DEF Visit
<1>4. thread' = [thread EXCEPT ![t] = v]
  BY <1>2 DEF GivesUp, Visit, StreamInvariant, StreamShape
<1> HIDE DEF v
<1>5. /\ thread' \in [Threads -> Visit]
      /\ \A u \in Threads : thread'[u] = IF u = t THEN v ELSE thread[u]
  BY <1>3, <1>4, ThreadGoes DEF StreamInvariant
<1>6. \A r \in Streams : Issued(r)' = Issued(r)
  BY <1>1 DEF Issued
<1>7. \A d : (Forgotten(d) => Forgotten(d)') /\ Forgotten(c)'
  BY <1>1 DEF Forgotten, Settled
<1>8. \A d : Enqueuing(d) => Enqueuing(d)'
  BY <1>1, <1>5 DEF Enqueuing
<1>9. WaitsSuffice'
  <2>1. ASSUME NEW r \in Streams, NEW d \in Commands, Has(r, d)
        PROVE  Forgotten(d)' \/ Enqueuing(d)' \/ d \in pending'[r]
    BY <1>1, <1>7, <1>8, <2>1 DEF WaitsSuffice, StreamInvariant
  <2>2. ASSUME NEW u \in Threads, thread'[u].at = "synchronizes"
        PROVE  /\ thread'[u].stream \in Streams
               /\ \A d \in pending'[thread'[u].stream] \cup thread'[u].owed :
                    Forgotten(d)' \/ d \in thread'[u].waits
    <3>1. thread[u].at = "synchronizes" /\ thread'[u].stream = thread[u].stream
          /\ thread'[u].owed \subseteq thread[u].owed
          /\ \A d \in thread[u].waits : d \in thread'[u].waits \/ d = c
      BY <1>1, <1>3, <1>5, <2>2
    <3>2. /\ thread[u].stream \in Streams
          /\ \A d \in pending[thread[u].stream] \cup thread[u].owed :
               Forgotten(d) \/ d \in thread[u].waits
      BY <3>1 DEF WaitsSuffice, StreamInvariant
    <3>3. QED
      BY <1>1, <1>7, <3>1, <3>2
  <2>3. QED
    BY <1>6, <2>1, <2>2 DEF WaitsSuffice, Has
<1>10. \A u \in Threads : thread'[u].at = "enqueues" => thread'[u] = thread[u]
  BY <1>1, <1>3, <1>5
<1>11. pending' \in [Streams -> SUBSET Commands]
  BY <1>1 DEF StreamInvariant, StreamShape
<1>12. QED
  BY <1>1, <1>5, <1>9, <1>10, <1>11, ThreadsMove

LEMMA SynchronizeEndsKeeps ==
  ASSUME StreamInvariant, NEW t \in Threads, SynchronizeEnds(t)
  PROVE  StreamInvariant'
<1> DEFINE s == thread[t].stream
<1>1. /\ thread[t].at = "synchronizes" /\ thread' = [thread EXCEPT ![t] = Outside]
      /\ \A c \in thread[t].waits : Settled(c)
      /\ pending' = [pending EXCEPT ![s] = {}] /\ excused' = excused
      /\ queue' = queue /\ worker' = worker /\ work' = work /\ future' = future
      /\ completed' = completed /\ taken' = taken
  BY DEF SynchronizeEnds
<1>2. s \in Streams /\ \A c \in pending[s] : Forgotten(c)
  BY <1>1 DEF WaitsSuffice, StreamInvariant, Forgotten
<1>3. /\ thread' \in [Threads -> Visit] /\ Outside.at = "idle"
      /\ \A u \in Threads : thread'[u] = IF u = t THEN Outside ELSE thread[u]
  <2>1. Outside \in Visit
    BY DEF Outside, Visit, ThreadPlaces
  <2>2. QED
    BY <1>1, <2>1, ThreadGoes DEF StreamInvariant, Outside
<1>4. /\ pending' \in [Streams -> SUBSET Commands]
      /\ \A r \in Streams : pending'[r] = IF r = s THEN {} ELSE pending[r]
  BY <1>1, <1>2 DEF StreamInvariant, StreamShape
<1> HIDE DEF s
<1>5. \A r \in Streams : Issued(r)' = Issued(r)
  BY <1>1 DEF Issued
<1>6. \A c : Forgotten(c) => Forgotten(c)'
  BY <1>1 DEF Forgotten, Settled
<1>7. \A c : Enqueuing(c) => Enqueuing(c)'
  BY <1>1, <1>3 DEF Enqueuing
<1>8. WaitsSuffice'
  <2>1. ASSUME NEW r \in Streams, NEW c \in Commands, Has(r, c)
        PROVE  Forgotten(c)' \/ Enqueuing(c)' \/ c \in pending'[r]
    <3>1. Forgotten(c) \/ Enqueuing(c) \/ c \in pending[r]
      BY <2>1 DEF WaitsSuffice, StreamInvariant
    <3>2. QED
      BY <1>2, <1>4, <1>6, <1>7, <3>1
  <2>2. ASSUME NEW u \in Threads, thread'[u].at = "synchronizes"
        PROVE  /\ thread'[u].stream \in Streams
               /\ \A c \in pending'[thread'[u].stream] \cup thread'[u].owed :
                    Forgotten(c)' \/ c \in thread'[u].waits
    <3>1. thread'[u] = thread[u] /\ thread[u].at = "synchronizes"
      BY <1>3, <2>2
    <3>2. /\ thread[u].stream \in Streams
          /\ \A c \in pending[thread[u].stream] \cup thread[u].owed :
               Forgotten(c) \/ c \in thread[u].waits
      BY <3>1 DEF WaitsSuffice, StreamInvariant
    <3>3. pending'[thread[u].stream] \subseteq pending[thread[u].stream]
      BY <1>4, <3>2
    <3>4. QED
      BY <1>6, <3>1, <3>2, <3>3
  <2>3. QED
    BY <1>5, <2>1, <2>2 DEF WaitsSuffice, Has
<1>9. QED
  BY <1>1, <1>3, <1>4, <1>8, ThreadsMove

-----------------------------------------------------------------------------
(* enqueue() puts one more command behind those of its stream. *)
LEMMA CommandPut ==
  ASSUME StreamInvariant, NEW t \in Threads, NEW s \in Streams, NEW c \in Commands,
         NEW w \in Work, EnqueuePuts(t, s, c, w)
  PROVE  /\ \A r \in Streams : Issued(r)' = IF r = s THEN Append(Issued(s), c) ELSE Issued(r)
         /\ \A r \in Streams : \A d : Has(r, d)' => Has(r, d) \/ (r = s /\ d = c)
         /\ \A r \in Streams : \A d : Has(r, d) => Has(r, d)' /\ d # c /\ future[d] # "none"
         /\ Has(s, c)'
         /\ OnePlace' /\ Ran' = Ran /\ Ended' = Ended
<1>1. /\ future[c] = "none" /\ queue' = [queue EXCEPT ![s] = Append(queue[s], c)]
      /\ taken' = taken /\ worker' = worker
  BY DEF EnqueuePuts, New
<1>2. \A r \in Streams : Issued(r)' = IF r = s THEN Append(Issued(s), c) ELSE Issued(r)
  <2>1. taken[s] \o Append(queue[s], c) = Append(taken[s] \o queue[s], c)
    <3> DEFINE a == taken[s]
               b == queue[s]
    <3>1. a \in Seq(Commands) /\ b \in Seq(Commands)
      BY IssuedAre DEF StreamInvariant
    <3> HIDE DEF a, b
    <3>2. a \o Append(b, c) = Append(a \o b, c)
      BY <3>1, AppendedBehind
    <3>3. QED
      BY <3>2 DEF a, b
  <2>2. /\ queue'[s] = Append(queue[s], c) /\ taken'[s] = taken[s]
        /\ \A r \in Streams : r # s => queue'[r] = queue[r] /\ taken'[r] = taken[r]
    BY <1>1 DEF StreamInvariant, StreamShape
  <2>3. Issued(s)' = Append(Issued(s), c)
    BY <2>1, <2>2 DEF Issued
  <2>4. \A r \in Streams : r # s => Issued(r)' = Issued(r)
    BY <2>2 DEF Issued
  <2>5. QED
    BY <2>3, <2>4
<1> DEFINE k == Len(Issued(s)) + 1
<1>3. /\ Len(Issued(s)') = k /\ Issued(s)'[k] = c /\ k \in 1..k
      /\ \A n \in 1..Len(Issued(s)) : /\ Issued(s)'[n] = Issued(s)[n]
                                      /\ n \in 1..k /\ n # k
      /\ \A n \in 1..k : n \in 1..Len(Issued(s)) \/ n = k
  <2> DEFINE a == Issued(s)
             b == Append(a, c)
  <2>1. a \in Seq(Commands) /\ Len(a) \in Nat
    BY IssuedAre, LenProperties DEF StreamInvariant
  <2>2. Issued(s)' = b
    BY <1>2
  <2> HIDE DEF a
  <2>3. /\ Len(b) = Len(a) + 1 /\ b[Len(a) + 1] = c
        /\ \A n \in 1..Len(a) : b[n] = a[n]
    BY <2>1, AppendProperties
  <2> HIDE DEF b
  <2>4. QED
    BY <2>1, <2>2, <2>3 DEF a
<1>4. \A r \in Streams : \A n \in 1..Len(Issued(r)) :
        future[Issued(r)[n]] # "none" /\ Issued(r)[n] # c
  BY <1>1 DEF StreamInvariant, FuturesFit
<1>5. \A r \in Streams : r # s => Issued(r)' = Issued(r)
  BY <1>2
<1> HIDE DEF k
<1>6. \A r \in Streams : \A d : Has(r, d)' => Has(r, d) \/ (r = s /\ d = c)
  <2>1. ASSUME NEW r \in Streams, NEW d, NEW n \in 1..Len(Issued(r)'), Issued(r)'[n] = d
        PROVE  Has(r, d) \/ (r = s /\ d = c)
    <3>1. CASE r = s
      BY <1>3, <2>1, <3>1 DEF Has
    <3>2. CASE r # s
      BY <1>5, <2>1, <3>2 DEF Has
    <3>3. QED
      BY <3>1, <3>2
  <2>2. QED
    BY <2>1 DEF Has
<1>7. ASSUME NEW r \in Streams, NEW d, Has(r, d)
      PROVE  Has(r, d)' /\ d # c /\ future[d] # "none"
  <2>1. PICK n \in 1..Len(Issued(r)) : Issued(r)[n] = d
    BY <1>7 DEF Has
  <2>2. d # c /\ future[d] # "none"
    BY <1>4, <2>1
  <2>3. n \in 1..Len(Issued(r)') /\ Issued(r)'[n] = d
    <3>1. CASE r = s
      BY <1>3, <2>1, <3>1
    <3>2. CASE r # s
      BY <1>5, <2>1, <3>2
    <3>3. QED
      BY <3>1, <3>2
  <2>4. QED
    BY <2>2, <2>3 DEF Has
<1>8. Has(s, c)'
  BY <1>3 DEF Has
<1>9. OnePlace'
  <2>1. ASSUME NEW q \in Streams, NEW r \in Streams,
               NEW m \in 1..Len(Issued(q)'), NEW n \in 1..Len(Issued(r)'),
               Issued(q)'[m] = Issued(r)'[n]
        PROVE  q = r /\ m = n
    <3>1. /\ (q = s /\ m = k) \/ (m \in 1..Len(Issued(q)) /\ Issued(q)'[m] = Issued(q)[m])
          /\ (r = s /\ n = k) \/ (n \in 1..Len(Issued(r)) /\ Issued(r)'[n] = Issued(r)[n])
      BY <1>3, <1>5
    <3>2. QED
      BY <1>3, <1>4, <2>1, <3>1 DEF OnePlace, StreamInvariant
  <2>2. QED
    BY <2>1 DEF OnePlace
<1>10. Ran' = Ran /\ Ended' = Ended
  BY <1>1 DEF Ended, Ran, At
<1>11. QED
  BY <1>2, <1>6, <1>7, <1>8, <1>9, <1>10

LEMMA EnqueuePutsKeeps ==
  ASSUME StreamInvariant, NEW t \in Threads, NEW s \in Streams, NEW c \in Commands,
         NEW w \in Work, EnqueuePuts(t, s, c, w)
  PROVE  StreamInvariant'
<1> DEFINE v == [Outside EXCEPT !.at = "enqueues", !.stream = s, !.cmd = c]
<1>1. /\ thread[t].at = "idle" /\ future[c] = "none"
      /\ queue' = [queue EXCEPT ![s] = Append(queue[s], c)]
      /\ work' = [work EXCEPT ![c] = w] /\ future' = [future EXCEPT ![c] = "pending"]
      /\ thread' = [thread EXCEPT ![t] = v]
      /\ worker' = worker /\ pending' = pending /\ completed' = completed
      /\ taken' = taken /\ excused' = excused
  BY DEF EnqueuePuts, Available, New
<1>2. v \in Visit /\ v.at = "enqueues" /\ v.stream = s /\ v.cmd = c
  BY DEF Visit, ThreadPlaces, Outside
<1> HIDE DEF v
<1>3. /\ thread' \in [Threads -> Visit]
      /\ \A u \in Threads : thread'[u] = IF u = t THEN v ELSE thread[u]
  BY <1>1, <1>2, ThreadGoes DEF StreamInvariant
<1>4. /\ future' \in [Commands -> FutureStates]
      /\ \A d \in Commands : future'[d] = IF d = c THEN "pending" ELSE future[d]
  BY <1>1 DEF StreamInvariant, StreamShape, FutureStates
<1>5. StreamShape'
  <2>1. queue' \in [Streams -> Seq(Commands)]
    <3>1. Append(queue[s], c) \in Seq(Commands)
      BY AppendProperties DEF StreamInvariant, StreamShape
    <3>2. QED
      BY <1>1, <3>1 DEF StreamInvariant, StreamShape
  <2>2. work' \in [Commands -> Work \cup {Plain}]
    BY <1>1 DEF StreamInvariant, StreamShape
  <2>3. QED
    BY <1>1, <1>3, <1>4, <2>1, <2>2 DEF StreamInvariant, StreamShape
<1>6. /\ \A r \in Streams : \A d : Has(r, d)' => Has(r, d) \/ (r = s /\ d = c)
      /\ \A r \in Streams : \A d : Has(r, d) => Has(r, d)' /\ d # c /\ future[d] # "none"
      /\ Has(s, c)' /\ OnePlace' /\ Ended' = Ended
  BY CommandPut
<1>7. ASSUME NEW r \in Streams, NEW d, Has(r, d)'
      PROVE  d \in Commands
  <2>1. \A n \in 1..Len(Issued(r)) : Issued(r)[n] \in Commands
    BY IssuedAre DEF StreamInvariant
  <2>2. QED
    BY <1>6, <1>7, <2>1 DEF Has
<1>8. LastTaken'
  BY <1>1 DEF LastTaken, StreamInvariant
<1>9. FuturesFit'
  <2>1. ASSUME NEW r \in Streams, NEW n \in 1..Len(Issued(r)'), NEW d, d = Issued(r)'[n]
        PROVE  future'[d] # "none"
    <3>1. Has(r, d)' /\ d \in Commands
      BY <1>7, <2>1 DEF Has
    <3>2. QED
      BY <1>4, <1>6, <3>1
  <2>2. QED
    BY <1>4, <1>6, <2>1 DEF FuturesFit, StreamInvariant
<1>10. PuttingIsPut'
  <2>1. ASSUME NEW u \in Threads, thread'[u].at = "enqueues"
        PROVE  \E r \in Streams : \E d : thread'[u].stream = r /\ thread'[u].cmd = d /\ Has(r, d)'
    <3>1. CASE u = t
      BY <1>2, <1>3, <1>6, <3>1
    <3>2. CASE u # t
      <4>1. thread'[u] = thread[u]
        BY <1>3, <3>2
      <4>2. thread[u].stream \in Streams /\ Has(thread[u].stream, thread[u].cmd)
        BY <2>1, <4>1 DEF PuttingIsPut, StreamInvariant, Has
      <4>3. PICK r \in Streams : thread[u].stream = r
        BY <4>2
      <4>4. PICK d : thread[u].cmd = d
        OBVIOUS
      <4>5. QED
        BY <1>6, <4>1, <4>2, <4>3, <4>4
    <3>3. QED
      BY <3>1, <3>2
  <2>2. QED
    BY <2>1 DEF PuttingIsPut, Has
<1>11. \A d : Forgotten(d) => Forgotten(d)' \/ (d = c /\ c \in Commands /\ Settled(c))
  BY <1>1 DEF Forgotten, Settled, StreamInvariant, StreamShape
<1>12. \A d : Forgotten(d) => Forgotten(d)'
  BY <1>1, <1>11 DEF Settled
<1>13. \A d : Enqueuing(d) => Enqueuing(d)'
  BY <1>1, <1>3 DEF Enqueuing
<1>14. WaitsSuffice'
  <2>1. ASSUME NEW r \in Streams, NEW d \in Commands, Has(r, d)'
        PROVE  Forgotten(d)' \/ Enqueuing(d)' \/ d \in pending'[r]
    <3>1. CASE Has(r, d)
      BY <1>1, <1>12, <1>13, <3>1 DEF WaitsSuffice, StreamInvariant
    <3>2. CASE d = c
      BY <1>2, <1>3, <3>2 DEF Enqueuing
    <3>3. QED
      BY <1>6, <2>1, <3>1, <3>2
  <2>2. ASSUME NEW u \in Threads, thread'[u].at = "synchronizes"
        PROVE  /\ thread'[u].stream \in Streams
               /\ \A d \in pending'[thread'[u].stream] \cup thread'[u].owed :
                    Forgotten(d)' \/ d \in thread'[u].waits
    <3>1. thread'[u] = thread[u]
      BY <1>2, <1>3, <2>2
    <3>2. QED
      BY <1>1, <1>12, <2>2, <3>1 DEF WaitsSuffice, StreamInvariant
  <2>3. QED
    BY <2>1, <2>2 DEF WaitsSuffice
<1>15. QED
  BY <1>5, <1>6, <1>8, <1>9, <1>10, <1>14 DEF StreamInvariant

(* Every step keeps the invariant. *)
LEMMA StreamsKeep ==
  ASSUME StreamInvariant, [StreamNext]_streamVars
  PROVE  StreamInvariant'
<1>1. CASE \E s \in Streams : Worker(s)
  BY <1>1, TakeKeeps, BeginKeeps, DependencyRaisesKeeps, FinishKeeps, FinishRaisesKeeps
     DEF Worker
<1>2. CASE \E t \in Threads : Application(t)
  BY <1>2, EnqueuePutsKeeps, EnqueueEndsKeeps, SynchronizeStartsKeeps,
     SynchronizeEndsKeeps, GivesUpKeeps DEF Application
<1>3. CASE \E c \in Commands : Cancel(c)
  BY <1>3, CancelKeeps
<1>4. CASE UNCHANGED streamVars
  <2>1. /\ queue' = queue /\ worker' = worker /\ work' = work /\ future' = future
        /\ pending' = pending /\ completed' = completed /\ thread' = thread
        /\ taken' = taken /\ excused' = excused
    BY <1>4 DEF streamVars
  <2>2. StreamShape' /\ LastTaken'
    BY <2>1 DEF StreamInvariant, StreamShape, LastTaken
  <2>3. Ended' = Ended /\ \A s \in Streams : Issued(s)' = Issued(s)
    BY <2>1 DEF Ended, Ran, At, Issued
  <2>4. QED
    BY <2>1, <2>2, <2>3, FuturesMove
<1>5. QED
  BY <1>1, <1>2, <1>3, <1>4 DEF StreamNext

LEMMA StreamsStay == StreamSpec => []StreamInvariant
BY StreamsStart, StreamsKeep, PTL DEF StreamSpec

LEMMA StreamsTyped == StreamInvariant => StreamTypeOK
<1> SUFFICES ASSUME StreamInvariant PROVE StreamTypeOK
  OBVIOUS
<1>1. ASSUME NEW s \in Streams
      PROVE  /\ Issued(s) \in Seq(Commands) /\ DOMAIN Issued(s) = 1..Len(Issued(s))
  BY IssuedAre, LenProperties DEF StreamInvariant
<1>2. ASSUME NEW s \in Streams
      PROVE  /\ Issued(s) \in Seq(Commands) /\ IsInjective(Issued(s))
             /\ pending[s] \subseteq Commands /\ worker[s].at \in WorkerPlaces
             /\ worker[s].cmd \in Commands \cup {None}
  <2>1. pending[s] \subseteq Commands /\ worker[s] \in Place
    BY DEF StreamInvariant, StreamShape
  <2>2. IsInjective(Issued(s))
    BY <1>1 DEF StreamInvariant, OnePlace, IsInjective
  <2>3. QED
    BY <1>1, <2>1, <2>2 DEF Place
<1>3. ASSUME NEW r \in Streams, NEW s \in Streams, r # s
      PROVE  ToSet(Issued(r)) \cap ToSet(Issued(s)) = {}
  BY <1>1, <1>3 DEF StreamInvariant, OnePlace, ToSet
<1>4. /\ work \in [Commands -> Work \cup {Plain}] /\ completed \subseteq Events
      /\ \A c \in Commands : future[c] = "none" \/ future[c] = "pending" \/ Settled(c)
  BY DEF StreamInvariant, StreamShape, FutureStates, Settled
<1>5. QED
  BY <1>2, <1>3, <1>4 DEF StreamTypeOK, WorkerPlaces

(* The queues, workers, commands and futures of the streams keep their types, and
   a command is in one place of one stream. *)
THEOREM StreamTypes == StreamSpec => []StreamTypeOK
BY StreamsStay, StreamsTyped, PTL

-----------------------------------------------------------------------------
(* synchronize() returns in one step only, and then what it copied is settled. *)
LEMMA ReturnsSettled ==
  ASSUME StreamInvariant, [StreamNext]_streamVars, NEW t \in Threads, Returns(t),
         NEW c \in thread[t].owed
  PROVE  Forgotten(c)
<1>1. thread[t].at = "synchronizes" /\ thread'[t].at = "idle" /\ thread \in [Threads -> Visit]
  BY DEF Returns, StreamInvariant, StreamShape
<1>2. Forgotten(c) \/ c \in thread[t].waits
  BY <1>1 DEF StreamInvariant, WaitsSuffice
<1>3. CASE UNCHANGED thread
  BY <1>1, <1>3
<1>4. ASSUME NEW u \in Threads, Application(u)
      PROVE  Forgotten(c)
  <2>1. ASSUME NEW s \in Streams, NEW d \in Commands, NEW w \in Work, EnqueuePuts(u, s, d, w)
        PROVE  FALSE
    <3>1. thread[u].at = "idle" /\ \A v \in Threads : v # u => thread'[v] = thread[v]
      BY <1>1, <2>1 DEF EnqueuePuts, Available
    <3>2. thread'[u].at = "enqueues"
      BY <1>1, <2>1 DEF EnqueuePuts, Outside
    <3>3. QED
      BY <1>1, <3>1, <3>2
  <2>2. ASSUME NEW s \in Streams, SynchronizeStarts(u, s)
        PROVE  FALSE
    BY <1>1, <2>2 DEF SynchronizeStarts, Available
  <2>3. CASE EnqueueEnds(u)
    BY <1>1, <2>3 DEF EnqueueEnds
  <2>4. CASE SynchronizeEnds(u)
    <3>1. u = t
      BY <1>1, <2>4 DEF SynchronizeEnds
    <3>2. QED
      BY <1>2, <2>4, <3>1 DEF SynchronizeEnds, Forgotten
  <2>5. ASSUME NEW d \in Commands, GivesUp(u, d)
        PROVE  FALSE
    BY <1>1, <2>5 DEF GivesUp, Visit
  <2>6. QED
    BY <1>4, <2>1, <2>2, <2>3, <2>4, <2>5 DEF Application
<1>5. CASE \E s \in Streams : Worker(s)
  BY <1>3, <1>5 DEF Worker, Take, Begin, DependencyRaises, Finish, FinishRaises
<1>6. CASE \E d \in Commands : Cancel(d)
  BY <1>3, <1>6 DEF Cancel
<1>7. QED
  BY <1>3, <1>4, <1>5, <1>6 DEF StreamNext, streamVars

(* When synchronize() returns, what was enqueued before is settled, except what
   was enqueued during another synchronize() of the stream or was given up. *)
THEOREM SynchronizeIsEnough == StreamSpec => SynchronizeWaits
<1>1. ASSUME StreamInvariant, [StreamNext]_streamVars
      PROVE  \A t \in Threads : Returns(t) =>
               \A c \in thread[t].owed : Settled(c) \/ c \in excused
  BY <1>1, ReturnsSettled DEF Forgotten
<1>2. StreamInvariant /\ [StreamNext]_streamVars =>
        [\A t \in Threads : Returns(t) =>
           \A c \in thread[t].owed : Settled(c) \/ c \in excused]_streamVars
  BY <1>1
<1>3. QED
  BY <1>2, StreamsStay, PTL DEF StreamSpec, SynchronizeWaits

-----------------------------------------------------------------------------
(* The streams execute their commands in order. *)

IssuedOf == [s \in Streams |-> Issued(s)]
AfterOf == [c \in Commands |-> ToSet(work[c].needs)]

LEMMA OrderStarts == StreamInit => Order!OrderInit
<1> SUFFICES ASSUME StreamInit PROVE Order!OrderInit
  OBVIOUS
<1>1. \A s \in Streams : Issued(s) = <<>> /\ taken[s] = <<>>
  <2>1. <<>> \o <<>> = <<>>
    BY EmptySeq, ConcatEmptySeq
  <2>2. QED
    BY <2>1 DEF StreamInit, Issued
<1>2. \A c \in Commands : ToSet(work[c].needs) = {}
  BY DEF StreamInit, Plain, ToSet
<1>3. Ran = {}
  BY <1>1 DEF Ran, ToSet
<1>4. QED
  BY <1>1, <1>2, <1>3 DEF Order!OrderInit

orderVars == <<IssuedOf, AfterOf, Ran, Ended>>

(* Most steps issue, begin and end nothing. *)
LEMMA OrderStutters ==
  ASSUME \A s \in Streams : Issued(s)' = Issued(s), work' = work, Ran' = Ran, Ended' = Ended
  PROVE  UNCHANGED orderVars
BY DEF orderVars, IssuedOf, AfterOf

LEMMA PutIssues ==
  ASSUME StreamInvariant, NEW t \in Threads, NEW s \in Streams, NEW c \in Commands,
         NEW w \in Work, EnqueuePuts(t, s, c, w)
  PROVE  Order!Issue(s, c, ToSet(w.needs)) /\ ToSet(w.needs) \subseteq Commands
<1>1. /\ \A r \in Streams : Issued(r)' = IF r = s THEN Append(Issued(s), c) ELSE Issued(r)
      /\ \A r \in Streams : \A d : Has(r, d) => d # c
      /\ Ran' = Ran /\ Ended' = Ended
  BY CommandPut
<1>2. ASSUME NEW r \in Streams
      PROVE  c \notin ToSet(Issued(r))
  <2>1. DOMAIN Issued(r) = 1..Len(Issued(r))
    BY IssuedAre, LenProperties DEF StreamInvariant
  <2>2. QED
    BY <1>1, <2>1 DEF Has, ToSet
<1>3. IssuedOf' = [IssuedOf EXCEPT ![s] = Append(IssuedOf[s], c)]
  BY <1>1 DEF IssuedOf
<1>4. AfterOf' = [AfterOf EXCEPT ![c] = ToSet(w.needs)]
  <2>1. work' = [work EXCEPT ![c] = w] /\ work \in [Commands -> Work \cup {Plain}]
    BY DEF EnqueuePuts, StreamInvariant, StreamShape
  <2>2. QED
    BY <2>1 DEF AfterOf
<1>5. ToSet(w.needs) \subseteq Commands
  <2>1. w.needs \in Seq(Commands)
    BY StreamAssumption
  <2> DEFINE q == w.needs
  <2> HIDE DEF q
  <2>2. \A i \in DOMAIN q : q[i] \in Commands
    BY <2>1, ElementOfSeq, LenProperties DEF q
  <2>3. QED
    BY <2>2 DEF ToSet, q
<1>6. \A r \in Streams : c \notin Order!ToSet(IssuedOf[r])
  BY <1>2 DEF ToSet, Order!ToSet, IssuedOf
<1>7. QED
  BY <1>1, <1>3, <1>4, <1>5, <1>6 DEF Order!Issue, IssuedOf, AfterOf, Ended

(* A command that a worker begins is the next of its stream, and what it depends
   on has ended. *)
LEMMA BeginBegins ==
  ASSUME StreamInvariant, NEW s \in Streams, Begin(s)
  PROVE  \E n \in DOMAIN IssuedOf[s] : Order!BeginNext(s, n)
<1> DEFINE n == Len(taken[s])
           cmd == worker[s].cmd
           p == [worker[s] EXCEPT !.at = "runs"]
<1>1. /\ worker[s].at = "depends" /\ worker' = [worker EXCEPT ![s] = p]
      /\ queue' = queue /\ taken' = taken /\ work' = work /\ future' = future
      /\ \A i \in DOMAIN work[cmd].needs : future[work[cmd].needs[i]] = "result"
  BY DEF Begin, Depending, Needed, Succeeded
<1>2. p \in Place /\ p.at = "runs" /\ p.cmd = cmd /\ cmd \in Commands
  BY <1>1, AtHand DEF WorkerPlaces
<1>3. Ran' = Ran \cup {cmd} /\ Ended' = Ended /\ cmd \notin Ran
  BY <1>1, <1>2, WorkerBegins
<1>4. /\ n \in 1..n /\ n \in DOMAIN Issued(s) /\ Issued(s)[n] = cmd
      /\ \A m \in 1..n : Issued(s)[m] = taken[s][m]
  <2>1. DOMAIN Issued(s) = 1..Len(Issued(s))
    BY IssuedAre, LenProperties DEF StreamInvariant
  <2>2. n \in 1..n /\ taken[s][n] = cmd
    BY <1>1, IssuedAre DEF StreamInvariant, LastTaken
  <2>3. QED
    BY <2>1, <2>2, IssuedAre DEF StreamInvariant
<1>5. ASSUME NEW m \in 1..(n - 1)
      PROVE  Issued(s)[m] \in Ended
  <2>1. m \in 1..n /\ m # n
    BY <1>4, <1>5
  <2>2. taken[s][m] \in Taken
    BY <2>1, TakenAre DEF StreamInvariant, Taken
  <2>3. ASSUME NEW r \in Streams, worker[r].at # "idle", worker[r].cmd = taken[s][m]
        PROVE  FALSE
    BY <2>1, <2>3, BusyWithLast
  <2>4. /\ taken[s][m] \notin At({"depends", "failed"})
        /\ taken[s][m] \notin At({"runs"})
    BY <2>3, WorkersAt
  <2>5. QED
    BY <1>4, <2>1, <2>2, <2>4, RanIs
<1>6. ToSet(work[cmd].needs) \subseteq Ended
  <2>1. work[cmd].needs \in Seq(Commands)
    <3>1. work[cmd] \in Work \cup {Plain}
      BY <1>2 DEF StreamInvariant, StreamShape
    <3>2. Plain.needs \in Seq(Commands)
      BY EmptySeq DEF Plain
    <3>3. QED
      BY <3>1, <3>2, StreamAssumption
  <2>2. \A i \in DOMAIN work[cmd].needs : work[cmd].needs[i] \in Commands
    BY <2>1, ElementOfSeq, LenProperties
  <2>3. QED
    BY <1>1, <2>2 DEF ToSet, FuturesFit, StreamInvariant
<1>7. IssuedOf' = IssuedOf /\ AfterOf' = AfterOf
  BY <1>1 DEF IssuedOf, AfterOf, Issued
<1> HIDE DEF n, cmd, p
<1>8. IssuedOf[s] = Issued(s) /\ AfterOf[cmd] = ToSet(work[cmd].needs)
  BY <1>2 DEF IssuedOf, AfterOf
<1>9. Order!BeginNext(s, n)
  BY <1>3, <1>4, <1>5, <1>6, <1>7, <1>8 DEF Order!BeginNext, IssuedOf, AfterOf, Ended
<1>10. QED
  BY <1>4, <1>8, <1>9

LEMMA FinishEnds ==
  ASSUME StreamInvariant, NEW s \in Streams, Finish(s) \/ FinishRaises(s)
  PROVE  \E c \in Commands : Order!End(c)
<1> DEFINE cmd == worker[s].cmd
<1>1. PICK p \in Place : /\ worker' = [worker EXCEPT ![s] = p] /\ p.at \in {"idle", "cancelled"}
                         /\ p.at # "idle" => p.cmd = cmd
  <2>1. Idle \in Place /\ Idle.at = "idle"
    BY DEF Idle, Place, WorkerPlaces
  <2>2. CASE Finish(s)
    BY <2>1, <2>2 DEF Finish
  <2>3. CASE FinishRaises(s)
    <3>1. worker[s].at = "runs" /\ worker' = [worker EXCEPT ![s] = [@ EXCEPT !.at = "cancelled"]]
      BY <2>3 DEF FinishRaises, MayEnd
    <3>2. [worker[s] EXCEPT !.at = "cancelled"] \in Place
          /\ [worker[s] EXCEPT !.at = "cancelled"].at = "cancelled"
          /\ [worker[s] EXCEPT !.at = "cancelled"].cmd = cmd
      BY <3>1, AtHand DEF WorkerPlaces
    <3>3. QED
      BY <3>1, <3>2
  <2>4. QED
    BY <2>2, <2>3
<1>2. worker[s].at = "runs" /\ taken' = taken /\ queue' = queue /\ work' = work
  BY DEF Finish, FinishRaises, MayEnd
<1>3. Ran' = Ran /\ Ended' = Ended \cup {cmd} /\ cmd \in Ran \ Ended
  BY <1>1, <1>2, WorkerEnds
<1>4. cmd \in Commands
  BY <1>2, AtHand
<1>5. IssuedOf' = IssuedOf /\ AfterOf' = AfterOf
  BY <1>2 DEF IssuedOf, AfterOf, Issued
<1> HIDE DEF cmd
<1>6. Order!End(cmd)
  BY <1>3, <1>5 DEF Order!End, IssuedOf, AfterOf, Ended
<1>7. QED
  BY <1>4, <1>6

LEMMA OrderSteps ==
  ASSUME StreamInvariant, [StreamNext]_streamVars
  PROVE  Order!OrderNext \/ UNCHANGED orderVars
<1>1. CASE UNCHANGED <<queue, worker, work, taken>>
  <2>1. Ran' = Ran /\ Ended' = Ended /\ \A s \in Streams : Issued(s)' = Issued(s)
    BY <1>1 DEF Ran, Ended, At, Issued
  <2>2. QED
    BY <1>1, <2>1, OrderStutters
<1>2. ASSUME NEW s \in Streams, Worker(s)
      PROVE  Order!OrderNext \/ UNCHANGED orderVars
  <2>1. CASE Take(s)
    <3>1. work' = work
      BY <2>1 DEF Take
    <3>2. QED
      BY <2>1, <3>1, WorkerTakes, OrderStutters
  <2>2. CASE Begin(s)
    BY <2>2, BeginBegins DEF Order!OrderNext, IssuedOf
  <2>3. CASE DependencyRaises(s)
    <3> DEFINE p == [worker[s] EXCEPT !.at = "failed"]
    <3>1. /\ worker[s].at = "depends" /\ worker' = [worker EXCEPT ![s] = p]
          /\ taken' = taken /\ queue' = queue /\ work' = work
      BY <2>3 DEF DependencyRaises, Depending
    <3>2. p \in Place /\ p.at = "failed" /\ p.cmd = worker[s].cmd
      BY <3>1, AtHand DEF WorkerPlaces
    <3> HIDE DEF p
    <3>3. Ran' = Ran /\ Ended' = Ended
      BY <3>1, <3>2, WorkerBegins
    <3>4. \A r \in Streams : Issued(r)' = Issued(r)
      BY <3>1 DEF Issued
    <3>5. QED
      BY <3>1, <3>3, <3>4, OrderStutters
  <2>4. CASE Finish(s) \/ FinishRaises(s)
    BY <2>4, FinishEnds DEF Order!OrderNext
  <2>5. QED
    BY <1>2, <2>1, <2>2, <2>3, <2>4 DEF Worker
<1>3. ASSUME NEW t \in Threads, Application(t)
      PROVE  Order!OrderNext \/ UNCHANGED orderVars
  <2>1. ASSUME NEW s \in Streams, NEW c \in Commands, NEW w \in Work, EnqueuePuts(t, s, c, w)
        PROVE  Order!OrderNext
    BY <2>1, PutIssues DEF Order!OrderNext
  <2>2. CASE UNCHANGED <<queue, worker, work, taken>>
    BY <1>1, <2>2
  <2>3. QED
    BY <1>3, <2>1, <2>2 DEF Application, EnqueueEnds, SynchronizeStarts, SynchronizeEnds, GivesUp
<1>4. QED
  BY <1>1, <1>2, <1>3 DEF StreamNext, streamVars, Cancel

(* The streams implement the abstract specification: operations within a stream
   begin in the order in which they were enqueued, each after those before it and
   those it depends on have ended. *)
THEOREM StreamsImplementOrder == StreamSpec => StreamsInOrder
<1>1. StreamInvariant /\ [StreamNext]_streamVars =>
        [Order!OrderNext]_<<[s \in Streams |-> Issued(s)],
                            [c \in Commands |-> ToSet(work[c].needs)],
                            Ran, Ran \ At({"runs"})>>
  BY OrderSteps DEF orderVars, IssuedOf, AfterOf, Ended
<1>2. QED
  BY <1>1, OrderStarts, StreamsStay, PTL DEF StreamSpec, StreamsInOrder, Order!OrderSpec

-----------------------------------------------------------------------------
(* The three parts together. *)

DeviceInvariant == PoolInvariant /\ Accounts /\ StreamInvariant /\ CacheInvariant

(* In the composition of the pool, the streams and the cache each part keeps its types,
   for any values of their constants. *)
THEOREM DeviceTypes == Spec => []DeviceTypeOK
<1>1. Init => DeviceInvariant
  BY Start, AccountsStart, StreamsStart, CacheStart DEF Init, DeviceInvariant
<1>2. ASSUME [Next]_allVars
      PROVE  [PoolNext]_poolVars /\ [StreamNext]_streamVars /\ [CacheNext]_cacheVars
  BY <1>2 DEF Next, PartOfPool, PartOfStreams, PartOfCache, allVars
<1>3. DeviceInvariant /\ [Next]_allVars => DeviceInvariant'
  BY <1>2, PoolStep, AccountsStep, StreamsKeep, CacheStep DEF DeviceInvariant
<1>4. DeviceInvariant => DeviceTypeOK
  BY PoolTyped, StreamsTyped, CacheTyped DEF DeviceInvariant, DeviceTypeOK
<1>5. QED
  BY <1>1, <1>3, <1>4, PTL DEF Spec
=============================================================================
