---------------------------- MODULE SequenceLemmas ----------------------------
(***************************************************************************)
(* Facts that the proofs of several modules share: about the sequence      *)
(* operators of the community modules, the places of elements in a         *)
(* sequence, the least and the greatest number of a set, sums over finite  *)
(* sets, folds and what they fold together, functions that are computed    *)
(* from their own values, and folds that do not depend on the order.       *)
(***************************************************************************)
EXTENDS Integers, FiniteSets, Sequences, SequencesExt, SequenceTheorems,
        FiniteSetTheorems, WellFoundedInduction, TLAPS

(* What is left of a list without its first n elements. *)
LEMMA RestKeeps ==
  ASSUME NEW S, NEW s \in Seq(S), NEW n \in 0..Len(s)
  PROVE  /\ SubSeq(s, n + 1, Len(s)) \in Seq(S)
         /\ Len(SubSeq(s, n + 1, Len(s))) = Len(s) - n
         /\ \A i \in 1..(Len(s) - n) : SubSeq(s, n + 1, Len(s))[i] = s[n + i]
<1>1. Len(s) \in Nat /\ \A i \in 1..Len(s) : s[i] \in S
  BY LenProperties, ElementOfSeq
<1>2. SubSeq(s, n + 1, Len(s)) \in Seq(S)
  BY <1>1, SubSeqProperties, Z3
<1>3. Len(SubSeq(s, n + 1, Len(s))) = Len(s) - n
  BY <1>1, SubSeqProperties, Z3
<1>4. \A i \in 1..(Len(s) - n) : SubSeq(s, n + 1, Len(s))[i] = s[n + i]
  BY <1>1, SubSeqProperties, Z3
<1>5. QED
  BY <1>2, <1>3, <1>4

(* What is left of a list without its n-th element. *)
LEMMA RemoveAtKeeps ==
  ASSUME NEW S, NEW s \in Seq(S), NEW n \in 1..Len(s)
  PROVE  /\ RemoveAt(s, n) \in Seq(S)
         /\ DOMAIN RemoveAt(s, n) = 1..(Len(s) - 1)
         /\ \A j \in 1..(Len(s) - 1) :
              RemoveAt(s, n)[j] = IF j < n THEN s[j] ELSE s[j + 1]
<1> DEFINE front == SubSeq(s, 1, n - 1)
           back == SubSeq(s, n + 1, Len(s))
           whole == front \o back
<1>1. Len(s) \in Nat /\ \A i \in 1..Len(s) : s[i] \in S
  BY LenProperties, ElementOfSeq
<1>2. /\ front \in Seq(S) /\ Len(front) = n - 1
      /\ \A i \in 1..(n - 1) : front[i] = s[i]
  BY <1>1, SubSeqProperties, Z3
<1>3. /\ back \in Seq(S) /\ Len(back) = Len(s) - n
      /\ \A i \in 1..(Len(s) - n) : back[i] = s[n + i]
  BY RestKeeps
<1>4. RemoveAt(s, n) = whole
  BY DEF RemoveAt
<1> HIDE DEF front, back
<1>5. /\ whole \in Seq(S)
      /\ Len(whole) = Len(s) - 1
      /\ \A i \in 1..(Len(s) - 1) : whole[i] =
           IF i <= n - 1 THEN front[i] ELSE back[i - (n - 1)]
  <2>1. /\ whole \in Seq(S)
        /\ Len(whole) = Len(front) + Len(back)
        /\ \A i \in 1..Len(front) + Len(back) : whole[i] =
             IF i <= Len(front) THEN front[i] ELSE back[i - Len(front)]
    BY <1>2, <1>3, ConcatProperties, Zenon
  <2>2. Len(front) + Len(back) = Len(s) - 1
    BY <1>1, <1>2, <1>3
  <2> HIDE DEF whole
  <2>3. QED
    BY <1>2, <2>1, <2>2
<1> HIDE DEF whole
<1>6. DOMAIN whole = 1..(Len(s) - 1)
  <2>1. DOMAIN whole = 1..Len(whole)
    BY <1>5, LenProperties, Zenon
  <2>2. QED
    BY <1>5, <2>1
<1>7. ASSUME NEW j \in 1..(Len(s) - 1)
      PROVE  whole[j] = IF j < n THEN s[j] ELSE s[j + 1]
  <2>1. CASE j < n
    BY <2>1, <1>1, <1>2, <1>5
  <2>2. CASE ~(j < n)
    <3>1. whole[j] = back[j - (n - 1)]
      BY <2>2, <1>1, <1>5
    <3>2. j - (n - 1) \in 1..(Len(s) - n) /\ n + (j - (n - 1)) = j + 1
      BY <2>2, <1>1
    <3>3. back[j - (n - 1)] = s[j + 1]
      BY <3>2, <1>3
    <3>4. QED
      BY <3>1, <3>3, <2>2
  <2>3. QED
    BY <2>1, <2>2
<1>8. QED
  BY <1>4, <1>5, <1>6, <1>7

(* A set of indices that is closed downwards is as long as it has elements. *)
LEMMA Initial ==
  ASSUME NEW L \in Nat, NEW S \in SUBSET (1..L),
         \A m \in S : 1..m \subseteq S
  PROVE  Cardinality(S) \in 0..L /\ 1..Cardinality(S) \subseteq S
<1>1. IsFiniteSet(1..L) /\ Cardinality(1..L) = L
  <2>1. /\ IsFiniteSet(1..L)
        /\ Cardinality(1..L) = IF 1 > L THEN 0 ELSE L - 1 + 1
    <3>1. 1 \in Int /\ L \in Int
      OBVIOUS
    <3>2. QED
      BY <3>1, FS_Interval, Zenon
  <2>2. QED
    BY <2>1
<1>2. Cardinality(S) \in 0..L
  <2>1. IsFiniteSet(S) /\ Cardinality(S) <= L
    BY <1>1, FS_Subset
  <2>2. Cardinality(S) \in Nat
    BY <2>1, FS_CardinalityType
  <2>3. QED
    BY <2>1, <2>2
<1>3. ASSUME NEW m \in 1..Cardinality(S), m \notin S
      PROVE  FALSE
  <2>1. S \in SUBSET (1..(m - 1))
    <3>1. ASSUME NEW k \in S, k >= m
          PROVE  FALSE
      <4>1. m \in 1..k
        BY <1>2, <3>1
      <4>2. QED
        BY <1>3, <3>1, <4>1
    <3>2. QED
      BY <1>2, <3>1
  <2>2. IsFiniteSet(1..(m - 1)) /\ Cardinality(1..(m - 1)) = m - 1
    <3>1. 1 \in Int /\ m - 1 \in Int
      BY <1>2
    <3>2. /\ IsFiniteSet(1..(m - 1))
          /\ Cardinality(1..(m - 1)) =
               IF 1 > m - 1 THEN 0 ELSE (m - 1) - 1 + 1
      BY <3>1, FS_Interval, Zenon
    <3>3. QED
      BY <1>2, <3>2
  <2>3. Cardinality(S) <= m - 1
    BY <2>1, <2>2, FS_Subset
  <2>4. QED
    BY <1>2, <2>3
<1>4. QED
  BY <1>2, <1>3

(* A sequence of different members of a finite set. *)
LEMMA Permutation ==
  ASSUME NEW S, IsFiniteSet(S), NEW q \in SetToAllKPermutations(S)
  PROVE  /\ q \in Seq(S)
         /\ \A m, n \in DOMAIN q : q[m] = q[n] => m = n
<1>1. PICK T \in SUBSET S : q \in SetToSeqs(T)
  BY DEF SetToAllKPermutations
<1>2. Cardinality(T) \in Nat
  BY FS_Subset, FS_CardinalityType
<1>3. /\ q \in [1..Cardinality(T) -> T]
      /\ \A m, n \in 1..Cardinality(T) : m # n => q[m] # q[n]
  BY <1>1 DEF SetToSeqs
<1>4. q \in Seq(S)
  BY <1>2, <1>3, SMT
<1>5. QED
  BY <1>3, <1>4

(* Two lists, one behind the other. *)
LEMMA AppendedBehind ==
  ASSUME NEW S, NEW a \in Seq(S), NEW b \in Seq(S), NEW x \in S
  PROVE  a \o Append(b, x) = Append(a \o b, x)
<1>1. <<x>> \in Seq(S)
  OBVIOUS
<1>2. Append(b, x) = b \o <<x>>
  BY AppendIsConcat
<1>3. (a \o b) \o <<x>> = a \o (b \o <<x>>)
  BY <1>1, ConcatAssociative
<1>4. Append(a \o b, x) = (a \o b) \o <<x>>
  BY ConcatProperties, AppendIsConcat
<1>5. QED
  BY <1>2, <1>3, <1>4

LEMMA HeadMoved ==
  ASSUME NEW S, NEW a \in Seq(S), NEW b \in Seq(S), b # <<>>
  PROVE  Append(a, Head(b)) \o Tail(b) = a \o b
<1>1. Len(b) \in Nat \ {0} /\ Head(b) \in S /\ Tail(b) \in Seq(S) /\ Head(b) = b[1]
  BY EmptySeq, HeadTailProperties
<1>2. b = <<Head(b)>> \o Tail(b)
  <2>1. 1 \in 1..Len(b) /\ Len(b) \in 1..Len(b)
    BY <1>1
  <2>2. SubSeq(b, 1, Len(b)) = <<b[1]>> \o SubSeq(b, 1 + 1, Len(b))
    BY <2>1, SubSeqRecursiveFirst
  <2>3. SubSeq(b, 1, Len(b)) = b /\ Tail(b) = SubSeq(b, 2, Len(b))
    BY SubSeqFull, TailIsSubSeq
  <2>4. QED
    BY <1>1, <2>2, <2>3
<1>3. Append(a, Head(b)) = a \o <<Head(b)>> /\ <<Head(b)>> \in Seq(S)
  BY <1>1, AppendIsConcat
<1>4. (a \o <<Head(b)>>) \o Tail(b) = a \o (<<Head(b)>> \o Tail(b))
  BY <1>1, <1>3, ConcatAssociative
<1>5. QED
  BY <1>2, <1>3, <1>4

LEMMA LaterPart ==
  ASSUME NEW S, NEW a \in Seq(S), NEW b \in Seq(S), Len(b) # 0
  PROVE  Len(a) + 1 \in 1..Len(a \o b) /\ (a \o b)[Len(a) + 1] = b[1]
<1>1. Len(a) \in Nat /\ Len(b) \in Nat /\ Len(a \o b) = Len(a) + Len(b)
      /\ \A i \in 1..Len(a) + Len(b) : (a \o b)[i] = IF i <= Len(a) THEN a[i] ELSE b[i - Len(a)]
  BY ConcatProperties, LenProperties
<1>2. Len(a) + 1 \in 1..Len(a) + Len(b) /\ ~(Len(a) + 1 <= Len(a)) /\ Len(a) + 1 - Len(a) = 1
  BY <1>1
<1>3. QED
  BY <1>1, <1>2

(* A set of natural numbers has a least element. *)
LEMMA LeastNatural ==
  ASSUME NEW T \in SUBSET Nat, T # {}
  PROVE  \E x \in T : \A y \in T : x <= y
<1>1. PICK R : R = OpToRel(<, Nat)
  OBVIOUS
<1>2. IsWellFoundedOn(R, Nat)
  BY <1>1, NatLessThanWellFounded, Zenon
<1>5. \A x, y \in Nat : x < y => <<x, y>> \in R
  BY <1>1, Zenon DEF OpToRel
<1>3. PICK x \in T : \A y \in T : ~(<<y, x>> \in R)
  BY <1>2, WFMin, Zenon
<1>4. QED
  <2>1. ASSUME NEW y \in T
        PROVE  ~(y < x)
    BY <1>5, <1>3, Zenon
  <2>2. QED
    BY <2>1

(* A set of natural numbers that is bounded has a greatest element. *)
LEMMA Greatest ==
  ASSUME NEW n \in Nat, NEW S \in SUBSET (0..n), S # {}
  PROVE  /\ Max(S) \in S
         /\ \A y \in S : Max(S) >= y
<1> DEFINE T == {u \in 0..n : \A s \in S : s <= u}
<1>1. n \in T
  OBVIOUS
<1>2. PICK x \in T : \A y \in T : x <= y
  <2>1. T \in SUBSET Nat /\ T # {}
    BY <1>1
  <2> HIDE DEF T
  <2>2. QED
    BY <2>1, LeastNatural
<1>3. x \in S
  <2>1. ASSUME x \notin S PROVE FALSE
    <3>1. \A s \in S : s <= x - 1
      BY <1>2, <2>1
    <3>2. x - 1 \in T
      <4>1. PICK s \in S : TRUE
        OBVIOUS
      <4>2. x - 1 \in 0..n
        BY <1>2, <3>1, <4>1
      <4>3. QED
        BY <3>1, <4>2
    <3>3. QED
      BY <1>2, <3>2
  <2>2. QED
    BY <2>1
<1>4. \A y \in S : x >= y
  BY <1>2
<1>5. QED
  BY <1>3, <1>4 DEF Max

(* Taking the n-th element out of a list that names it once. *)
LEMMA RemoveAtTakes ==
  ASSUME NEW S, NEW s \in Seq(S), NEW n \in 1..Len(s),
         \A i, j \in DOMAIN s : s[i] = s[j] => i = j
  PROVE  ToSet(RemoveAt(s, n)) = ToSet(s) \ {s[n]}
<1> DEFINE r == RemoveAt(s, n)
<1>1. Len(s) \in Nat /\ DOMAIN s = 1..Len(s)
  BY LenProperties
<1>2. /\ DOMAIN r = 1..(Len(s) - 1)
      /\ \A j \in 1..(Len(s) - 1) : r[j] = IF j < n THEN s[j] ELSE s[j + 1]
  BY RemoveAtKeeps
<1> HIDE DEF r
<1>3. ASSUME NEW j \in DOMAIN r PROVE r[j] \in ToSet(s) /\ r[j] # s[n]
  <2>1. j \in DOMAIN s /\ j + 1 \in DOMAIN s /\ n \in DOMAIN s
    BY <1>1, <1>2
  <2>2. CASE j < n
    BY <1>1, <1>2, <2>1, <2>2 DEF ToSet
  <2>3. CASE ~(j < n)
    <3>1. r[j] = s[j + 1] /\ j + 1 # n
      BY <1>1, <1>2, <2>3
    <3>2. QED
      BY <2>1, <3>1 DEF ToSet
  <2>4. QED
    BY <2>2, <2>3
<1>4. ASSUME NEW i \in DOMAIN s, s[i] # s[n] PROVE s[i] \in ToSet(r)
  <2>1. CASE i < n
    <3>1. i \in DOMAIN r /\ r[i] = s[i]
      BY <1>1, <1>2, <2>1
    <3>2. QED
      BY <3>1 DEF ToSet
  <2>2. CASE ~(i < n)
    <3>1. i # n
      BY <1>4
    <3>2. i - 1 \in DOMAIN r /\ ~(i - 1 < n) /\ (i - 1) + 1 = i
      BY <1>1, <1>2, <2>2, <3>1
    <3>3. r[i - 1] = s[i]
      BY <1>2, <3>2
    <3>4. QED
      BY <3>2, <3>3 DEF ToSet
  <2>3. QED
    BY <2>1, <2>2
<1>5. ToSet(r) = ToSet(s) \ {s[n]}
  BY <1>3, <1>4 DEF ToSet
<1>6. QED
  BY <1>5 DEF r

(* Appending an element. *)
LEMMA AppendAdds ==
  ASSUME NEW S, NEW s \in Seq(S), NEW x \in S
  PROVE  ToSet(Append(s, x)) = ToSet(s) \cup {x}
<1> DEFINE r == Append(s, x)
<1>1. Len(s) \in Nat /\ DOMAIN s = 1..Len(s)
  BY LenProperties
<1>2. /\ r \in Seq(S) /\ Len(r) = Len(s) + 1 /\ r[Len(s) + 1] = x
      /\ \A i \in 1..Len(s) : r[i] = s[i]
  BY AppendProperties
<1> HIDE DEF r
<1>3. DOMAIN r = 1..(Len(s) + 1)
  BY <1>2, LenProperties
<1>4. \A i \in DOMAIN r : i \in DOMAIN s \/ i = Len(s) + 1
  BY <1>1, <1>3
<1>5. DOMAIN s \subseteq DOMAIN r /\ Len(s) + 1 \in DOMAIN r
  BY <1>1, <1>3
<1>6. ToSet(r) = ToSet(s) \cup {x}
  BY <1>1, <1>2, <1>4, <1>5 DEF ToSet
<1>7. QED
  BY <1>6 DEF r

-----------------------------------------------------------------------------
(* Sums over finite sets: Total(F, S) is what MapThenSumSet() computes of F[x] for the
   x in S.  It is recursive over a set that shrinks; the lemmas reason with the
   smallest set of which they could be false. *)
Total(F, S) == MapThenSumSet(LAMBDA x : F[x], S)

OneOf(s) == CHOOSE x \in s : TRUE

\* What the sum of s makes of the sums g of smaller sets.
Adds(F, g, s) == IF s = {} THEN 0 ELSE F[OneOf(s)] + g[s \ {OneOf(s)}]
Sums(F, S, g) == g = [s \in SUBSET S |-> Adds(F, g, s)]

(* What the community modules make of it. *)
LEMMA TotalUnfolds ==
  ASSUME NEW F, NEW S
  PROVE  Total(F, S) = (CHOOSE g : Sums(F, S, g))[S]
BY DEF Total, MapThenSumSet, MapThenFoldSet, Sums, Adds, OneOf

(* A set without one of its elements is smaller. *)
LEMMA OneLess ==
  ASSUME NEW s, IsFiniteSet(s), NEW x \in s
  PROVE  /\ IsFiniteSet(s \ {x}) /\ Cardinality(s) \in Nat
         /\ Cardinality(s \ {x}) \in Nat /\ Cardinality(s \ {x}) = Cardinality(s) - 1
BY FS_RemoveElement, FS_CardinalityType

LEMMA OneOfIsMember == ASSUME NEW s, s # {} PROVE OneOf(s) \in s
BY DEF OneOf

\* The subsets of at most n elements.
Small(S, n) == {s \in SUBSET S : Cardinality(s) <= n}

(* There is a function that gives each subset its sum: if there were none for the
   subsets of n + 1 elements, there would be none for those of n. *)
LEMMA SumsExist ==
  ASSUME NEW F, NEW S, IsFiniteSet(S)
  PROVE  \E g : Sums(F, S, g)
<1> DEFINE Exists(n) == \E g : g = [s \in Small(S, n) |-> Adds(F, g, s)]
           T == {n \in Nat : ~Exists(n)}
<1>0. \A s \in SUBSET S : IsFiniteSet(s) /\ Cardinality(s) \in Nat
  BY FS_Subset, FS_CardinalityType
<1>1. Exists(0)
  <2>1. \A s \in Small(S, 0) : s = {}
    BY <1>0, FS_EmptySet DEF Small
  <2> DEFINE g == [s \in Small(S, 0) |-> 0]
  <2>2. g = [s \in Small(S, 0) |-> Adds(F, g, s)]
    BY <2>1 DEF Adds
  <2>3. QED
    BY <2>2
<1>2. ASSUME NEW n \in Nat, Exists(n) PROVE Exists(n + 1)
  <2>1. PICK h : h = [s \in Small(S, n) |-> Adds(F, h, s)]
    BY <1>2
  <2> DEFINE g == [s \in Small(S, n + 1) |-> Adds(F, h, s)]
  <2>2. ASSUME NEW s \in Small(S, n + 1) PROVE Adds(F, h, s) = Adds(F, g, s)
    <3>1. CASE s = {}
      BY <3>1 DEF Adds
    <3>2. CASE s # {}
      <4> DEFINE t == s \ {OneOf(s)}
      <4>1. OneOf(s) \in s /\ s \in SUBSET S /\ Cardinality(s) <= n + 1
        BY <3>2, OneOfIsMember DEF Small
      <4>2. t \in SUBSET S /\ Cardinality(t) = Cardinality(s) - 1 /\ Cardinality(s) \in Nat
        BY <1>0, <4>1, OneLess
      <4>3. t \in Small(S, n) /\ t \in Small(S, n + 1)
        BY <4>1, <4>2 DEF Small
      <4> HIDE DEF t
      <4>4. g[t] = Adds(F, h, t) /\ h[t] = Adds(F, h, t)
        BY <2>1, <4>3
      <4>5. QED
        BY <3>2, <4>4 DEF Adds, t
    <3>3. QED
      BY <3>1, <3>2
  <2>3. g = [s \in Small(S, n + 1) |-> Adds(F, g, s)]
    BY <2>2
  <2>4. QED
    BY <2>3
<1> HIDE DEF Exists
<1>3. T = {}
  <2>1. ASSUME T # {} PROVE FALSE
    <3>1. PICK n \in T : \A m \in T : n <= m
      BY <2>1, LeastNatural
    <3>2. n # 0 /\ n \in Nat /\ ~Exists(n)
      BY <1>1, <3>1
    <3>3. n - 1 \in Nat /\ n - 1 \notin T
      BY <3>1, <3>2
    <3>4. Exists((n - 1) + 1)
      BY <1>2, <3>3
    <3>5. QED
      BY <3>2, <3>4
  <2>2. QED
    BY <2>1
<1>4. Exists(Cardinality(S))
  BY <1>0, <1>3
<1>5. Small(S, Cardinality(S)) = SUBSET S
  BY <1>0, FS_Subset DEF Small
<1>6. QED
  BY <1>4, <1>5 DEF Exists, Sums

(* Sums of the same numbers are the same, whatever they are parts of. *)
LEMMA SumsAgree ==
  ASSUME NEW S, IsFiniteSet(S), NEW R, IsFiniteSet(R), NEW F, NEW G, NEW g, NEW h,
         Sums(F, S, g), Sums(G, R, h), NEW s \in SUBSET (S \cap R),
         \A x \in s : F[x] = G[x]
  PROVE  g[s] = h[s]
<1> DEFINE Fails(t) == (\A x \in t : F[x] = G[x]) /\ g[t] # h[t]
           T == {n \in Nat : \E t \in SUBSET (S \cap R) : Cardinality(t) = n /\ Fails(t)}
<1>1. ASSUME T # {} PROVE FALSE
  <2>1. PICK n \in T : \A m \in T : n <= m
    BY <1>1, LeastNatural
  <2>2. PICK t \in SUBSET (S \cap R) : Cardinality(t) = n /\ Fails(t)
    BY <2>1
  <2>3. g[t] = Adds(F, g, t) /\ h[t] = Adds(G, h, t)
    BY <2>2 DEF Sums
  <2>4. t # {}
    BY <2>2, <2>3 DEF Adds
  <2> DEFINE x == OneOf(t)
             u == t \ {x}
  <2>5. x \in t
    BY <2>4, OneOfIsMember
  <2>6. IsFiniteSet(t)
    BY <2>2, FS_Subset
  <2>7. Cardinality(u) \in Nat /\ Cardinality(u) < n
    BY <2>2, <2>5, <2>6, OneLess
  <2>8. ~Fails(u)
    BY <2>1, <2>2, <2>7
  <2>9. g[u] = h[u] /\ F[x] = G[x]
    BY <2>2, <2>5, <2>8
  <2>10. QED
    BY <2>2, <2>3, <2>4, <2>9 DEF Adds
<1>2. Cardinality(s) \in Nat
  BY FS_Subset, FS_CardinalityType
<1>3. QED
  BY <1>1, <1>2

(* Sums of integers are integers. *)
LEMMA SumsAreNumbers ==
  ASSUME NEW S, IsFiniteSet(S), NEW F, NEW g, Sums(F, S, g), \A x \in S : F[x] \in Int
  PROVE  \A s \in SUBSET S : g[s] \in Int
<1> DEFINE T == {n \in Nat : \E t \in SUBSET S : Cardinality(t) = n /\ g[t] \notin Int}
<1>1. ASSUME T # {} PROVE FALSE
  <2>1. PICK n \in T : \A m \in T : n <= m
    BY <1>1, LeastNatural
  <2>2. PICK t \in SUBSET S : Cardinality(t) = n /\ g[t] \notin Int
    BY <2>1
  <2>3. g[t] = Adds(F, g, t)
    BY <2>2 DEF Sums
  <2>4. t # {}
    BY <2>2, <2>3 DEF Adds
  <2> DEFINE x == OneOf(t)
             u == t \ {x}
  <2>5. x \in t
    BY <2>4, OneOfIsMember
  <2>6. IsFiniteSet(t)
    BY <2>2, FS_Subset
  <2>7. Cardinality(u) \in Nat /\ Cardinality(u) < n
    BY <2>2, <2>5, <2>6, OneLess
  <2>8. g[u] \in Int /\ F[x] \in Int
    BY <2>1, <2>2, <2>5, <2>7
  <2>9. QED
    BY <2>2, <2>3, <2>4, <2>8 DEF Adds
<1>2. ASSUME NEW s \in SUBSET S PROVE Cardinality(s) \in Nat
  BY FS_Subset, FS_CardinalityType
<1>3. QED
  BY <1>1, <1>2

(* Any element may be the last that is added. *)
LEMMA SumsTakeAny ==
  ASSUME NEW S, IsFiniteSet(S), NEW F, NEW g, Sums(F, S, g), \A x \in S : F[x] \in Int
  PROVE  \A s \in SUBSET S : \A x \in s : g[s] = F[x] + g[s \ {x}]
<1> DEFINE Fails(t, x) == g[t] # F[x] + g[t \ {x}]
           T == {n \in Nat : \E t \in SUBSET S : Cardinality(t) = n /\ \E x \in t : Fails(t, x)}
<1>0. \A s \in SUBSET S : g[s] \in Int
  BY SumsAreNumbers
<1>1. ASSUME T # {} PROVE FALSE
  <2>1. PICK n \in T : \A m \in T : n <= m
    BY <1>1, LeastNatural
  <2>2. PICK t \in SUBSET S : Cardinality(t) = n /\ \E x \in t : Fails(t, x)
    BY <2>1
  <2>3. PICK x \in t : Fails(t, x)
    BY <2>2
  <2> DEFINE p == OneOf(t)
  <2>4. p \in t
    BY <2>2, OneOfIsMember
  <2>5. g[t] = F[p] + g[t \ {p}]
    BY <2>2, <2>4 DEF Sums, Adds
  <2>6. IsFiniteSet(t) /\ p # x
    BY <2>2, <2>3, <2>5, FS_Subset
  <2> HIDE DEF p
  <2>7. ASSUME NEW y \in t
        PROVE  Cardinality(t \ {y}) \in Nat \ T /\ t \ {y} \in SUBSET S
    <3>1. Cardinality(t \ {y}) \in Nat /\ Cardinality(t \ {y}) = Cardinality(t) - 1
      BY <2>6, OneLess
    <3>2. n \in Nat /\ Cardinality(t) = n
      BY <2>2
    <3> HIDE DEF T
    <3>3. QED
      BY <2>1, <3>1, <3>2
  <2>8. /\ t \ {p} \in SUBSET S /\ t \ {x} \in SUBSET S
        /\ Cardinality(t \ {p}) \in Nat \ T /\ Cardinality(t \ {x}) \in Nat \ T
    BY <2>4, <2>7
  <2>9. ~Fails(t \ {p}, x) /\ ~Fails(t \ {x}, p)
    BY <2>4, <2>6, <2>8
  <2> DEFINE rest == (t \ {p}) \ {x}
  <2>10. (t \ {x}) \ {p} = rest
    OBVIOUS
  <2>11. g[t \ {p}] = F[x] + g[rest] /\ g[t \ {x}] = F[p] + g[rest]
    BY <2>9, <2>10
  <2>12. F[x] \in Int /\ F[p] \in Int /\ g[rest] \in Int
    BY <1>0, <2>2, <2>4
  <2> HIDE DEF rest
  <2>13. g[t] = F[x] + g[t \ {x}]
    BY <2>5, <2>11, <2>12
  <2>14. QED
    BY <2>3, <2>13
<1>2. ASSUME NEW s \in SUBSET S PROVE Cardinality(s) \in Nat
  BY FS_Subset, FS_CardinalityType
<1>3. QED
  BY <1>1, <1>2

(* Total() is such a sum. *)
LEMMA TotalSums ==
  ASSUME NEW F, NEW S, IsFiniteSet(S)
  PROVE  \E g : Sums(F, S, g) /\ Total(F, S) = g[S]
BY SumsExist, TotalUnfolds

(* Nothing sums up to nothing. *)
LEMMA TotalOfNothing == ASSUME NEW F PROVE Total(F, {}) = 0
<1>1. PICK g : Sums(F, {}, g) /\ Total(F, {}) = g[{}]
  BY TotalSums, FS_EmptySet
<1>2. QED
  BY <1>1 DEF Sums, Adds

(* Only the numbers count that are added. *)
LEMMA TotalOfSame ==
  ASSUME NEW F, NEW G, NEW S, IsFiniteSet(S), \A x \in S : F[x] = G[x]
  PROVE  Total(F, S) = Total(G, S)
<1>1. PICK g : Sums(F, S, g) /\ Total(F, S) = g[S]
  BY TotalSums
<1>2. PICK h : Sums(G, S, h) /\ Total(G, S) = h[S]
  BY TotalSums
<1>3. g[S] = h[S]
  BY <1>1, <1>2, SumsAgree
<1>4. QED
  BY <1>1, <1>2, <1>3

(* One more adds its number. *)
LEMMA TotalOfOneMore ==
  ASSUME NEW F, NEW S, IsFiniteSet(S), NEW x, x \notin S,
         \A y \in S \cup {x} : F[y] \in Int
  PROVE  /\ Total(F, S) \in Int
         /\ Total(F, S \cup {x}) = Total(F, S) + F[x]
<1> DEFINE more == S \cup {x}
<1>1. IsFiniteSet(more) /\ S \in SUBSET more /\ \A y \in more : F[y] \in Int
  BY FS_AddElement
<1>2. PICK g : Sums(F, S, g) /\ Total(F, S) = g[S]
  BY TotalSums
<1>3. PICK h : Sums(F, more, h) /\ Total(F, more) = h[more]
  BY <1>1, TotalSums
<1>4. g[S] = h[S]
  BY <1>1, <1>2, <1>3, SumsAgree
<1>5. x \in more /\ more \ {x} = S
  OBVIOUS
<1> HIDE DEF more
<1>6. h[more] = F[x] + h[more \ {x}]
  BY <1>1, <1>3, <1>5, SumsTakeAny
<1>7. g[S] \in Int /\ F[x] \in Int
  BY <1>2, SumsAreNumbers
<1>8. Total(F, more) = Total(F, S) + F[x]
  <2>1. h[more] = F[x] + g[S]
    BY <1>4, <1>5, <1>6
  <2>2. F[x] + g[S] = g[S] + F[x]
    BY <1>7
  <2>3. QED
    BY <1>2, <1>3, <2>1, <2>2
<1>9. QED
  BY <1>2, <1>7, <1>8 DEF more

(* What two sets without a common element add up to. *)
LEMMA TotalOfBoth ==
  ASSUME NEW F, NEW S, NEW R, IsFiniteSet(S), IsFiniteSet(R), S \cap R = {},
         \A x \in S \cup R : F[x] \in Int
  PROVE  /\ Total(F, S) \in Int /\ Total(F, R) \in Int
         /\ Total(F, S \cup R) = Total(F, S) + Total(F, R)
<1> DEFINE Fails(t) == Total(F, t) \notin Int \/ Total(F, S \cup t) # Total(F, S) + Total(F, t)
           T == {n \in Nat : \E t \in SUBSET R : Cardinality(t) = n /\ Fails(t)}
<1>0. Total(F, S) \in Int
  <2>1. PICK g : Sums(F, S, g) /\ Total(F, S) = g[S]
    BY TotalSums
  <2>2. QED
    BY <2>1, SumsAreNumbers
<1>1. ASSUME T # {} PROVE FALSE
  <2>1. PICK n \in T : \A m \in T : n <= m
    BY <1>1, LeastNatural
  <2>2. PICK t \in SUBSET R : Cardinality(t) = n /\ Fails(t)
    BY <2>1
  <2>3. t # {}
    <3>1. Total(F, {}) = 0 /\ S \cup {} = S
      BY TotalOfNothing
    <3>2. ~Fails({})
      BY <1>0, <3>1
    <3>3. QED
      BY <2>2, <3>2
  <2>4. PICK x \in t : TRUE
    BY <2>3
  <2> DEFINE u == t \ {x}
  <2>5. IsFiniteSet(t)
    BY <2>2, FS_Subset
  <2>6. IsFiniteSet(u) /\ Cardinality(u) \in Nat \ T /\ u \in SUBSET R
    <3>1. IsFiniteSet(u) /\ Cardinality(u) \in Nat /\ Cardinality(u) = Cardinality(t) - 1
      BY <2>5, OneLess
    <3>2. n \in Nat /\ Cardinality(t) = n
      BY <2>2
    <3> HIDE DEF T, u
    <3>3. Cardinality(u) \notin T
      BY <2>1, <3>1, <3>2
    <3>4. QED
      BY <3>1, <3>3 DEF u
  <2>7. ~Fails(u)
    <3> HIDE DEF Fails, u
    <3>1. QED
      BY <2>6
  <2>8. t = u \cup {x} /\ S \cup t = (S \cup u) \cup {x}
    OBVIOUS
  <2>9. IsFiniteSet(S \cup u) /\ x \notin S \cup u /\ u \subseteq R /\ x \in R
    BY <2>2, <2>6, FS_Union
  <2> HIDE DEF u
  <2>10. /\ Total(F, u) \in Int
         /\ Total(F, u \cup {x}) = Total(F, u) + F[x]
    <3>1. x \notin u
      BY <2>9
    <3>2. \A y \in u \cup {x} : F[y] \in Int
      BY <2>9
    <3>3. QED
      BY <2>6, <3>1, <3>2, TotalOfOneMore
  <2>11. /\ Total(F, S \cup u) \in Int
         /\ Total(F, (S \cup u) \cup {x}) = Total(F, S \cup u) + F[x]
    <3>1. \A y \in (S \cup u) \cup {x} : F[y] \in Int
      BY <2>9
    <3>2. QED
      BY <2>9, <3>1, TotalOfOneMore
  <2>12. F[x] \in Int
    BY <2>9
  <2>13. ~Fails(t)
    BY <1>0, <2>7, <2>8, <2>10, <2>11, <2>12
  <2>14. QED
    BY <2>2, <2>13
<1>2. Cardinality(R) \in Nat
  BY FS_CardinalityType
<1>3. QED
  BY <1>0, <1>1, <1>2

(* Numbers that are not negative have such a sum. *)
LEMMA TotalIsNatural ==
  ASSUME NEW F, NEW S, IsFiniteSet(S), \A x \in S : F[x] \in Nat
  PROVE  Total(F, S) \in Nat
<1> DEFINE T == {n \in Nat : \E t \in SUBSET S : Cardinality(t) = n /\ Total(F, t) \notin Nat}
<1>1. ASSUME T # {} PROVE FALSE
  <2>1. PICK n \in T : \A m \in T : n <= m
    BY <1>1, LeastNatural
  <2>2. PICK t \in SUBSET S : Cardinality(t) = n /\ Total(F, t) \notin Nat
    BY <2>1
  <2>3. t # {}
    BY <2>2, TotalOfNothing
  <2>4. PICK x \in t : TRUE
    BY <2>3
  <2> DEFINE u == t \ {x}
  <2>5. IsFiniteSet(t)
    BY <2>2, FS_Subset
  <2>6. IsFiniteSet(u) /\ Cardinality(u) \in Nat /\ Cardinality(u) < n
    BY <2>2, <2>5, OneLess
  <2>7. Total(F, u) \in Nat
    BY <2>1, <2>2, <2>6
  <2>8. t = u \cup {x} /\ x \notin u /\ \A y \in u \cup {x} : F[y] \in Nat
    BY <2>2
  <2> HIDE DEF u
  <2>9. Total(F, u \cup {x}) = Total(F, u) + F[x]
    BY <2>6, <2>8, TotalOfOneMore
  <2>10. F[x] \in Nat
    BY <2>2
  <2>11. QED
    BY <2>2, <2>7, <2>8, <2>9, <2>10
<1>2. Cardinality(S) \in Nat
  BY FS_CardinalityType
<1>3. QED
  BY <1>1, <1>2
-----------------------------------------------------------------------------
\* What a fold from the left over n elements makes of their prefixes.
Folds(base, step, n, g) ==
  g = [s \in SUBSET (1..n) |-> IF s = {} THEN base ELSE step[<<Max(s), g[s \ {Max(s)}]>>]]

LEMMA NaturalInduction ==
  ASSUME NEW n \in Nat, NEW P, 0 \in P, \A k \in 1..n : k - 1 \in P => k \in P
  PROVE  \A k \in 0..n : k \in P
<1> DEFINE T == {k \in 0..n : k \notin P}
<1>1. ASSUME T # {} PROVE FALSE
  <2>1. T \in SUBSET Nat
    OBVIOUS
  <2>2. PICK k \in T : \A y \in T : k <= y
    <3> HIDE DEF T
    <3>1. QED
      BY <1>1, <2>1, LeastNatural
  <2>3. k \in 1..n /\ k - 1 \in 0..n /\ k \notin P
    BY <2>2
  <2>4. k - 1 \in P
    BY <2>2, <2>3
  <2>5. QED
    BY <2>3, <2>4
<1>2. QED
  BY <1>1

(* The greatest of a prefix of the natural numbers, and what is before it. *)
LEMMA PrefixEnds ==
  ASSUME NEW n \in Nat, NEW k \in 1..n
  PROVE  /\ 1..k \in SUBSET (1..n) /\ 1..k # {} /\ 1..(k - 1) \in SUBSET (1..n)
         /\ Max(1..k) = k /\ (1..k) \ {k} = 1..(k - 1)
<1>1. k \in 1..k /\ \A y \in 1..k : k >= y
  OBVIOUS
<1>2. Max(1..k) \in 1..k /\ \A y \in 1..k : Max(1..k) >= y
  BY <1>1 DEF Max
<1>3. Max(1..k) = k
  BY <1>1, <1>2
<1>4. QED
  BY <1>1, <1>3

LEMMA GreatestOf ==
  ASSUME NEW n \in Nat, NEW s \in SUBSET (1..n), s # {}
  PROVE  Max(s) \in s /\ \A y \in s : Max(s) >= y
  BY Greatest

(* A fold is defined wherever its steps stay in a set. *)
LEMMA FoldExists ==
  ASSUME NEW n \in Nat, NEW A, NEW base \in A, NEW step,
         \A k \in 1..n, a \in A : step[<<k, a>>] \in A
  PROVE  \E g \in [SUBSET (1..n) -> A] : Folds(base, step, n, g)
<1> DEFINE Next1(g) == [s \in SUBSET (1..n) |->
               IF s = {} THEN base ELSE step[<<Max(s), g[s \ {Max(s)}]>>]]
           Below(k) == SUBSET (1..k)
           Has(k) == \E g \in [Below(k) -> A] : g = [s \in Below(k) |->
               IF s = {} THEN base ELSE step[<<Max(s), g[s \ {Max(s)}]>>]]
           P == {k \in 0..n : Has(k)}
<1>1. Has(0)
  <2>1. Below(0) = {{}}
    OBVIOUS
  <2> DEFINE g == [s \in Below(0) |-> base]
  <2>2. g = [s \in Below(0) |-> IF s = {} THEN base ELSE step[<<Max(s), g[s \ {Max(s)}]>>]]
    BY <2>1
  <2>3. g \in [Below(0) -> A]
    OBVIOUS
  <2>4. QED
    BY <2>2, <2>3
<1>2. ASSUME NEW k \in 1..n, Has(k - 1) PROVE Has(k)
  <2>1. PICK h \in [Below(k - 1) -> A] : h = [s \in Below(k - 1) |->
               IF s = {} THEN base ELSE step[<<Max(s), h[s \ {Max(s)}]>>]]
    BY <1>2
  <2> DEFINE g == [s \in Below(k) |->
                     IF s = {} THEN base ELSE step[<<Max(s), h[s \ {Max(s)}]>>]]
  <2>2. ASSUME NEW s \in Below(k), s # {}
        PROVE  Max(s) \in 1..k /\ s \ {Max(s)} \in Below(k - 1) /\ s \ {Max(s)} \in Below(k)
    <3>1. k \in Nat /\ s \in SUBSET (1..k)
      OBVIOUS
    <3>2. PICK m : m = Max(s) /\ m \in s /\ \A y \in s : m >= y
      BY <2>2, <3>1, GreatestOf
    <3>3. m \in 1..k /\ s \ {m} \in SUBSET (1..k)
      BY <3>1, <3>2
    <3>4. ASSUME NEW y \in s \ {m} PROVE y \in 1..(k - 1)
      BY <3>1, <3>2, <3>3
    <3>5. QED
      BY <3>2, <3>3, <3>4
  <2>3. g \in [Below(k) -> A]
    <3>1. ASSUME NEW s \in Below(k) PROVE g[s] \in A
      <4>1. CASE s = {}
        BY <4>1
      <4>2. CASE s # {}
        <5>1. Max(s) \in 1..k /\ s \ {Max(s)} \in Below(k - 1)
          BY <2>2, <4>2
        <5>3. Max(s) \in 1..n
          BY <5>1
        <5>4. h[s \ {Max(s)}] \in A
          BY <2>1, <5>1, Zenon
        <5>2. g[s] = step[<<Max(s), h[s \ {Max(s)}]>>]
          BY <4>2
        <5>5. QED
          BY <5>2, <5>3, <5>4
      <4>3. QED
        BY <4>1, <4>2
    <3>2. QED
      BY <3>1
  <2>4. ASSUME NEW s \in Below(k - 1) PROVE g[s] = h[s]
    <3>1. s \in Below(k)
      OBVIOUS
    <3>2. QED
      BY <2>1, <3>1
  <2>5. ASSUME NEW s \in Below(k), s # {} PROVE h[s \ {Max(s)}] = g[s \ {Max(s)}]
    BY <2>2, <2>4, <2>5
  <2>6. g = [s \in Below(k) |-> IF s = {} THEN base ELSE step[<<Max(s), g[s \ {Max(s)}]>>]]
    BY <2>5
  <2>7. QED
    BY <2>3, <2>6
<1> HIDE DEF Has
<1>3. 0 \in P /\ \A k \in 1..n : k - 1 \in P => k \in P
  BY <1>1, <1>2
<1>4. n \in P
  <2> HIDE DEF P
  <2>1. QED
    BY <1>3, NaturalInduction
<1>5. QED
  BY <1>4 DEF Has, Folds

(* What a recursion over prefixes reaches. *)
LEMMA FoldStays ==
  ASSUME NEW n \in Nat, NEW A, NEW h, h[0] \in A, \A k \in 1..n : h[k - 1] \in A => h[k] \in A
  PROVE  \A k \in 0..n : h[k] \in A
<1> DEFINE P == {k \in 0..n : h[k] \in A}
<1>1. 0 \in P /\ \A k \in 1..n : k - 1 \in P => k \in P
  OBVIOUS
<1> HIDE DEF P
<1>2. \A k \in 0..n : k \in P
  BY <1>1, NaturalInduction
<1>3. QED
  BY <1>2 DEF P
-----------------------------------------------------------------------------
\* What flattening makes of the first i sequences.
Flattens(seqs, f) ==
  f = [i \in 1..Len(seqs) |-> IF i = 1 THEN seqs[i] ELSE f[i - 1] \o seqs[i]]

LEMMA FlattenUnfolds ==
  ASSUME NEW seqs, Len(seqs) # 0
  PROVE  FlattenSeq(seqs) = (CHOOSE f : Flattens(seqs, f))[Len(seqs)]
  BY DEF FlattenSeq, Flattens

\* f flattens the first n sequences one by one.
FlattensBy(seqs, n, f) == f[1] = seqs[1] /\ \A i \in 2..n : f[i] = f[i - 1] \o seqs[i]

LEMMA FlattenSteps ==
  ASSUME NEW S, NEW seqs \in Seq(Seq(S)), NEW n \in Nat \ {0}, Len(seqs) = n
  PROVE  \E f \in [1..n -> Seq(S)] : FlattensBy(seqs, n, f) /\ f[n] = FlattenSeq(seqs)
<1> DEFINE step == [p \in (1..n) \X Seq(S) |-> IF p[1] = 1 THEN seqs[1] ELSE p[2] \o seqs[p[1]]]
           f == CHOOSE f : Flattens(seqs, f)
<1>1. n \in Nat /\ 1 \in 1..n /\ \A i \in 1..n : seqs[i] \in Seq(S)
  BY ElementOfSeq
<1>2. \A k \in 1..n, a \in Seq(S) : step[<<k, a>>] = IF k = 1 THEN seqs[1] ELSE a \o seqs[k]
  OBVIOUS
<1>3. ASSUME NEW k \in 1..n, NEW a \in Seq(S) PROVE step[<<k, a>>] \in Seq(S)
  <2> HIDE DEF step
  <2>1. seqs[k] \in Seq(S) /\ seqs[1] \in Seq(S)
    BY <1>1
  <2>2. a \o seqs[k] \in Seq(S)
    BY <2>1, ConcatProperties
  <2>3. QED
    BY <1>2, <2>1, <2>2
<1> HIDE DEF step
<1>4. PICK g \in [SUBSET (1..n) -> Seq(S)] : Folds(<<>>, step, n, g)
  <2>1. <<>> \in Seq(S) /\ n \in Nat
    OBVIOUS
  <2>2. \A k \in 1..n, a \in Seq(S) : step[<<k, a>>] \in Seq(S)
    BY <1>3
  <2>3. QED
    BY <2>1, <2>2, FoldExists
<1>5. \A k \in 1..n : g[1..k] = IF k = 1 THEN seqs[1] ELSE g[1..(k - 1)] \o seqs[k]
  <2>1. ASSUME NEW k \in 1..n
        PROVE  g[1..k] = IF k = 1 THEN seqs[1] ELSE g[1..(k - 1)] \o seqs[k]
    <3>1. /\ 1..k \in SUBSET (1..n) /\ 1..k # {} /\ 1..(k - 1) \in SUBSET (1..n)
          /\ Max(1..k) = k /\ (1..k) \ {k} = 1..(k - 1)
      BY <1>1, PrefixEnds
    <3>2. g[1..k] = step[<<k, g[1..(k - 1)]>>] /\ g[1..(k - 1)] \in Seq(S)
      BY <1>4, <3>1 DEF Folds
    <3>3. QED
      BY <1>2, <3>2
  <2>2. QED
    BY <2>1
<1>6. PICK e : e = [i \in 1..n |-> g[1..i]]
  OBVIOUS
<1>7. Flattens(seqs, e)
  <2>1. ASSUME NEW i \in 1..n PROVE e[i] = IF i = 1 THEN seqs[i] ELSE e[i - 1] \o seqs[i]
    <3>1. CASE i = 1
      BY <1>1, <1>5, <1>6, <3>1
    <3>2. CASE i # 1
      <4>1. i - 1 \in 1..n
        BY <3>2
      <4>2. e[i] = g[1..i] /\ e[i - 1] = g[1..(i - 1)]
        BY <1>6, <4>1
      <4>3. QED
        BY <1>5, <3>2, <4>2
    <3>3. QED
      BY <3>1, <3>2
  <2>2. e = [i \in 1..n |-> e[i]]
    BY <1>6
  <2>3. e = [i \in 1..n |-> IF i = 1 THEN seqs[i] ELSE e[i - 1] \o seqs[i]]
    BY <2>1, <2>2
  <2>4. QED
    BY <2>3 DEF Flattens
<1>8. Flattens(seqs, f)
  <2>1. \E d : Flattens(seqs, d)
    BY <1>7
  <2>2. QED
    BY <2>1
<1>9. FlattenSeq(seqs) = f[n]
  BY <1>1, FlattenUnfolds
<1> HIDE DEF f
<1>13. \A i \in 1..n : f[i] = IF i = 1 THEN seqs[i] ELSE f[i - 1] \o seqs[i]
  BY <1>1, <1>8 DEF Flattens
<1>10. f[1] = seqs[1] /\ \A i \in 2..n : f[i] = f[i - 1] \o seqs[i]
  <2>1. \A i \in 2..n : i \in 1..n /\ i # 1
    OBVIOUS
  <2>2. QED
    BY <1>1, <1>13, <2>1
<1>11. f \in [1..n -> Seq(S)]
  <2>1. PICK h : h = [k \in 0..n |-> IF k = 0 THEN <<>> ELSE f[k]]
    OBVIOUS
  <2>2. h[0] \in Seq(S)
    BY <2>1
  <2>3. ASSUME NEW k \in 1..n, h[k - 1] \in Seq(S) PROVE h[k] \in Seq(S)
    <3>1. h[k] = f[k] /\ seqs[k] \in Seq(S)
      BY <1>1, <2>1
    <3>2. CASE k = 1
      BY <1>10, <3>1, <3>2
    <3>3. CASE k # 1
      <4>1. k \in 2..n /\ k - 1 \in 0..n /\ k - 1 # 0
        BY <3>3
      <4>2. f[k - 1] \in Seq(S)
        BY <2>1, <2>3, <4>1
      <4>3. f[k - 1] \o seqs[k] \in Seq(S)
        BY <3>1, <4>2, ConcatProperties
      <4>4. QED
        BY <1>10, <3>1, <4>1, <4>3
    <3>4. QED
      BY <3>2, <3>3
  <2>4. \A k \in 0..n : h[k] \in Seq(S)
    BY <1>1, <2>2, <2>3, FoldStays
  <2>5. \A k \in 1..n : f[k] \in Seq(S)
    BY <2>1, <2>4
  <2>6. f = [i \in 1..n |-> f[i]]
    BY <1>8 DEF Flattens
  <2>7. QED
    BY <2>5, <2>6
<1>12. QED
  BY <1>9, <1>10, <1>11 DEF FlattensBy

LEMMA FlattenIs ==
  ASSUME NEW S, NEW seqs \in Seq(Seq(S)), NEW n \in Nat \ {0}, Len(seqs) = n,
         NEW h, FlattensBy(seqs, n, h)
  PROVE  FlattenSeq(seqs) = h[n]
<1>1. PICK f \in [1..n -> Seq(S)] : FlattensBy(seqs, n, f) /\ f[n] = FlattenSeq(seqs)
  BY FlattenSteps
<1> DEFINE P == {k \in 0..n : k # 0 => f[k] = h[k]}
<1>2. 0 \in P
  OBVIOUS
<1>3. ASSUME NEW k \in 1..n, k - 1 \in P PROVE k \in P
  <2>1. CASE k = 1
    <3>1. f[k] = h[k]
      BY <1>1, <2>1 DEF FlattensBy
    <3>2. QED
      BY <3>1
  <2>2. CASE k # 1
    <3>1. k \in 2..n /\ k - 1 \in 0..n /\ k - 1 # 0
      BY <2>2
    <3>2. f[k - 1] = h[k - 1]
      BY <1>3, <3>1
    <3>3. f[k] = h[k]
      BY <1>1, <3>1, <3>2 DEF FlattensBy
    <3>4. QED
      BY <3>3
  <2>3. QED
    BY <2>1, <2>2
<1>4. n \in P
  <2>1. n \in Nat /\ n \in 0..n /\ \A k \in 1..n : k - 1 \in P => k \in P
    BY <1>3
  <2> HIDE DEF P
  <2>2. QED
    BY <1>2, <2>1, NaturalInduction
<1>5. n # 0
  OBVIOUS
<1>6. n \in 0..n
  OBVIOUS
<1>7. f[n] = h[n]
  BY <1>4, <1>5
<1>8. QED
  BY <1>1, <1>7

LEMMA FlattenOfOne ==
  ASSUME NEW S, NEW s \in Seq(S)
  PROVE  FlattenSeq(<<s>>) = s
<1>1. <<s>> \in Seq(Seq(S)) /\ Len(<<s>>) = 1 /\ <<s>>[1] = s
  OBVIOUS
<1>2. PICK h : h = <<s>>
  OBVIOUS
<1>3. PICK t \in Seq(Seq(S)) : t = <<s>> /\ Len(t) = 1 /\ t[1] = s
  BY <1>1
<1>6. FlattensBy(t, 1, h)
  BY <1>2, <1>3 DEF FlattensBy
<1>7. 1 \in Nat \ {0}
  OBVIOUS
<1>4. FlattenSeq(t) = h[1]
  BY <1>3, <1>6, <1>7, FlattenIs
<1>5. QED
  BY <1>2, <1>3, <1>4

(* One more sequence at the end. *)
LEMMA FlattenOfMore ==
  ASSUME NEW S, NEW seqs \in Seq(Seq(S)), seqs # <<>>, NEW s \in Seq(S)
  PROVE  /\ FlattenSeq(seqs) \in Seq(S)
         /\ FlattenSeq(Append(seqs, s)) = FlattenSeq(seqs) \o s
<1>1. PICK n \in Nat \ {0} : n = Len(seqs)
  BY EmptySeq, LenProperties
<1>2. PICK f \in [1..n -> Seq(S)] : FlattensBy(seqs, n, f) /\ f[n] = FlattenSeq(seqs)
  BY <1>1, FlattenSteps
<1>3. PICK t : t = Append(seqs, s)
  OBVIOUS
<1>4. /\ t \in Seq(Seq(S)) /\ Len(t) = n + 1 /\ t[n + 1] = s
      /\ \A i \in 1..n : t[i] = seqs[i]
  <2>1. Seq(S) = Seq(S)
    OBVIOUS
  <2>2. QED
    BY <1>1, <1>3, AppendProperties
<1>5. PICK h : h = [i \in 1..(n + 1) |-> IF i = n + 1 THEN f[n] \o s ELSE f[i]]
  OBVIOUS
<1>6. h[1] = t[1]
  BY <1>2, <1>4, <1>5 DEF FlattensBy
<1>7. ASSUME NEW i \in 2..(n + 1) PROVE h[i] = h[i - 1] \o t[i]
  <2>0. i \in 1..(n + 1) /\ i - 1 \in 1..(n + 1) /\ i - 1 # n + 1
    OBVIOUS
  <2>1. CASE i = n + 1
    <3>1. h[i] = f[n] \o s /\ h[i - 1] = f[n] /\ t[i] = s
      BY <1>4, <1>5, <2>0, <2>1
    <3>2. QED
      BY <3>1
  <2>2. CASE i # n + 1
    <3>1. i \in 2..n /\ i \in 1..n
      BY <2>2
    <3>2. h[i] = f[i] /\ h[i - 1] = f[i - 1] /\ t[i] = seqs[i]
      BY <1>4, <1>5, <2>0, <2>2, <3>1
    <3>3. QED
      BY <1>2, <3>1, <3>2 DEF FlattensBy
  <2>3. QED
    BY <2>1, <2>2
<1>8. FlattenSeq(t) = h[n + 1]
  <2>1. n + 1 \in Nat \ {0}
    OBVIOUS
  <2>2. FlattensBy(t, n + 1, h)
    BY <1>6, <1>7 DEF FlattensBy
  <2>3. QED
    BY <1>4, <2>1, <2>2, FlattenIs
<1>9. h[n + 1] = f[n] \o s
  BY <1>5
<1>10. FlattenSeq(seqs) \in Seq(S)
  BY <1>2
<1>11. QED
  BY <1>2, <1>3, <1>8, <1>9, <1>10

AppendsLater(s, t, e) == Append(s \o t, e) = s \o Append(t, e)

LEMMA AppendToConcat ==
  ASSUME NEW S, NEW s \in Seq(S), NEW t \in Seq(S), NEW e \in S
  PROVE  AppendsLater(s, t, e)
<1>1. PICK m \in Nat : m = Len(s)
  BY LenProperties
<1>2. PICK n \in Nat : n = Len(t)
  BY LenProperties
<1>3. PICK u \in Seq(S) : u = Append(t, e) /\ Len(u) = n + 1 /\ u[n + 1] = e
                          /\ \A i \in 1..n : u[i] = t[i]
  <2>1. /\ Append(t, e) \in Seq(S) /\ Len(Append(t, e)) = n + 1 /\ Append(t, e)[n + 1] = e
        /\ \A i \in 1..n : Append(t, e)[i] = t[i]
    BY <1>2, AppendProperties
  <2>2. QED
    BY <2>1
<1>4. PICK v \in Seq(S) : v = s \o t /\ Len(v) = m + n
                          /\ \A i \in 1..(m + n) : v[i] = IF i <= m THEN s[i] ELSE t[i - m]
  <2>1. /\ s \o t \in Seq(S) /\ Len(s \o t) = m + n
        /\ \A i \in 1..(m + n) : (s \o t)[i] = IF i <= m THEN s[i] ELSE t[i - m]
    BY <1>1, <1>2, ConcatProperties
  <2>2. QED
    BY <2>1
<1>5. PICK w \in Seq(S) : w = Append(v, e) /\ Len(w) = m + n + 1 /\ w[m + n + 1] = e
                          /\ \A i \in 1..(m + n) : w[i] = v[i]
  <2>1. /\ Append(v, e) \in Seq(S) /\ Len(Append(v, e)) = m + n + 1
        /\ Append(v, e)[m + n + 1] = e /\ \A i \in 1..(m + n) : Append(v, e)[i] = v[i]
    BY <1>4, AppendProperties
  <2>2. QED
    BY <2>1
<1>6. PICK x \in Seq(S) : x = s \o u /\ Len(x) = m + n + 1
               /\ \A i \in 1..(m + n + 1) : x[i] = IF i <= m THEN s[i] ELSE u[i - m]
  <2>1. PICK k \in Nat : k = Len(u)
    BY LenProperties
  <2>2. /\ s \o u \in Seq(S) /\ Len(s \o u) = m + k
        /\ \A i \in 1..(m + k) : (s \o u)[i] = IF i <= m THEN s[i] ELSE u[i - m]
    BY <1>1, <2>1, ConcatProperties
  <2>3. m + k = m + n + 1
    BY <1>3, <2>1
  <2>4. QED
    BY <2>2, <2>3
<1>7. \A i \in 1..(m + n + 1) : w[i] = x[i]
  <2>1. ASSUME NEW i \in 1..(m + n + 1) PROVE w[i] = x[i]
    <3>1. CASE i <= m
      BY <1>4, <1>5, <1>6, <3>1
    <3>2. CASE i > m /\ i <= m + n
      <4>1. i \in 1..(m + n) /\ i - m \in 1..n /\ ~(i <= m)
        BY <3>2
      <4>2. w[i] = t[i - m]
        BY <1>4, <1>5, <4>1
      <4>3. x[i] = t[i - m]
        BY <1>3, <1>6, <4>1
      <4>4. QED
        BY <4>2, <4>3
    <3>3. CASE i = m + n + 1
      <4>1. i - m = n + 1 /\ ~(i <= m)
        BY <3>3
      <4>2. QED
        BY <1>3, <1>5, <1>6, <3>3, <4>1
    <3>4. i <= m \/ (i > m /\ i <= m + n) \/ i = m + n + 1
      OBVIOUS
    <3>5. QED
      BY <3>1, <3>2, <3>3, <3>4
  <2>2. QED
    BY <2>1
<1>8. w = x
  BY <1>5, <1>6, <1>7, SeqEqual
<1>9. QED
  BY <1>3, <1>4, <1>5, <1>6, <1>8 DEF AppendsLater

\* t is seqs, with one more element in the sequence r.
Lengthens(seqs, t, r, e) ==
  Len(t) = Len(seqs) /\ t[r] = Append(seqs[r], e) /\ \A j \in DOMAIN seqs : j # r => t[j] = seqs[j]

OnlyNothingAfter(seqs, r) == \A j \in DOMAIN seqs : j > r => seqs[j] = <<>>

FlattenLonger(S, seqs, t, e) ==
  FlattenSeq(seqs) \in Seq(S) /\ FlattenSeq(t) = Append(FlattenSeq(seqs), e)

(* One more element at the end of a sequence that only empty ones follow. *)
LEMMA FlattenOfLonger ==
  ASSUME NEW S, NEW seqs \in Seq(Seq(S)), NEW r \in DOMAIN seqs, NEW e \in S,
         OnlyNothingAfter(seqs, r), NEW t \in Seq(Seq(S)), Lengthens(seqs, t, r, e)
  PROVE  FlattenLonger(S, seqs, t, e)
<1>0. PICK n \in Nat \ {0} : Len(seqs) = n /\ DOMAIN seqs = 1..n
  <2>1. Len(seqs) \in Nat /\ DOMAIN seqs = 1..Len(seqs)
    BY LenProperties
  <2>2. PICK n \in Nat : n = Len(seqs) /\ DOMAIN seqs = 1..n
    BY <2>1
  <2>3. r \in 1..n
    BY <2>2
  <2>4. n # 0
    BY <2>3
  <2>5. QED
    BY <2>2, <2>4
<1>01. r \in 1..n /\ \A j \in 1..n : j > r => seqs[j] = <<>>
  BY <1>0 DEF OnlyNothingAfter
<1>02. Len(t) = n /\ t[r] = Append(seqs[r], e) /\ \A j \in 1..n : j # r => t[j] = seqs[j]
  BY <1>0 DEF Lengthens
<1>1. PICK f \in [1..n -> Seq(S)] : FlattensBy(seqs, n, f) /\ f[n] = FlattenSeq(seqs)
  BY <1>0, FlattenSteps
<1>2. PICK h : h = [i \in 1..n |-> IF i < r THEN f[i] ELSE Append(f[i], e)]
  OBVIOUS
<1>3. \A i \in 1..n : f[i] \in Seq(S) /\ seqs[i] \in Seq(S)
  BY <1>0, <1>1, ElementOfSeq
<1>4. h[1] = t[1]
  <2>1. CASE r = 1
    BY <1>1, <1>01, <1>02, <1>2, <2>1 DEF FlattensBy
  <2>2. CASE r # 1
    BY <1>1, <1>01, <1>02, <1>2, <2>2 DEF FlattensBy
  <2>3. QED
    BY <2>1, <2>2
<1>5. ASSUME NEW i \in 2..n PROVE h[i] = h[i - 1] \o t[i]
  <2>1. i \in 1..n /\ i - 1 \in 1..n
    OBVIOUS
  <2>2. f[i] = f[i - 1] \o seqs[i]
    BY <1>1 DEF FlattensBy
  <2>3. CASE i < r
    <3>1. h[i] = f[i] /\ h[i - 1] = f[i - 1] /\ t[i] = seqs[i]
      BY <1>01, <1>02, <1>2, <2>1, <2>3
    <3>2. QED
      BY <2>2, <3>1
  <2>4. CASE i = r
    <3>0. i - 1 < r /\ ~(i < r) /\ t[i] = Append(seqs[i], e)
      <4>1. i - 1 < i /\ ~(i < i)
        OBVIOUS
      <4>2. QED
        BY <1>02, <2>4, <4>1
    <3>1. h[i] = Append(f[i], e) /\ h[i - 1] = f[i - 1] /\ t[i] = Append(seqs[i], e)
      BY <1>2, <2>1, <3>0
    <3>2. f[i - 1] \in Seq(S) /\ seqs[i] \in Seq(S)
      BY <1>3, <2>1
    <3>3. Append(f[i - 1] \o seqs[i], e) = f[i - 1] \o Append(seqs[i], e)
      <4>1. PICK a \in Seq(S) : a = f[i - 1]
        BY <3>2
      <4>2. PICK b \in Seq(S) : b = seqs[i]
        BY <3>2
      <4>3. AppendsLater(a, b, e)
        BY AppendToConcat
      <4>4. QED
        BY <4>1, <4>2, <4>3 DEF AppendsLater
    <3>4. QED
      BY <2>2, <3>1, <3>3
  <2>5. CASE i > r
    <3>0. ~(i < r) /\ ~(i - 1 < r)
      BY <1>01, <2>5
    <3>1. h[i] = Append(f[i], e) /\ h[i - 1] = Append(f[i - 1], e)
      BY <1>2, <2>1, <3>0
    <3>2. seqs[i] = <<>> /\ t[i] = <<>>
      BY <1>01, <1>02, <2>1, <2>5
    <3>3. f[i] = f[i - 1]
      BY <1>3, <2>1, <2>2, <3>2, ConcatEmptySeq
    <3>4. Append(f[i - 1], e) \in Seq(S)
      BY <1>3, <2>1
    <3>5. QED
      BY <3>1, <3>2, <3>3, <3>4, ConcatEmptySeq
  <2>6. i < r \/ i = r \/ i > r
    BY <1>01
  <2>7. QED
    BY <2>3, <2>4, <2>5, <2>6
<1>6. FlattensBy(t, n, h)
  BY <1>4, <1>5 DEF FlattensBy
<1>7. FlattenSeq(t) = h[n]
  BY <1>0, <1>02, <1>6, FlattenIs
<1>8. h[n] = Append(f[n], e) /\ f[n] \in Seq(S)
  BY <1>01, <1>2, <1>3
<1>9. QED
  BY <1>1, <1>7, <1>8 DEF FlattenLonger
-----------------------------------------------------------------------------
(* Recursive functions, and the order of folds. *)

LEMMA SeqIs ==
  ASSUME NEW S, NEW s \in Seq(S)
  PROVE  Len(s) \in Nat /\ DOMAIN s = 1..Len(s) /\ \A i \in 1..Len(s) : s[i] \in S
  OBVIOUS

(* f is computed from its own earlier values, step by step. *)
Recurs(step, n, f) == \A i \in 1..n : f[i] = step[<<f, i>>]
LooksBack(step, n, A) ==
  \A f, g \in [1..n -> A], i \in 1..n :
    (\A j \in 1..(i - 1) : f[j] = g[j]) => step[<<f, i>>] = step[<<g, i>>]

LEMMA RecursionExists ==
  ASSUME NEW n \in Nat, NEW A, NEW e \in A, NEW step, LooksBack(step, n, A),
         \A f \in [1..n -> A], i \in 1..n : step[<<f, i>>] \in A
  PROVE  \E f \in [1..n -> A] : Recurs(step, n, f)
<1> DEFINE Upto(k, f) == \A i \in 1..k : f[i] = step[<<f, i>>]
           P == {k \in 0..n : \E f \in [1..n -> A] : Upto(k, f)}
<1>1. 0 \in P
  <2> DEFINE f == [i \in 1..n |-> e]
  <2>1. f \in [1..n -> A] /\ Upto(0, f) /\ 0 \in 0..n
    OBVIOUS
  <2> HIDE DEF f
  <2> QED
    BY <2>1
<1>2. ASSUME NEW k \in 1..n, k - 1 \in P PROVE k \in P
  <2>1. PICK f \in [1..n -> A] : Upto(k - 1, f)
    BY <1>2
  <2> DEFINE g == [f EXCEPT ![k] = step[<<f, k>>]]
  <2>2. g \in [1..n -> A] /\ g[k] = step[<<f, k>>] /\ \A j \in 1..(k - 1) : g[j] = f[j]
    OBVIOUS
  <2> HIDE DEF g
  <2>3. ASSUME NEW i \in 1..k PROVE g[i] = step[<<g, i>>]
    <3>1. i \in 1..n /\ \A j \in 1..(i - 1) : f[j] = g[j]
      BY <2>2
    <3>2. step[<<f, i>>] = step[<<g, i>>]
      BY <2>2, <3>1 DEF LooksBack
    <3>3. g[i] = step[<<f, i>>]
      <4>1. i = k \/ i \in 1..(k - 1)
        OBVIOUS
      <4> QED
        BY <2>1, <2>2, <4>1
    <3> QED
      BY <3>2, <3>3
  <2> QED
    BY <2>2, <2>3
<1> HIDE DEF P
<1>3. \A k \in 0..n : k \in P
  BY <1>1, <1>2, NaturalInduction
<1>4. n \in P
  BY <1>3
<1> QED
  BY <1>4 DEF P, Recurs

(* Folds that do not depend on the order. *)
Commutes(step, n, A) ==
  \A j, k \in 1..n, a \in A : step[<<j, step[<<k, a>>]>>] = step[<<k, step[<<j, a>>]>>]

TakesAny(step, n, g) ==
  \A s \in SUBSET (1..n), m \in 1..n : m \in s => g[s] = step[<<m, g[s \ {m}]>>]

LEMMA FoldTakesAny ==
  ASSUME NEW n \in Nat, NEW A, NEW base \in A, NEW step, Commutes(step, n, A),
         NEW g \in [SUBSET (1..n) -> A], Folds(base, step, n, g)
  PROVE  TakesAny(step, n, g)
<1> DEFINE P == {k \in 0..n : \A s \in SUBSET (1..k), m \in 1..n :
                                m \in s => g[s] = step[<<m, g[s \ {m}]>>]}
<1>0. \A s \in SUBSET (1..n) : s # {} => g[s] = step[<<Max(s), g[s \ {Max(s)}]>>]
  BY DEF Folds
<1>1. 0 \in P
  OBVIOUS
<1>2. ASSUME NEW k \in 1..n, k - 1 \in P PROVE k \in P
  <2>1. ASSUME NEW s \in SUBSET (1..k), NEW m \in 1..n, m \in s
        PROVE  g[s] = step[<<m, g[s \ {m}]>>]
    <3>0. k \in 0..n /\ 1..k \subseteq 1..n
      OBVIOUS
    <3>1. CASE k \notin s
      <4>1. s \in SUBSET (1..(k - 1))
        BY <3>1
      <4> QED
        BY <1>2, <2>1, <4>1
    <3>2. CASE k \in s /\ m = k
      <4>1. Max(s) = k
        <5>1. s \in SUBSET (1..n) /\ s # {}
          BY <3>0, <3>2
        <5>2. Max(s) \in s /\ \A y \in s : Max(s) >= y
          BY <5>1, GreatestOf
        <5>3. Max(s) \in 1..k /\ Max(s) >= k
          BY <3>2, <5>2
        <5> QED
          BY <5>3
      <4>2. s \in SUBSET (1..n) /\ s # {}
        BY <3>0, <3>2
      <4> QED
        BY <1>0, <3>2, <4>1, <4>2
    <3>3. CASE k \in s /\ m # k
      <4> DEFINE u == s \ {k}  v == s \ {m}  w == (s \ {k}) \ {m}
      <4>1. /\ s \in SUBSET (1..n) /\ s # {} /\ v \in SUBSET (1..n) /\ v # {} /\ k \in v
            /\ u \in SUBSET (1..(k - 1)) /\ m \in u /\ v \ {k} = w /\ w \in SUBSET (1..n)
            /\ u \in SUBSET (1..n)
        BY <3>0, <3>3, <2>1
      <4>2. Max(s) = k /\ Max(v) = k
        <5>1. Max(s) \in s /\ (\A y \in s : Max(s) >= y) /\ Max(v) \in v /\ \A y \in v : Max(v) >= y
          BY <4>1, GreatestOf
        <5>2. Max(s) \in 1..k /\ Max(v) \in 1..k /\ Max(s) >= k /\ Max(v) >= k
          BY <3>3, <4>1, <5>1
        <5> QED
          BY <5>2
      <4>3. g[s] = step[<<k, g[u]>>]
        BY <1>0, <4>1, <4>2
      <4>4. g[v] = step[<<k, g[w]>>]
        <5>1. g[v] = step[<<Max(v), g[v \ {Max(v)}]>>]
          BY <1>0, <4>1
        <5> QED
          BY <4>1, <4>2, <5>1
      <4>5. g[u] = step[<<m, g[w]>>]
        BY <1>2, <4>1
      <4>6. g[w] \in A
        BY <4>1
      <4> HIDE DEF u, v, w
      <4>7. step[<<k, step[<<m, g[w]>>]>>] = step[<<m, step[<<k, g[w]>>]>>]
        BY <4>6 DEF Commutes
      <4> QED
        BY <4>3, <4>4, <4>5, <4>7 DEF v
    <3> QED
      BY <3>1, <3>2, <3>3
  <2>2. k \in 0..n
    OBVIOUS
  <2> QED
    BY <2>1, <2>2
<1> HIDE DEF P
<1>3. \A k \in 0..n : k \in P
  BY <1>1, <1>2, NaturalInduction
<1>4. n \in P
  BY <1>3
<1> QED
  BY <1>4 DEF P, TakesAny

\* The fold in the order that p gives.
FoldAlong(h, n, base, step, p) ==
  h[0] = base /\ \A k \in 1..n : h[k] = step[<<p[k], h[k - 1]>>]
FoldEnds(h, n, g) == h[n] = g[1..n]

LEMMA ChainIsFold ==
  ASSUME NEW n \in Nat, NEW A, NEW base \in A, NEW step, Commutes(step, n, A),
         NEW g \in [SUBSET (1..n) -> A], Folds(base, step, n, g),
         NEW p \in Bijection(1..n, 1..n), NEW h, FoldAlong(h, n, base, step, p)
  PROVE  FoldEnds(h, n, g)
<1>0. /\ p \in [1..n -> 1..n] /\ (\A i, j \in 1..n : p[i] = p[j] => i = j)
      /\ \A j \in 1..n : \E i \in 1..n : p[i] = j
  BY DEF Bijection, Injection, Surjection, IsInjective
<1> DEFINE image(k) == {p[i] : i \in 1..k}
           P == {k \in 0..n : h[k] = g[image(k)]}
<1>1. 0 \in P
  <2>1. image(0) = {}
    OBVIOUS
  <2>2. g[{}] = base
    BY DEF Folds
  <2> HIDE DEF image
  <2>3. 0 \in 0..n
    OBVIOUS
  <2> QED
    BY <2>1, <2>2, <2>3 DEF FoldAlong
<1>2. ASSUME NEW k \in 1..n, k - 1 \in P PROVE k \in P
  <2>0. k \in 1..k /\ \A i \in 1..k : i \in 1..n
    OBVIOUS
  <2>1. image(k) \in SUBSET (1..n) /\ p[k] \in image(k) /\ p[k] \in 1..n
    <3>1. \A i \in 1..n : p[i] \in 1..n
      BY <1>0
    <3>2. \A i \in 1..k : p[i] \in 1..n
      BY <2>0, <3>1
    <3>3. image(k) \subseteq 1..n /\ p[k] \in image(k)
      BY <2>0, <3>2
    <3> HIDE DEF image
    <3> QED
      BY <3>1, <3>3
  <2>2. image(k) \ {p[k]} = image(k - 1)
    <3>1. \A i \in 1..k : i = k \/ i \in 1..(k - 1)
      OBVIOUS
    <3>2. \A i \in 1..(k - 1) : i \in 1..k /\ i # k /\ i \in 1..n
      OBVIOUS
    <3>3. \A i \in 1..(k - 1) : p[i] # p[k]
      BY <1>0, <3>2
    <3>4. k \in 1..k /\ \A i \in 1..(k - 1) : i \in 1..k
      BY <3>2
    <3> QED
      BY <3>1, <3>3, <3>4
  <2> HIDE DEF image
  <2>3. g[image(k)] = step[<<p[k], g[image(k) \ {p[k]}]>>]
    <3>1. TakesAny(step, n, g)
      BY FoldTakesAny
    <3> QED
      BY <2>1, <3>1 DEF TakesAny
  <2>4. h[k] = step[<<p[k], h[k - 1]>>] /\ k \in 0..n
    BY DEF FoldAlong
  <2> QED
    BY <1>2, <2>2, <2>3, <2>4
<1> HIDE DEF P
<1>3. \A k \in 0..n : k \in P
  BY <1>1, <1>2, NaturalInduction
<1>4. n \in P
  BY <1>3
<1>5. image(n) = 1..n
  BY <1>0
<1> HIDE DEF image
<1> QED
  BY <1>4, <1>5 DEF P, FoldEnds

Agree(h, f, n) == h[n] = f[n]

LEMMA ChainsAgree ==
  ASSUME NEW n \in Nat, NEW A, NEW base \in A, NEW step, Commutes(step, n, A),
         \A k \in 1..n, a \in A : step[<<k, a>>] \in A,
         NEW p \in Bijection(1..n, 1..n), NEW h, FoldAlong(h, n, base, step, p),
         NEW q \in Bijection(1..n, 1..n), NEW f, FoldAlong(f, n, base, step, q)
  PROVE  Agree(h, f, n)
<1>1. PICK g \in [SUBSET (1..n) -> A] : Folds(base, step, n, g)
  BY FoldExists
<1>2. FoldEnds(h, n, g)
  BY <1>1, ChainIsFold
<1>3. FoldEnds(f, n, g)
  BY <1>1, ChainIsFold
<1> QED
  BY <1>2, <1>3 DEF FoldEnds, Agree

Same(n) == [i \in 1..n |-> i]

LEMMA SameIs == ASSUME NEW n \in Nat PROVE Same(n) \in Bijection(1..n, 1..n)
  BY DEF Same, Bijection, Injection, Surjection, IsInjective
=============================================================================
