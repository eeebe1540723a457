------------------------------- MODULE JITCache -------------------------------
(***************************************************************************)
(* JITCache with the wrapper of JITCompiler that uses it                   *)
(* (aethelred/core/runtime.py).  A caller looks a function up, in memory   *)
(* under the lock and then on disk, compiles it, puts it into memory under *)
(* the lock and writes it to disk.  What is done under the lock is one     *)
(* step, and so is one operation on a file.                                *)
(*                                                                         *)
(* A key stands for a function with its options and argument types, and    *)
(* for what is compiled from it.  A file is bad from the moment it is      *)
(* opened for writing until it is complete: for good if the object cannot  *)
(* be pickled or the process ends.  A writer whose file was unlinked, and  *)
(* perhaps created anew, may complete it or not; the code cannot.          *)
(***************************************************************************)
EXTENDS Integers, FiniteSets, Sequences, SequencesExt

CONSTANTS
  Callers,       \* threads that call compiled functions or clear the cache
  Keys,
  Persistent,    \* keys with the option cache_compiled
  MaxSize,       \* max_size
  MaxOrder       \* bound on the length of the access order

ASSUME CacheAssumption ==
  /\ Persistent \subseteq Keys /\ IsFiniteSet(Keys)
  /\ MaxSize \in Nat \ {0} /\ MaxOrder \in Nat

VARIABLES
  memory,     \* the keys of _memory_cache
  order,      \* _access_order
  disk,       \* the file of each key: "none", "good" or "bad"
  caller,     \* where a caller is, with its key and the files clear() has found
  raced       \* history: two callers were busy with one key, or clear() with
              \* another caller, since the process started

cacheVars == <<memory, order, disk, caller, raced>>

CallerPlaces == {"idle", "missed", "loads", "loaded", "unlinks", "compiles", "opens",
                 "writes", "clears", "raised"}
Nowhere == [at |-> "idle", keys |-> {}]
Active(t) == caller[t].at \notin {"idle", "raised"}

CacheInit ==
  /\ memory = {} /\ order = <<>>
  /\ disk = [k \in Keys |-> "none"]
  /\ caller = [t \in Callers |-> Nowhere]
  /\ raced = FALSE

IsAt(t, place, k) == caller[t] = [at |-> place, keys |-> {k}]
Goes(t, place, k) == caller' = [caller EXCEPT ![t] = [at |-> place, keys |-> {k}]]
Leaves(t) == caller' = [caller EXCEPT ![t] = Nowhere]

\* Whether a caller that begins with these keys meets another one there.
Meets(t, keys) ==
  \E u \in Callers \ {t} : Active(u) /\ (caller[u].at = "clears"
                                          \/ caller[u].keys \cap keys # {})
-----------------------------------------------------------------------------
\* What is left in memory after n keys were popped from the order.
Without(keys, list, n) == keys \ {list[i] : i \in 1..n}

\* The loop ends when memory is small enough; `del' raises when the key it has
\* popped is not there.
SmallEnough(keys, list, n) == Cardinality(Without(keys, list, n)) <= MaxSize
Missing(keys, list, n) == n > 0 /\ list[n] \notin Without(keys, list, n - 1)
Stops(keys, list, n) == SmallEnough(keys, list, n) \/ Missing(keys, list, n)

\* Mutant: the newest key goes.
EvictNewest(keys, list, n) ==
  /\ n \in 0..1 /\ (n = 0 <=> Cardinality(keys) <= MaxSize)
  /\ memory' = IF n = 0 THEN keys ELSE keys \ {list[Len(list)]}
  /\ order' = SubSeq(list, 1 + n, Len(list))

\* _evict_if_needed() pops n keys.
Evict(keys, list, n) ==
  /\ n \in 0..Len(list) /\ Stops(keys, list, n)
  /\ \A m \in 0..(n - 1) : ~Stops(keys, list, m)
  /\ memory' = Without(keys, list, n)
  /\ order' = SubSeq(list, n + 1, Len(list))

Insert(k, n) ==
  Len(order) < MaxOrder /\ Evict(memory \cup {k}, Append(order, k), n)
Fails(k, n) == Missing(memory \cup {k}, Append(order, k), n)

\* Mutant: the key is appended and keeps its old place.
HitAppends(t, k) ==
  /\ ~Active(t) /\ k \in memory
  /\ Len(order) < MaxOrder
  /\ order' = Append(order, k)
  /\ Leaves(t)
  /\ UNCHANGED <<memory, disk, raced>>

\* get(): in memory, under the lock.
Hit(t, k) ==
  /\ ~Active(t) /\ k \in memory
  /\ \/ \E n \in DOMAIN order :
          /\ order[n] = k /\ \A m \in 1..(n - 1) : order[m] # k
          /\ order' = Append(RemoveAt(order, n), k)
          /\ Leaves(t)
     \/ k \notin ToSet(order) /\ Goes(t, "raised", k) /\ UNCHANGED order
  /\ UNCHANGED <<memory, disk, raced>>

Miss(t, k) ==
  /\ ~Active(t) /\ k \notin memory
  /\ Goes(t, "missed", k)
  /\ raced' = (raced \/ Meets(t, {k}))
  /\ UNCHANGED <<memory, order, disk>>

\* Is there a file?
Probe(t, k) ==
  /\ IsAt(t, "missed", k)
  /\ Goes(t, IF disk[k] = "none" THEN "compiles" ELSE "loads", k)
  /\ UNCHANGED <<memory, order, disk, raced>>

Load(t, k) ==
  /\ IsAt(t, "loads", k)
  /\ Goes(t, IF disk[k] = "good" THEN "loaded" ELSE "unlinks", k)
  /\ UNCHANGED <<memory, order, disk, raced>>

\* An exception of the eviction ends in the handler for unreadable files.
InsertLoaded(t, k) ==
  /\ IsAt(t, "loaded", k)
  /\ \E n \in 0..(Len(order) + 1) :
       /\ Insert(k, n)
       /\ IF Fails(k, n) THEN Goes(t, "unlinks", k) ELSE Leaves(t)
  /\ UNCHANGED <<disk, raced>>

\* unlink() raises if the file has gone; get() does not catch that.
Unlink(t, k) ==
  /\ IsAt(t, "unlinks", k)
  /\ disk' = [disk EXCEPT ![k] = "none"]
  /\ Goes(t, IF disk[k] = "none" THEN "raised" ELSE "compiles", k)
  /\ UNCHANGED <<memory, order, raced>>

\* put(), under the lock.  An exception of the eviction is the caller's.
Put(t, k) ==
  /\ IsAt(t, "compiles", k)
  /\ \E n \in 0..(Len(order) + 1) :
       /\ Insert(k, n)
       /\ IF Fails(k, n) THEN Goes(t, "raised", k)
          ELSE IF k \in Persistent THEN Goes(t, "opens", k)
          ELSE Leaves(t)
  /\ UNCHANGED <<disk, raced>>

\* Opening for writing empties the file.
Open(t, k) ==
  /\ IsAt(t, "opens", k)
  /\ disk' = [disk EXCEPT ![k] = "bad"]
  /\ Goes(t, "writes", k)
  /\ UNCHANGED <<memory, order, raced>>

\* The exception of an object that cannot be pickled is swallowed.
Write(t, k) ==
  /\ IsAt(t, "writes", k)
  /\ disk' \in {disk, [disk EXCEPT ![k] = IF @ = "none" THEN @ ELSE "good"]}
  /\ Leaves(t)
  /\ UNCHANGED <<memory, order, raced>>
-----------------------------------------------------------------------------
\* clear(): memory under the lock; then the files it finds, one by one.
ClearMemory(t) ==
  /\ ~Active(t)
  /\ memory' = {} /\ order' = <<>>
  /\ caller' = [caller EXCEPT ![t] = [at |-> "clears",
                                      keys |-> {k \in Keys : disk[k] # "none"}]]
  /\ raced' = (raced \/ \E u \in Callers \ {t} : Active(u))
  /\ UNCHANGED disk

ClearFile(t, k) ==
  /\ caller[t].at = "clears" /\ k \in caller[t].keys
  /\ disk' = [disk EXCEPT ![k] = "none"]
  /\ IF disk[k] = "none" THEN Goes(t, "raised", k)
     ELSE caller' = [caller EXCEPT ![t].keys = @ \ {k}]
  /\ UNCHANGED <<memory, order, raced>>

ClearEnds(t) ==
  /\ caller[t].at = "clears" /\ caller[t].keys = {}
  /\ Leaves(t)
  /\ UNCHANGED <<memory, order, disk, raced>>

\* The process ends, at any point, and a new one begins.
Restart ==
  /\ memory' = {} /\ order' = <<>>
  /\ caller' = [t \in Callers |-> Nowhere]
  /\ raced' = FALSE
  /\ UNCHANGED disk

CacheNext ==
  \/ \E t \in Callers, k \in Keys :
       \/ Hit(t, k) \/ Miss(t, k) \/ Probe(t, k) \/ Load(t, k)
       \/ InsertLoaded(t, k) \/ Unlink(t, k)
       \/ Put(t, k) \/ Open(t, k) \/ Write(t, k)
       \/ ClearFile(t, k)
  \/ \E t \in Callers : ClearMemory(t) \/ ClearEnds(t)
  \/ Restart

CacheSpec == CacheInit /\ [][CacheNext]_cacheVars
-----------------------------------------------------------------------------
(* The type invariant of the cache. *)
CacheTypeOK ==
  /\ memory \subseteq Keys /\ order \in Seq(Keys)
  /\ disk \in [Keys -> {"none", "good", "bad"}]
  /\ \A k \in Keys : disk[k] # "none" => k \in Persistent
  /\ raced \in BOOLEAN
  /\ caller \in [Callers -> [at : CallerPlaces, keys : SUBSET Keys]]
  /\ \A t \in Callers :
       /\ Cardinality(caller[t].keys) <= 1 \/ caller[t].at = "clears"
       /\ caller[t].at \in {"opens", "writes"} => caller[t].keys \subseteq Persistent

(* A hit never fails, in whatever order the callers came: list.remove() finds
   every key of _memory_cache in _access_order, and the eviction does not run
   out of keys. *)
CacheInStep == memory \subseteq ToSet(order)

(* "Evict old entries if cache is full", and a function call never fails for
   the cache: as long as no two callers were busy with one key, the order names
   the cached keys once, they are max_size at most, and nothing was raised, also
   with what a process that ended has left on disk. *)
CacheSound ==
  ~raced => /\ IsInjective(order) /\ ToSet(order) = memory
            /\ Cardinality(memory) <= MaxSize
            /\ \A t \in Callers : caller[t].at # "raised"
=============================================================================
