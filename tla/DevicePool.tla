------------------------------ MODULE DevicePool ------------------------------
(***************************************************************************)
(* The streams of one Device (core/runtime.py) and its initialize(), used  *)
(* by several threads: initialize() tests twice, under a lock the second   *)
(* time; get_stream() and return_stream() take none.  A step is what a     *)
(* thread does between two accesses to what the threads share.             *)
(*                                                                         *)
(* Abstracted: the work of streams (Streams) and of the memory pool        *)
(* (MemoryPool), which initialize() makes.                                 *)
(***************************************************************************)
EXTENDS Integers, Sequences, FiniteSets

CONSTANTS
  Users,         \* threads
  Preallocated,  \* streams of a new device: 4 in the code
  MaxHeld,       \* bound on the streams that a thread holds
  Nobody

ASSUME DevicePoolAssumption == Nobody \notin Users /\ Preallocated \in Nat

VARIABLES
  initLock,      \* Device._lock
  pools,         \* how often the device has been initialized
  inUse,         \* _in_use of each stream in _stream_pool
  user,          \* what each thread is doing, and the streams it holds
  raced          \* history: streams that were taken when they were in use

devicePoolVars == <<initLock, pools, inUse, user, raced>>

DevicePoolInit ==
  /\ initLock = Nobody /\ pools = 0 /\ inUse = <<>> /\ raced = {}
  /\ user = [u \in Users |-> [at |-> "idle", then |-> "idle", next |-> 1, holds |-> {}]]

At(u, place) == user[u].at = place
Goes(u, place) == user' = [user EXCEPT ![u].at = place]

\* What needs the device calls initialize() first: memory_pool, default_stream and
\* with (then = "idle"), and get_stream().
UseDevice(u, then) ==
  /\ At(u, "idle") /\ (then = "scans" => Cardinality(user[u].holds) < MaxHeld)
  /\ pools = 0 \/ then = "scans"
  /\ user' = [user EXCEPT ![u].at = IF pools > 0 THEN then ELSE "waits",
                          ![u].then = then, ![u].next = 1]
  /\ UNCHANGED <<initLock, pools, inUse, raced>>

\* Mutant: initialize() does not test again when it has the lock.
InitializeLocksOnce(u) ==
  /\ At(u, "waits") /\ initLock = Nobody
  /\ Goes(u, "creates") /\ initLock' = u
  /\ UNCHANGED <<pools, inUse, raced>>

InitializeLocks(u) ==
  /\ At(u, "waits") /\ initLock = Nobody
  /\ IF pools > 0 THEN Goes(u, user[u].then) /\ UNCHANGED initLock
                  ELSE Goes(u, "creates") /\ initLock' = u
  /\ UNCHANGED <<pools, inUse, raced>>

Initialize(u) ==
  /\ At(u, "creates") /\ Goes(u, user[u].then) /\ initLock' = Nobody
  /\ pools' = pools + 1 /\ inUse' = inUse \o [i \in 1..Preallocated |-> FALSE]
  /\ UNCHANGED raced

\* The loop of get_stream() looks at one stream; after the last it makes another.
ScanStream(u) ==
  LET k == user[u].next IN
  /\ At(u, "scans")
  /\ \/ /\ k > Len(inUse) /\ inUse' = Append(inUse, TRUE)
        /\ user' = [user EXCEPT ![u].at = "idle", ![u].holds = @ \cup {Len(inUse) + 1}]
     \/ /\ k <= Len(inUse) /\ UNCHANGED inUse
        /\ user' = [user EXCEPT ![u].next = IF inUse[k] THEN k + 1 ELSE k,
                                ![u].at = IF inUse[k] THEN @ ELSE "takes"]
  /\ UNCHANGED <<initLock, pools, raced>>

TakeStream(u) ==
  LET s == user[u].next IN
  /\ At(u, "takes") /\ inUse' = [inUse EXCEPT ![s] = TRUE]
  /\ raced' = IF inUse[s] THEN raced \cup {s} ELSE raced
  /\ user' = [user EXCEPT ![u].at = "idle", ![u].holds = @ \cup {s}]
  /\ UNCHANGED <<initLock, pools>>

ReturnStream(u, s) ==
  /\ At(u, "idle") /\ s \in user[u].holds
  /\ inUse' = [inUse EXCEPT ![s] = FALSE]
  /\ user' = [user EXCEPT ![u].holds = @ \ {s}]
  /\ UNCHANGED <<initLock, pools, raced>>

DevicePoolNext ==
  \E u \in Users :
    \/ \E then \in {"idle", "scans"} : UseDevice(u, then)
    \/ InitializeLocks(u) \/ Initialize(u) \/ ScanStream(u) \/ TakeStream(u)
    \/ \E s \in user[u].holds : ReturnStream(u, s)

DevicePoolSpec == DevicePoolInit /\ [][DevicePoolNext]_devicePoolVars
-----------------------------------------------------------------------------
DevicePoolTypeOK ==
  /\ initLock \in Users \cup {Nobody} /\ inUse \in Seq(BOOLEAN) /\ raced \subseteq DOMAIN inUse
  /\ \A u \in Users : /\ (initLock = u) <=> At(u, "creates")
                      /\ user[u].holds \subseteq DOMAIN inUse

(* A device is initialized at most once, and a stream that no two threads found free
   at the same time is in use exactly while one thread, and one only, holds it: this
   is the only way in which get_stream() hands a stream out twice. *)
OneUserPerStream ==
  /\ pools <= 1
  /\ \A s \in DOMAIN inUse \ raced :
       Cardinality({u \in Users : s \in user[u].holds}) = IF inUse[s] THEN 1 ELSE 0
=============================================================================
