------------------------------- MODULE Streams -------------------------------
(***************************************************************************)
(* Stream and Event (aethelred/core/runtime.py).  Application threads      *)
(* enqueue commands on streams, wait for a stream, and cancel the futures  *)
(* they were given; each stream has a worker thread that takes the         *)
(* commands from its queue one by one.                                     *)
(*                                                                         *)
(* enqueue() holds _lock, but the worker and synchronize() do not take it, *)
(* so the two halves of enqueue() are two steps.  A command depends on     *)
(* commands whose futures the application already has.  Commands are       *)
(* numbered in the order in which they are created.                        *)
(*                                                                         *)
(* Abstracted: what a command computes, time stamps, priorities (which the *)
(* queue does not use) and the thread pool _executor, which nothing uses.  *)
(* A worker that waits for a command is idle here.  __del__ cannot run     *)
(* while the worker, which refers to the stream, is alive.                 *)
(***************************************************************************)
EXTENDS Integers, FiniteSets, Sequences, SequencesExt

CONSTANTS
  Streams,
  Commands,
  Events,
  Threads,       \* of the application
  Work,          \* the kinds of commands that are enqueued
  None

\* needs: dependencies; signals: the event completed at the end; awaits: the
\* event that the function of a wait_event() waits for.
Plain == [needs |-> <<>>, signals |-> None, awaits |-> None]

ASSUME StreamAssumption ==
  /\ Commands \subseteq Nat /\ None \notin Commands \cup Events
  /\ \A w \in Work : /\ w.needs \in Seq(Commands)
                     /\ w.signals \in Events \cup {None}
                     /\ w.awaits \in Events \cup {None}
                     /\ w.awaits # None => w = [Plain EXCEPT !.awaits = w.awaits]

VARIABLES
  queue,       \* _command_queue of each stream
  worker,      \* where its worker is, and with which command
  work,        \* the fields of a command
  future,      \* the state of a command's future
  pending,     \* _pending_futures of each stream
  completed,   \* events that are completed
  thread,      \* where an application thread is
  taken,       \* history: the commands the worker took, in that order
  excused      \* history: commands that a synchronize() could not know or gave
               \* up on

streamVars == <<queue, worker, work, future, pending, completed, thread, taken,
                excused>>

Idle == [at |-> "idle", cmd |-> None]
Available(t) == thread[t].at = "idle"
Outside == [at |-> "idle", stream |-> None, cmd |-> None, waits |-> {},
            owed |-> {}]

New == {c \in Commands : /\ future[c] = "none"
                         /\ \A d \in Commands : d < c => future[d] # "none"}

Settled(c) == future[c] \in {"result", "error", "cancelled"}
Enqueuing(c) == \E t \in Threads : thread[t].at = "enqueues" /\ thread[t].cmd = c
Synchronizing(s) ==
  \E t \in Threads : thread[t].at = "synchronizes" /\ thread[t].stream = s
\* The commands of a stream: taken, with the one at hand, and queued.
Issued(s) == taken[s] \o queue[s]

StreamInit ==
  /\ queue = [s \in Streams |-> <<>>]
  /\ worker = [s \in Streams |-> Idle]
  /\ work = [c \in Commands |-> Plain]
  /\ future = [c \in Commands |-> "none"]
  /\ pending = [s \in Streams |-> {}]
  /\ completed = {}
  /\ thread = [t \in Threads |-> Outside]
  /\ taken = [s \in Streams |-> <<>>]
  /\ excused = {}
-----------------------------------------------------------------------------
\* enqueue(), and with an event to await wait_event(): the command is put into
\* the queue under the lock.
EnqueuePuts(t, s, c, w) ==
  /\ Available(t) /\ c \in New
  /\ \A u \in Threads : ~(thread[u].at = "enqueues" /\ thread[u].stream = s)
  /\ \A d \in ToSet(w.needs) : future[d] # "none" /\ ~Enqueuing(d)
  /\ queue' = [queue EXCEPT ![s] = Append(@, c)]
  /\ work' = [work EXCEPT ![c] = w]
  /\ future' = [future EXCEPT ![c] = "pending"]
  /\ thread' = [thread EXCEPT ![t] =
                  [Outside EXCEPT !.at = "enqueues", !.stream = s, !.cmd = c]]
  /\ UNCHANGED <<worker, pending, completed, taken,
                 excused>>

\* Its future is remembered, and returned.
EnqueueEnds(t) ==
  /\ thread[t].at = "enqueues"
  /\ LET s == thread[t].stream
         c == thread[t].cmd IN
     /\ pending' = [pending EXCEPT ![s] = @ \cup {c}]
     /\ excused' = IF Synchronizing(s) THEN excused \cup {c} ELSE excused
  /\ thread' = [thread EXCEPT ![t] = Outside]
  /\ UNCHANGED <<queue, worker, work, future, completed, taken>>

\* Future.cancel(): the worker does not mark futures as running, so it succeeds
\* until the result is there.
Cancel(c) ==
  /\ future[c] = "pending" /\ ~Enqueuing(c)
  /\ future' = [future EXCEPT ![c] = "cancelled"]
  /\ UNCHANGED <<queue, worker, work, pending, completed, thread, taken,
                 excused>>

SynchronizeStarts(t, s) ==
  /\ Available(t)
  /\ thread' = [thread EXCEPT ![t] =
       [at |-> "synchronizes", stream |-> s, cmd |-> None, waits |-> pending[s],
        owed |-> {c \in ToSet(Issued(s)) : ~Settled(c) /\ ~Enqueuing(c)}]]
  /\ UNCHANGED <<queue, worker, work, future, pending, completed, taken,
                 excused>>

\* The 60 seconds for one future are over; the exception is swallowed.
GivesUp(t, c) ==
  /\ thread[t].at = "synchronizes" /\ c \in thread[t].waits /\ ~Settled(c)
  /\ thread' = [thread EXCEPT ![t].waits = @ \ {c}, ![t].owed = @ \ {c}]
  /\ excused' = excused \cup {c}
  /\ UNCHANGED <<queue, worker, work, future, pending, completed, taken>>

\* Mutant: the futures are not waited for.
ReturnsAtOnce(t) ==
  /\ thread[t].at = "synchronizes"
  /\ pending' = [pending EXCEPT ![thread[t].stream] = {}]
  /\ thread' = [thread EXCEPT ![t] = Outside]
  /\ UNCHANGED <<queue, worker, work, future, completed, taken,
                 excused>>

\* Every future of the copy was waited for; the list itself is cleared.
SynchronizeEnds(t) ==
  /\ thread[t].at = "synchronizes"
  /\ \A c \in thread[t].waits : Settled(c)
  /\ pending' = [pending EXCEPT ![thread[t].stream] = {}]
  /\ thread' = [thread EXCEPT ![t] = Outside]
  /\ UNCHANGED <<queue, worker, work, future, completed, taken,
                 excused>>
-----------------------------------------------------------------------------
Take(s) ==
  /\ worker[s].at = "idle" /\ queue[s] # <<>>
  /\ worker' = [worker EXCEPT ![s] = [at |-> "depends", cmd |-> Head(queue[s])]]
  /\ queue' = [queue EXCEPT ![s] = Tail(@)]
  /\ taken' = [taken EXCEPT ![s] = Append(@, Head(queue[s]))]
  /\ UNCHANGED <<work, future, pending, completed, thread, excused>>

Depending(s) == worker[s].at = "depends"
Needed(s) == work[worker[s].cmd].needs
Succeeded(d) == future[d] = "result"

\* Mutant: a dependency may still be pending.
BeginEarly(s) ==
  /\ Depending(s)
  /\ \A n \in DOMAIN Needed(s) : future[Needed(s)[n]] \in {"pending", "result"}
  /\ worker' = [worker EXCEPT ![s].at = "runs"]
  /\ UNCHANGED <<queue, work, future, pending, completed, thread, taken,
                 excused>>

Begin(s) ==
  /\ Depending(s)
  /\ \A n \in DOMAIN Needed(s) : Succeeded(Needed(s)[n])
  /\ worker' = [worker EXCEPT ![s].at = "runs"]
  /\ UNCHANGED <<queue, work, future, pending, completed, thread, taken,
                 excused>>

\* result() of a dependency raises, outside the `try' of the worker.
DependencyRaises(s) ==
  /\ Depending(s)
  /\ \E n \in DOMAIN Needed(s) :
       /\ future[Needed(s)[n]] \in {"error", "cancelled"}
       /\ \A m \in 1..(n - 1) : Succeeded(Needed(s)[m])
  /\ worker' = [worker EXCEPT ![s].at = "failed"]
  /\ UNCHANGED <<queue, work, future, pending, completed, thread, taken,
                 excused>>

\* The function of a wait_event() returns only when the event is completed.
MayEnd(s) ==
  /\ worker[s].at = "runs"
  /\ work[worker[s].cmd].awaits \in completed \cup {None}

\* Mutant: an exception of the function is not handed to the future.
FinishSwallows(s) ==
  /\ MayEnd(s) /\ future[worker[s].cmd] = "pending"
  /\ \E outcome \in {"result", "pending"} :
       future' = [future EXCEPT ![worker[s].cmd] = outcome]
  /\ completed' = completed \cup ({work[worker[s].cmd].signals} \ {None})
  /\ worker' = [worker EXCEPT ![s] = Idle]
  /\ UNCHANGED <<queue, work, pending, thread, taken,
                 excused>>

\* The function has ended, with a result or an exception, which its future gets;
\* then the event is completed.
Finish(s) ==
  /\ MayEnd(s) /\ future[worker[s].cmd] = "pending"
  /\ \E outcome \in {"result", "error"} :
       future' = [future EXCEPT ![worker[s].cmd] = outcome]
  /\ completed' = completed \cup ({work[worker[s].cmd].signals} \ {None})
  /\ worker' = [worker EXCEPT ![s] = Idle]
  /\ UNCHANGED <<queue, work, pending, thread, taken,
                 excused>>

\* set_result() and set_exception() raise InvalidStateError on a cancelled
\* future, the second outside the `try'.
FinishRaises(s) ==
  /\ MayEnd(s) /\ future[worker[s].cmd] = "cancelled"
  /\ worker' = [worker EXCEPT ![s].at = "cancelled"]
  /\ UNCHANGED <<queue, work, future, pending, completed, thread, taken,
                 excused>>
-----------------------------------------------------------------------------
Worker(s) ==
  \/ Take(s) \/ Begin(s) \/ DependencyRaises(s) \/ Finish(s) \/ FinishRaises(s)

Application(t) ==
  \/ \E s \in Streams : \/ \E c \in Commands, w \in Work : EnqueuePuts(t, s, c, w)
                        \/ SynchronizeStarts(t, s)
  \/ EnqueueEnds(t) \/ SynchronizeEnds(t)
  \/ \E c \in Commands : GivesUp(t, c)

StreamNext ==
  \/ \E s \in Streams : Worker(s)
  \/ \E t \in Threads : Application(t)
  \/ \E c \in Commands : Cancel(c)

StreamFairness == \A s \in Streams : WF_streamVars(Worker(s))
StreamSpec == StreamInit /\ [][StreamNext]_streamVars /\ StreamFairness
-----------------------------------------------------------------------------
(* The type invariant of the streams: in particular a command is in one place
   of one stream. *)
StreamTypeOK ==
  /\ \A s \in Streams : /\ Issued(s) \in Seq(Commands) /\ IsInjective(Issued(s))
                        /\ pending[s] \subseteq Commands
                        /\ worker[s].at \in {"idle", "depends", "failed", "runs",
                                           "cancelled"}
                        /\ worker[s].cmd \in Commands \cup {None}
  /\ \A r, s \in Streams :
       r # s => ToSet(Issued(r)) \cap ToSet(Issued(s)) = {}
  /\ work \in [Commands -> Work \cup {Plain}]
  /\ \A c \in Commands : future[c] = "none" \/ future[c] = "pending" \/ Settled(c)
  /\ completed \subseteq Events

At(places) == {worker[s].cmd : s \in {s \in Streams : worker[s].at \in places}}
Ran == (UNION {ToSet(taken[s]) : s \in Streams}) \ At({"depends", "failed"})

(* "Operations within a stream execute in order", and a command begins only
   after those it depends on ("Commands that must complete first"): the streams
   implement OrderedExecution. *)
Order == INSTANCE OrderedExecution
           WITH issued <- [s \in Streams |-> Issued(s)],
                after <- [c \in Commands |-> ToSet(work[c].needs)],
                begun <- Ran,
                ended <- Ran \ At({"runs"})

StreamsInOrder == Order!OrderSpec

Returns(t) == thread[t].at = "synchronizes" /\ thread'[t].at = "idle"

(* When synchronize() returns, all that was enqueued before it is settled,
   except what was enqueued during another synchronize() of the stream, or was
   given up after a minute. *)
SynchronizeWaits ==
  [][\A t \in Threads : Returns(t) =>
       \A c \in thread[t].owed : Settled(c) \/ c \in excused]_streamVars

Stalled ==
  \E s \in Streams : \/ worker[s].at \in {"failed", "cancelled"}
                     \/ /\ worker[s].at = "runs"
                        /\ work[worker[s].cmd].awaits \notin completed \cup {None}

(* Every command that was enqueued is settled, unless a worker has died or waits
   for an event: dependencies between streams alone never block them. *)
OnlyWaysToStall ==
  \A c \in Commands : future[c] = "pending" ~> Settled(c) \/ Stalled
=============================================================================
