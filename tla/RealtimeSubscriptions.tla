------------------------ MODULE RealtimeSubscriptions ------------------------
(***************************************************************************)
(* Subscriptions of RealtimeClient (aethelred/core/realtime.py): the       *)
(* registry behind _subscription_lock, resubscription after a connect(),   *)
(* routing of received messages, and the job iterators job_events() and    *)
(* multi_job_events() that own a subscription from subscribe to            *)
(* unsubscribe.                                                            *)
(*                                                                         *)
(* The connection is what an undisturbed RealtimeConnection gives: one     *)
(* connect() at a time, is_connected until the loss is noticed.  Only the  *)
(* resubscription suspends while it holds the lock, so holding the lock is *)
(* being in the resubscription.  The server is modelled from the messages  *)
(* realtime.py exchanges with it: it remembers the subscriptions of a      *)
(* connection and sends an event once if one of them matches.              *)
(*                                                                         *)
(* An iterator stands for one subscription object (identifiers are UUIDs   *)
(* and never come back).  Abstracted: seal and block channels, which       *)
(* differ in `matches' only, status filters, and event contents.           *)
(***************************************************************************)
EXTENDS Naturals, Sequences

CONSTANTS
  Jobs,        \* jobs that the server reports on
  Iterators,   \* calls of job_events() and multi_job_events()
  Watch,       \* the jobs each iterator subscribes to
  LastStage,   \* every job has this many events; the last says is_complete
  UsersBreak   \* whether the application may leave an iterator early

ASSUME SubscriptionAssumption ==
  /\ Watch \in [Iterators -> SUBSET Jobs]
  /\ LastStage \in Nat \ {0}
  /\ UsersBreak \in BOOLEAN

VARIABLES
  connected,      \* is_connected
  link,           \* whether the socket _ws is open
  resubscribing,  \* _resubscribe_all() runs and holds _subscription_lock
  todo,           \* the subscriptions it has not sent yet
  registered,     \* the keys of _subscriptions
  pc,             \* where each iterator is
  pending,        \* pending_jobs of each iterator
  queue,          \* Subscription._queue: events <<job, stage>>
  up,             \* messages on their way to the server
  down,           \* events received or on their way to the client
  server,         \* subscriptions the server has for the connection
  stage           \* how many events of each job have happened

vars == <<connected, link, resubscribing, todo, registered, pc, pending,
          queue, up, down, server, stage>>

Kinds == {"subscribe", "unsubscribe"}
Message(kind, i) == [kind |-> kind, id |-> i]
Completes(event) == event[2] = LastStage

\* "subscribe" and "unsubscribe": suspended in _send(); the suffix says that
\* the connection broke meanwhile.
Labels == {"idle", "add", "subscribe", "subscribe broken", "consume",
           "remove", "unsubscribe", "unsubscribe broken", "ended", "raised"}
Goto(i, label) == pc' = [pc EXCEPT ![i] = label]

Init ==
  /\ connected = FALSE
  /\ link = FALSE
  /\ resubscribing = FALSE
  /\ todo = {}
  /\ registered = {}
  /\ pc = [i \in Iterators |-> "idle"]
  /\ pending = Watch
  /\ queue = [i \in Iterators |-> <<>>]
  /\ up = <<>>
  /\ down = <<>>
  /\ server = {}
  /\ stage = [j \in Jobs |-> 0]
-----------------------------------------------------------------------------
(* connect() and what becomes of the connection. *)

\* Authenticated on a new socket; the resubscription takes the lock.
Connect ==
  /\ ~connected /\ ~resubscribing
  /\ connected' = TRUE
  /\ link' = TRUE
  /\ resubscribing' = TRUE
  /\ todo' = registered
  /\ UNCHANGED <<registered, pc, pending, queue, up, down, server, stage>>

ResubscribeSends(i) ==
  /\ resubscribing /\ link
  /\ i \in todo
  /\ todo' = todo \ {i}
  /\ up' = Append(up, Message("subscribe", i))
  /\ UNCHANGED <<connected, link, resubscribing, registered, pc, pending,
                 queue, down, server, stage>>

ResubscribeEnds ==
  /\ resubscribing
  /\ todo = {}
  /\ resubscribing' = FALSE
  /\ UNCHANGED <<connected, link, todo, registered, pc, pending, queue, up,
                 down, server, stage>>

\* Mutant: the lock is not released when a send raises.
FailureKeepsLock ==
  /\ resubscribing /\ ~link
  /\ connected' = FALSE
  /\ UNCHANGED <<link, resubscribing, todo, registered, pc, pending, queue,
                 up, down, server, stage>>

\* The receive loop of a connection that was given up stops at its next test;
\* only a message it already waits to route is not lost.
ReceiveLoopStops ==
  \E n \in 0..Len(down) : n <= 1 /\ down' = SubSeq(down, 1, n)

\* A send raised: connect() fails, the lock is released on the way out.
ResubscribeFails ==
  /\ resubscribing /\ ~link
  /\ resubscribing' = FALSE
  /\ todo' = {}
  /\ connected' = FALSE
  /\ ReceiveLoopStops
  /\ UNCHANGED <<link, registered, pc, pending, queue, up, server, stage>>

\* A suspended send raises; what has reached the client can still be read.
SocketDrops ==
  /\ link
  /\ link' = FALSE
  /\ pc' = [i \in Iterators |->
              CASE pc[i] = "subscribe"   -> "subscribe broken"
                [] pc[i] = "unsubscribe" -> "unsubscribe broken"
                [] OTHER -> pc[i]]
  /\ up' = <<>>
  /\ \E n \in 0..Len(down) : down' = SubSeq(down, 1, n)
  /\ server' = {}
  /\ UNCHANGED <<connected, resubscribing, todo, registered, pending, queue,
                 stage>>

\* recv() raises once everything received has been read.
LossNoticed ==
  /\ connected /\ ~link
  /\ down = <<>>
  /\ connected' = FALSE
  /\ UNCHANGED <<link, resubscribing, todo, registered, pc, pending, queue,
                 up, down, server, stage>>

\* A heartbeat timeout abandons an open socket.  (RealtimeConnection shows what
\* a timeout during the resubscription does.)
HeartbeatLost ==
  /\ connected /\ link /\ ~resubscribing
  /\ connected' = FALSE
  /\ link' = FALSE
  /\ ReceiveLoopStops
  /\ up' = <<>> /\ server' = {}
  /\ UNCHANGED <<resubscribing, todo, registered, pc, pending, queue, stage>>
-----------------------------------------------------------------------------
(* subscribe_job(), subscribe_jobs(), unsubscribe(), and the iterators. *)

\* Mutant: a new subscription is left to the next resubscription.
AnnounceRemoval(i, kind, done) ==
  IF ~connected \/ kind = "subscribe" THEN Goto(i, done) /\ UNCHANGED up
  ELSE IF link  THEN Goto(i, kind) /\ up' = Append(up, Message(kind, i))
  ELSE Goto(i, "raised") /\ UNCHANGED up

\* After the registry has changed: `if self.is_connected: await self._send()'.
Announce(i, kind, done) ==
  IF ~connected THEN Goto(i, done) /\ UNCHANGED up
  ELSE IF link  THEN Goto(i, kind) /\ up' = Append(up, Message(kind, i))
  ELSE Goto(i, "raised") /\ UNCHANGED up

Iterate(i) ==
  /\ pc[i] = "idle"
  /\ Goto(i, "add")
  /\ UNCHANGED <<connected, link, resubscribing, todo, registered, pending,
                 queue, up, down, server, stage>>

Register(i) ==
  /\ pc[i] = "add"
  /\ ~resubscribing
  /\ registered' = registered \cup {i}
  /\ Announce(i, "subscribe", "consume")
  /\ UNCHANGED <<connected, link, resubscribing, todo, pending, queue, down,
                 server, stage>>

\* The call that was suspended in _send() goes on.  When it raises in
\* subscribe_job(), the iterator has no `finally' yet that would unsubscribe.
SendEnds(i) ==
  /\ \/ pc[i] = "subscribe"   /\ Goto(i, "consume")
     \/ pc[i] = "unsubscribe" /\ Goto(i, "ended")
     \/ pc[i] \in {"subscribe broken", "unsubscribe broken"}
        /\ Goto(i, "raised")
  /\ UNCHANGED <<connected, link, resubscribing, todo, registered, pending,
                 queue, up, down, server, stage>>

\* `while pending_jobs': with one job, this is job_events()'s break.
Consume(i) ==
  /\ pc[i] = "consume"
  /\ queue[i] # <<>>
  /\ LET event == Head(queue[i])
         left  == IF Completes(event) THEN pending[i] \ {event[1]}
                                      ELSE pending[i]
     IN  /\ pending' = [pending EXCEPT ![i] = left]
         /\ Goto(i, IF left = {} THEN "remove" ELSE "consume")
  /\ queue' = [queue EXCEPT ![i] = Tail(@)]
  /\ UNCHANGED <<connected, link, resubscribing, todo, registered, up, down,
                 server, stage>>

\* A timeout of get_event(), a break in the loop body, or aclose().
Break(i) ==
  /\ UsersBreak
  /\ pc[i] = "consume"
  /\ Goto(i, "remove")
  /\ UNCHANGED <<connected, link, resubscribing, todo, registered, pending,
                 queue, up, down, server, stage>>

\* Mutant: the registry is changed without the lock.
UnregisterUnlocked(i) ==
  /\ pc[i] = "remove"
  /\ registered' = registered \ {i}
  /\ queue' = [queue EXCEPT ![i] = <<>>]
  /\ Announce(i, "unsubscribe", "ended")
  /\ UNCHANGED <<connected, link, resubscribing, todo, pending, down, server,
                 stage>>

Unregister(i) ==
  /\ pc[i] = "remove"
  /\ ~resubscribing
  /\ registered' = registered \ {i}
  /\ queue' = [queue EXCEPT ![i] = <<>>]
  /\ Announce(i, "unsubscribe", "ended")
  /\ UNCHANGED <<connected, link, resubscribing, todo, pending, down, server,
                 stage>>

\* _route_message(): to every subscription whose filter matches.
Route ==
  /\ down # <<>>
  /\ ~resubscribing
  /\ LET event == Head(down)
     IN  queue' = [i \in Iterators |->
                     IF i \in registered /\ event[1] \in Watch[i]
                       THEN Append(queue[i], event) ELSE queue[i]]
  /\ down' = Tail(down)
  /\ UNCHANGED <<connected, link, resubscribing, todo, registered, pc,
                 pending, up, server, stage>>
-----------------------------------------------------------------------------
(* The server. *)

ServerHandles ==
  /\ link /\ up # <<>>
  /\ server' = IF Head(up).kind = "subscribe"
                 THEN server \cup {Head(up).id} ELSE server \ {Head(up).id}
  /\ up' = Tail(up)
  /\ UNCHANGED <<connected, link, resubscribing, todo, registered, pc,
                 pending, queue, down, stage>>

JobAdvances(j) ==
  /\ stage[j] < LastStage
  /\ stage' = [stage EXCEPT ![j] = @ + 1]
  /\ down' = IF \E i \in server : j \in Watch[i]
               THEN Append(down, <<j, stage[j] + 1>>) ELSE down
  /\ UNCHANGED <<connected, link, resubscribing, todo, registered, pc,
                 pending, queue, up, server>>
-----------------------------------------------------------------------------
Resubscribe ==
  ResubscribeEnds \/ ResubscribeFails \/ \E i \in Iterators : ResubscribeSends(i)

LockedStep(i) == Register(i) \/ Unregister(i)

Next ==
  \/ Connect \/ Resubscribe \/ SocketDrops \/ LossNoticed \/ HeartbeatLost
  \/ \E i \in Iterators : Iterate(i) \/ LockedStep(i) \/ SendEnds(i)
                            \/ Consume(i) \/ Break(i)
  \/ Route \/ ServerHandles
  \/ \E j \in Jobs : JobAdvances(j)

(***************************************************************************)
(* The reconnect loop dials until it succeeds, ready coroutines run, and   *)
(* asyncio.Lock serves its waiters in order (hence strong fairness of what *)
(* waits for it).  Applications, jobs and the network are free.            *)
(***************************************************************************)
Fairness ==
  /\ WF_vars(Connect) /\ WF_vars(Resubscribe) /\ WF_vars(LossNoticed)
  /\ SF_vars(Route) /\ WF_vars(ServerHandles)
  /\ \A i \in Iterators : /\ SF_vars(LockedStep(i))
                          /\ WF_vars(SendEnds(i)) /\ WF_vars(Consume(i))

Spec == Init /\ [][Next]_vars /\ Fairness
-----------------------------------------------------------------------------
(* The type invariant of the registry, the iterators and the two message
   channels of realtime.py. *)
TypeOK ==
  /\ {connected, link, resubscribing} \subseteq BOOLEAN
  /\ todo \subseteq registered
  /\ registered \subseteq Iterators
  /\ pc \in [Iterators -> Labels]
  /\ pending \in [Iterators -> SUBSET Jobs]
  /\ queue \in [Iterators -> Seq(Jobs \X (1..LastStage))]
  /\ up \in Seq([kind : Kinds, id : Iterators])
  /\ down \in Seq(Jobs \X (1..LastStage))
  /\ server \subseteq Iterators
  /\ stage \in [Jobs -> 0..LastStage]

\* What the server will have for i once it has handled what is under way.
Told(i) ==
  \/ \E n \in 1..Len(up) : /\ up[n] = Message("subscribe", i)
                           /\ \A m \in (n + 1)..Len(up) : up[m].id # i
  \/ i \in server /\ \A n \in 1..Len(up) : up[n].id # i

(* The registry and the server agree at every moment of a live connection:
   the server has, or is about to have, exactly the registered subscriptions
   that the resubscription is not still going to send.  subscribe and
   unsubscribe get this from changing the registry under the lock and
   looking at is_connected only afterwards, without a suspension between. *)
ServerInStep ==
  connected /\ link =>
    \A i \in Iterators : Told(i) <=> i \in registered \ todo

(* "Automatic reconnection": if the connection comes back for good, the server
   gets to know every subscription that stays registered, whether it was
   registered before the loss, while nobody was connected, or while connect()
   was under way. *)
SubscriptionsComeBack ==
  <>[](connected /\ link) =>
    \A i \in Iterators :
      i \in registered ~> (i \in server \/ i \notin registered)

\* An event that completes a job for iterator i is in the client or under way
\* to it.
InFlight(i, j) ==
  /\ pc[i] = "consume"
  /\ j \in pending[i]
  /\ \E events \in {queue[i], down} :
       \E n \in 1..Len(events) : events[n] = <<j, LastStage>>

(* No completion is held up for good: what is under way to an iterator is
   consumed by it, or lost with its connection, however subscribers,
   resubscription and routing contend for the lock. *)
CompletionMovesOn ==
  \A i \in Iterators, j \in Jobs : InFlight(i, j) ~> ~InFlight(i, j)

(* "Stop when all jobs complete", and "Message queuing during disconnection":
   an iterator that the server has a subscription for, and whose jobs all
   complete after that, stops once they have, provided that the connection
   comes back for good. *)
StopsWhenAllComplete ==
  <>[](connected /\ link) /\ (\A j \in Jobs : <>(stage[j] = LastStage)) =>
    \A i \in Iterators :
      (/\ pc[i] = "consume" /\ i \in server
       /\ \A j \in Watch[i] : stage[j] < LastStage) ~> pc[i] # "consume"
=============================================================================
