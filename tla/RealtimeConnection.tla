------------------------- MODULE RealtimeConnection -------------------------
(***************************************************************************)
(* The connection life cycle of RealtimeClient (aethelred/core/            *)
(* realtime.py): connect(), disconnect(), the receive and heartbeat loops, *)
(* and the reconnect loop.  All of them are coroutines of one asyncio      *)
(* event loop, so an action is the code between two suspension points: an  *)
(* `await' that really waits ends the action, everything before the next   *)
(* one happens atomically.                                                 *)
(*                                                                         *)
(* Background tasks are named after the connection whose connect() call    *)
(* created them; `receiveTask' and `heartbeatTask' are the handles kept in *)
(* the client, which the next connect() overwrites.  Connections, and with *)
(* them task names, are reused once nothing refers to them any more, so    *)
(* behaviours may be infinite.                                             *)
(*                                                                         *)
(* Abstracted: message contents and routing, latency metrics, delays and   *)
(* jitter (a wait may end at any time), and sends during authentication,   *)
(* which do not suspend on an empty write buffer.                          *)
(***************************************************************************)
EXTENDS Naturals, FiniteSets

CONSTANTS
  Users,             \* application coroutines that call connect/disconnect
  Reconnector,       \* the coroutine _reconnect_loop
  Conns,             \* WebSocket connections that can exist at a time
  NoConn,            \* the value of _ws when there is none
  MaxAttempts,       \* ConnectionConfig.reconnect_max_attempts
  HeartbeatEnabled,  \* ConnectionConfig.heartbeat_enabled
  ReconnectEnabled,  \* ConnectionConfig.reconnect_enabled
  HasSubscriptions,  \* whether an active subscription is registered
  UsersCancel,       \* whether a user may cancel a pending connect()
  RecvErrorSuspends, \* asyncio.wait_for(recv()) suspends even when recv()
                     \* raises at once: TRUE before Python 3.12
  KeepsHistory       \* whether the history variables are kept; properties
                     \* that do not need them are cheaper without

States == {"DISCONNECTED", "CONNECTING", "CONNECTED", "RECONNECTING",
           "CLOSING", "CLOSED"}

\* The labels of suspension points.  The disconnect stages are the awaits of
\* disconnect(), in their order.
Dialing == {"called", "opening", "auth"}
DisconnectStage == <<"await_receive", "await_heartbeat", "await_reconnect",
                     "await_close">>
Disconnecting == {DisconnectStage[i] : i \in 1..4}
Procs == Users \cup {Reconnector}
TaskIdle == {"off", "loop", "spin"}

ASSUME ConnectionAssumption ==
  /\ Reconnector \notin Users
  /\ NoConn \notin Conns
  /\ (Conns \cup {NoConn}) \cap TaskIdle = {}
  /\ MaxAttempts \in Nat \ {0}
  /\ {HeartbeatEnabled, ReconnectEnabled, HasSubscriptions, UsersCancel,
      RecvErrorSuspends, KeepsHistory} \subseteq BOOLEAN

VARIABLES
  state,          \* _state
  ws,             \* _ws
  open,           \* connections whose socket the peer and client keep open
  receiveTask,    \* the connection whose task _receive_task holds
  heartbeatTask,  \* the same for _heartbeat_task
  rx,             \* receive loops: "off", "loop" (about to test the loop
                  \* condition), the connection it awaits recv() on, or "spin"
  hb,             \* heartbeat loops: "off", "loop" (sleeping), or the
                  \* connection whose pong is awaited
  pc,             \* where each user call and the reconnect loop is suspended
  on,             \* the connection that suspended call is waiting for; in
                  \* _resubscribe_all() NoConn while it waits for the lock
  attempts,       \* _metrics.reconnect_attempts
  released,       \* history: how the last user call ended: "no" (a connect),
                  \* "early" or "full" (a disconnect that returned)
  interference    \* history: see Interference

vars == <<state, ws, open, receiveTask, heartbeatTask, rx, hb, pc, on,
          attempts, released, interference>>

(***************************************************************************)
(* The ways two coroutines can get in each other's way.  The history       *)
(* variable records which of them have happened; the properties say what   *)
(* holds as long as none has.                                              *)
(*   stale    a loop left over from an earlier connection reported a       *)
(*            disconnection                                                *)
(*   resub    a connect() failed while resubscribing, and the client was   *)
(*            no longer connected, or connected by a socket that works     *)
(*   late     an authentication completed while a disconnect() was under   *)
(*            way                                                          *)
(*   overlap  one user called while another user's call was in progress    *)
(***************************************************************************)
Interference == {"stale", "resub", "late", "overlap"}
Undisturbed == KeepsHistory /\ interference = {}
Record(kind, happened) ==
  interference' = IF KeepsHistory /\ happened
                    THEN interference \cup {kind} ELSE interference
Release(how) == released' = IF KeepsHistory THEN how ELSE released

Overlaps(u) == \E v \in Users \ {u} : pc[v] # "idle"
Goto(p, label) == pc' = [pc EXCEPT ![p] = label]

\* A frozen event loop: a receive loop repeats without ever suspending.
Frozen == \E k \in Conns : rx[k] = "spin"

\* Nothing refers to c: a new connection may be given this name.
Unused(c) ==
  /\ c \notin open /\ c # ws
  /\ rx[c] = "off" /\ hb[c] = "off"
  /\ \A k \in Conns : rx[k] # c /\ hb[k] # c
  /\ \A p \in Procs : on[p] # c

\* The library refuses a second recv() on a connection: loop k would be told so.
Refused(k) == \E j \in Conns \ {k} : rx[j] = ws

\* The reconnect task at the head of its loop: created and ready to run, or
\* back from the sleep between two attempts.
ReconnectAtTest == pc[Reconnector] \in {"started", "loop"}

\* A receive loop that the event loop runs next: just started, or its recv()
\* has raised.  A dial takes several round trips, so it never completes before.
ReceiveReady ==
  \E k \in Conns : \/ rx[k] \in Conns \ open
                   \/ rx[k] = "loop" /\ ~Refused(k)

Init ==
  /\ state = "DISCONNECTED"
  /\ ws = NoConn
  /\ open = {}
  /\ receiveTask = NoConn
  /\ heartbeatTask = NoConn
  /\ rx = [k \in Conns |-> "off"]
  /\ hb = [k \in Conns |-> "off"]
  /\ pc = [p \in Procs |-> "idle"]
  /\ on = [p \in Procs |-> NoConn]
  /\ attempts = 0
  /\ released = "no"
  /\ interference = {}

-----------------------------------------------------------------------------
(* connect(), run by a user or by the reconnect loop. *)

\* Mutant: the test forgets the dial under way.
ReturnsOnlyIfConnected == state = "CONNECTED"

ConnectReturnsAtOnce == state \in {"CONNECTED", "CONNECTING"}

ConnectReturns(u) ==
  /\ pc[u] = "idle"
  /\ ConnectReturnsAtOnce
  /\ Release("no")
  /\ Record("overlap", Overlaps(u))
  /\ UNCHANGED <<state, ws, open, receiveTask, heartbeatTask, rx, hb, pc, on,
                 attempts>>

ConnectDials(u) ==
  /\ pc[u] = "idle"
  /\ ~ConnectReturnsAtOnce
  /\ state' = "CONNECTING"
  /\ Goto(u, "called")
  /\ Release("no")
  /\ Record("overlap", Overlaps(u))
  /\ UNCHANGED <<ws, open, receiveTask, heartbeatTask, rx, hb, on, attempts>>

\* The network answers only after every task that was ready when connect() was
\* called has run: a reconnect loop just created has seen CONNECTING by then.
DialBegins(u) ==
  /\ pc[u] = "called"
  /\ pc[Reconnector] # "started"
  /\ Goto(u, "opening")
  /\ UNCHANGED <<state, ws, open, receiveTask, heartbeatTask, rx, hb, on,
                 attempts, released, interference>>

\* Mutant: the attempts are renewed before the server has authenticated.
DialRenewsAttempts(p) ==
  /\ pc[p] = "opening"
  /\ ~ReceiveReady
  /\ \E c \in Conns :
       /\ Unused(c)
       /\ ws' = c
       /\ open' = open \cup {c}
       /\ on' = [on EXCEPT ![p] = c]
  /\ Goto(p, "auth")
  /\ attempts' = 0
  /\ UNCHANGED <<state, receiveTask, heartbeatTask, rx, hb, released,
                 interference>>

\* websockets.connect() returned: _ws is replaced, the old one is not closed.
DialSucceeds(p) ==
  /\ pc[p] = "opening"
  /\ ~ReceiveReady
  /\ \E c \in Conns :
       /\ Unused(c)
       /\ ws' = c
       /\ open' = open \cup {c}
       /\ on' = [on EXCEPT ![p] = c]
  /\ Goto(p, "auth")
  /\ UNCHANGED <<state, receiveTask, heartbeatTask, rx, hb, attempts,
                 released, interference>>

\* Mutant: the except clauses raise without resetting the state.
FailureKeepsState(p) ==
  /\ Goto(p, IF p = Reconnector THEN "loop" ELSE "idle")
  /\ on' = [on EXCEPT ![p] = NoConn]
  /\ UNCHANGED <<state, ws, open, receiveTask, heartbeatTask, rx, hb,
                 attempts, released>>

\* The two except clauses: a user's call raises, the reconnect loop backs off.
ConnectFails(p) ==
  /\ state' = "DISCONNECTED"
  /\ Goto(p, IF p = Reconnector THEN "loop" ELSE "idle")
  /\ on' = [on EXCEPT ![p] = NoConn]
  /\ UNCHANGED <<ws, open, receiveTask, heartbeatTask, rx, hb, attempts,
                 released>>

DialFails(p) ==
  /\ pc[p] = "opening"
  /\ ConnectFails(p)
  /\ UNCHANGED interference

\* No answer in message_timeout_s, a refusal, or a closed connection.
AuthFails(p) ==
  /\ pc[p] = "auth"
  /\ ConnectFails(p)
  /\ UNCHANGED interference

AuthSucceeds(p) ==
  /\ pc[p] = "auth"
  /\ on[p] \in open
  /\ state' = "CONNECTED"
  /\ attempts' = 0
  /\ receiveTask' = on[p]
  /\ rx' = [rx EXCEPT ![on[p]] = "loop"]
  /\ IF HeartbeatEnabled
       THEN heartbeatTask' = on[p] /\ hb' = [hb EXCEPT ![on[p]] = "loop"]
       ELSE UNCHANGED <<heartbeatTask, hb>>
  /\ Goto(p, IF HasSubscriptions THEN "resub" ELSE "idle")
  /\ on' = [on EXCEPT ![p] = NoConn]
  /\ Record("late", \E u \in Users : pc[u] \in Disconnecting)
  /\ UNCHANGED <<ws, open, released>>

\* _resubscribe_all() has the lock, or its last send has been written.
ReadyToSend(p) == pc[p] = "resub" /\ on[p] \in open \cup {NoConn}

\* The next send takes the socket _ws is by now, and stays on it.
ResubscribeSends(p) ==
  /\ ReadyToSend(p)
  /\ ws \in open
  /\ on' = [on EXCEPT ![p] = ws]
  /\ UNCHANGED <<state, ws, open, receiveTask, heartbeatTask, rx, hb, pc,
                 attempts, released, interference>>

ResubscribeSucceeds(p) ==
  /\ ReadyToSend(p)
  /\ Goto(p, "idle")
  /\ on' = [on EXCEPT ![p] = NoConn]
  /\ UNCHANGED <<state, ws, open, receiveTask, heartbeatTask, rx, hb,
                 attempts, released, interference>>

\* The socket of a send closes under it, or the next send finds none to use.
ResubscribeFails(p) ==
  /\ pc[p] = "resub"
  /\ \/ on[p] \in Conns \ open
     \/ ReadyToSend(p) /\ ws \notin open
  /\ ConnectFails(p)
  /\ Record("resub", state # "CONNECTED" \/ ws \in open)

\* CancelledError passes both except clauses: _state stays what it was.
UserCancels(u) ==
  /\ UsersCancel
  /\ pc[u] \in Dialing \cup {"resub"}
  /\ Goto(u, "idle")
  /\ on' = [on EXCEPT ![u] = NoConn]
  /\ UNCHANGED <<state, ws, open, receiveTask, heartbeatTask, rx, hb,
                 attempts, released, interference>>

-----------------------------------------------------------------------------
(* disconnect(): each stage cancels a task that is still running and waits *)
(* for it; a stage whose task has ended does not suspend.                  *)

DisconnectReturns(u) ==
  /\ pc[u] = "idle"
  /\ state \in {"DISCONNECTED", "CLOSED"}
  /\ Release("early")
  /\ Record("overlap", Overlaps(u))
  /\ UNCHANGED <<state, ws, open, receiveTask, heartbeatTask, rx, hb, pc, on,
                 attempts>>

Running(task, loops) == task # NoConn /\ loops[task] # "off"

\* Mutant: disconnect() forgets the reconnect task.
AwaitsNoReconnect(stage) ==
  CASE stage = "await_receive"   -> Running(receiveTask, rx)
    [] stage = "await_heartbeat" -> Running(heartbeatTask, hb)
    [] stage = "await_reconnect" -> FALSE
    [] stage = "await_close"     -> ws # NoConn

MustAwait(stage) ==
  CASE stage = "await_receive"   -> Running(receiveTask, rx)
    [] stage = "await_heartbeat" -> Running(heartbeatTask, hb)
    [] stage = "await_reconnect" -> pc[Reconnector] # "idle"
    [] stage = "await_close"     -> ws # NoConn

\* The first stage after the n-th one at which disconnect() suspends.
NextStage(n) ==
  {i \in (n + 1)..4 : /\ MustAwait(DisconnectStage[i])
                      /\ \A j \in (n + 1)..(i - 1) :
                           ~MustAwait(DisconnectStage[j])}

\* Cancelling a loop ends it.  The reconnect loop counts as running until the
\* cancellation is delivered, which _handle_disconnect() can observe.
SuspendAt(u, i) ==
  /\ rx' = IF i = 1 THEN [rx EXCEPT ![receiveTask] = "off"] ELSE rx
  /\ hb' = IF i = 2 THEN [hb EXCEPT ![heartbeatTask] = "off"] ELSE hb
  /\ pc' = [pc EXCEPT ![u] = DisconnectStage[i],
                      ![Reconnector] = IF i = 3 THEN "cancelled" ELSE @]
  /\ on' = [on EXCEPT ![u] = IF i = 4 THEN ws ELSE NoConn,
                      ![Reconnector] = IF i = 3 THEN NoConn ELSE @]

DisconnectCalled(u) ==
  /\ pc[u] = "idle"
  /\ state \notin {"DISCONNECTED", "CLOSED"}
  /\ Record("overlap", Overlaps(u))
  /\ \/ \E i \in NextStage(0) :
          /\ SuspendAt(u, i)
          /\ state' = "CLOSING"
          /\ UNCHANGED released
     \/ /\ NextStage(0) = {}
        /\ state' = "CLOSED"
        /\ Release("full")
        /\ UNCHANGED <<rx, hb, pc, on>>
  /\ UNCHANGED <<ws, open, receiveTask, heartbeatTask, attempts>>

\* The task awaited at stage n has ended; on to the next stage.
DisconnectContinues(u, n) ==
  /\ pc[u] = DisconnectStage[n]
  /\ n = 3 => pc[Reconnector] # "cancelled"
  /\ \/ \E i \in NextStage(n) :
          SuspendAt(u, i) /\ UNCHANGED <<state, released>>
     \/ /\ NextStage(n) = {}
        /\ state' = "CLOSED"
        /\ Release("full")
        /\ Goto(u, "idle")
        /\ UNCHANGED <<rx, hb, on>>
  /\ UNCHANGED <<ws, open, receiveTask, heartbeatTask, attempts, interference>>

\* ws.close() returned: the attribute is cleared, whatever it holds by now.
DisconnectCloses(u) ==
  /\ pc[u] = "await_close"
  /\ open' = open \ {on[u]}
  /\ ws' = NoConn
  /\ state' = "CLOSED"
  /\ Release("full")
  /\ Goto(u, "idle")
  /\ on' = [on EXCEPT ![u] = NoConn]
  /\ UNCHANGED <<receiveTask, heartbeatTask, rx, hb, attempts, interference>>

CancellationDelivered ==
  /\ pc[Reconnector] = "cancelled"
  /\ Goto(Reconnector, "idle")
  /\ UNCHANGED <<state, ws, open, receiveTask, heartbeatTask, rx, hb, on,
                 attempts, released, interference>>

-----------------------------------------------------------------------------
(* _handle_disconnect(), called by a loop k while `handle' is the handle   *)
(* the client keeps for loops of its kind.                                 *)

\* Mutant: the state announces a reconnection that nobody starts.
OnlyAnnounces(k, handle) ==
  /\ state' = IF ReconnectEnabled THEN "RECONNECTING" ELSE "DISCONNECTED"
  /\ Record("stale", k # handle)
  /\ UNCHANGED pc

HandleDisconnect(k, handle) ==
  /\ IF ReconnectEnabled
       THEN /\ state' = "RECONNECTING"
            /\ Goto(Reconnector, IF pc[Reconnector] = "idle"
                                   THEN "started" ELSE pc[Reconnector])
       ELSE /\ state' = "DISCONNECTED"
            /\ UNCHANGED pc
  /\ Record("stale", k # handle)

(* _receive_loop(), task k. *)

\* recv() returned or timed out, or the task is about to run for the first
\* time or again: the loop condition is tested next.
ReceiveAtTest(k) == rx[k] = "loop" \/ rx[k] \in open

ReceiveStops(k) ==
  /\ ReceiveAtTest(k)
  /\ state # "CONNECTED"
  /\ rx' = [rx EXCEPT ![k] = "off"]
  /\ UNCHANGED <<state, ws, open, receiveTask, heartbeatTask, hb, pc, on,
                 attempts, released, interference>>

\* websockets refuses a second concurrent recv(); the error is logged and the
\* loop goes round.  With _ws = None the attribute access itself raises.
ReceiveAgain(k) ==
  /\ ReceiveAtTest(k)
  /\ state = "CONNECTED"
  /\ ws \in open \cup {NoConn}
  /\ rx' = [rx EXCEPT ![k] =
       IF ws = NoConn \/ (Refused(k) /\ ~RecvErrorSuspends) THEN "spin"
       ELSE IF Refused(k) THEN "loop"
       ELSE ws]
  /\ UNCHANGED <<state, ws, open, receiveTask, heartbeatTask, hb, pc, on,
                 attempts, released, interference>>

\* Mutant: the loop breaks without reporting the disconnection.
ReceiveBreaks(k) ==
  /\ \/ rx[k] \in Conns \ open
     \/ ReceiveAtTest(k) /\ state = "CONNECTED" /\ ws \in Conns \ open
  /\ rx' = [rx EXCEPT ![k] = "off"]
  /\ UNCHANGED <<state, ws, open, receiveTask, heartbeatTask, hb, pc, on,
                 attempts, released, interference>>

\* recv() raised ConnectionClosed.
ReceiveClosed(k) ==
  /\ \/ rx[k] \in Conns \ open
     \/ ReceiveAtTest(k) /\ state = "CONNECTED" /\ ws \in Conns \ open
  /\ rx' = [rx EXCEPT ![k] = "off"]
  /\ IF state = "CONNECTED"
       THEN HandleDisconnect(k, receiveTask)
       ELSE UNCHANGED <<state, pc, interference>>
  /\ UNCHANGED <<ws, open, receiveTask, heartbeatTask, hb, on, attempts,
                 released>>

(* _heartbeat_loop(), task k.  A ping that raises only goes back to sleep. *)

HeartbeatStops(k) ==
  /\ hb[k] = "loop"
  /\ state # "CONNECTED"
  /\ hb' = [hb EXCEPT ![k] = "off"]
  /\ UNCHANGED <<state, ws, open, receiveTask, heartbeatTask, rx, pc, on,
                 attempts, released, interference>>

HeartbeatPings(k) ==
  /\ hb[k] = "loop"
  /\ state = "CONNECTED"
  /\ ws \in open
  /\ hb' = [hb EXCEPT ![k] = ws]
  /\ UNCHANGED <<state, ws, open, receiveTask, heartbeatTask, rx, pc, on,
                 attempts, released, interference>>

\* The pong came, or the wait failed because the connection closed.
HeartbeatSleeps(k) ==
  /\ hb[k] \in Conns
  /\ hb' = [hb EXCEPT ![k] = "loop"]
  /\ UNCHANGED <<state, ws, open, receiveTask, heartbeatTask, rx, pc, on,
                 attempts, released, interference>>

\* No pong within heartbeat_timeout_s: unlike the receive loop, this one does
\* not look at the state.
HeartbeatTimeout(k) ==
  /\ hb[k] \in open
  /\ hb' = [hb EXCEPT ![k] = "off"]
  /\ HandleDisconnect(k, heartbeatTask)
  /\ UNCHANGED <<ws, open, receiveTask, heartbeatTask, rx, on, attempts,
                 released>>

-----------------------------------------------------------------------------
(* _reconnect_loop(): one iteration up to its first suspension. *)

\* Mutant: one attempt too many.
OneMoreAttempt == attempts <= MaxAttempts

AttemptsLeft == attempts < MaxAttempts

ReconnectDials ==
  /\ ReconnectAtTest
  /\ AttemptsLeft
  /\ attempts' = attempts + 1
  /\ IF ConnectReturnsAtOnce
       THEN Goto(Reconnector, "idle") /\ UNCHANGED state
       ELSE Goto(Reconnector, "opening") /\ state' = "CONNECTING"
  /\ UNCHANGED <<ws, open, receiveTask, heartbeatTask, rx, hb, on, released,
                 interference>>

ReconnectGivesUp ==
  /\ ReconnectAtTest
  /\ ~AttemptsLeft
  /\ state' = "DISCONNECTED"
  /\ Goto(Reconnector, "idle")
  /\ UNCHANGED <<ws, open, receiveTask, heartbeatTask, rx, hb, on, attempts,
                 released, interference>>

\* The environment: the peer or the network closes a connection.
SocketDrops(c) ==
  /\ c \in open
  /\ open' = open \ {c}
  /\ UNCHANGED <<state, ws, receiveTask, heartbeatTask, rx, hb, pc, on,
                 attempts, released, interference>>

-----------------------------------------------------------------------------
UserCalls(u) ==
  ConnectReturns(u) \/ ConnectDials(u) \/ DisconnectReturns(u)
    \/ DisconnectCalled(u) \/ UserCancels(u)

\* What the event loop does for a connect() that is under way.
ConnectStep(p) ==
  DialSucceeds(p) \/ DialFails(p) \/ AuthSucceeds(p) \/ AuthFails(p)
    \/ DialBegins(p) \/ ResubscribeSends(p) \/ ResubscribeSucceeds(p)
    \/ ResubscribeFails(p)

DisconnectStep(u) ==
  (\E n \in 1..3 : DisconnectContinues(u, n)) \/ DisconnectCloses(u)

ReceiveStep(k) == ReceiveStops(k) \/ ReceiveAgain(k) \/ ReceiveClosed(k)

HeartbeatStep(k) ==
  HeartbeatStops(k) \/ HeartbeatPings(k) \/ HeartbeatSleeps(k)
    \/ HeartbeatTimeout(k)

ReconnectStep == ReconnectDials \/ ReconnectGivesUp \/ CancellationDelivered

EventLoop ==
  \/ \E u \in Users : UserCalls(u) \/ DisconnectStep(u)
  \/ \E p \in Procs : ConnectStep(p)
  \/ \E k \in Conns : ReceiveStep(k) \/ HeartbeatStep(k) \/ SocketDrops(k)
  \/ ReconnectStep

Next == ~Frozen /\ EventLoop

(***************************************************************************)
(* Every wait of these coroutines has a timeout (connect_timeout_s,        *)
(* message_timeout_s, the close timeout of websockets, a sleep), and       *)
(* asyncio runs ready callbacks in order, so a coroutine that can go on    *)
(* does, until a loop that never suspends freezes the event loop.  Nothing *)
(* obliges the user or the network to do anything.                         *)
(***************************************************************************)
Fairness ==
  /\ \A p \in Procs : WF_vars(~Frozen /\ ConnectStep(p))
  /\ \A u \in Users : WF_vars(~Frozen /\ DisconnectStep(u))
  /\ \A k \in Conns : WF_vars(~Frozen /\ ReceiveStep(k))
  /\ WF_vars(~Frozen /\ ReconnectStep)

Spec == Init /\ [][Next]_vars /\ Fairness
-----------------------------------------------------------------------------
(* The type invariant: every attribute of the client and every coroutine of
   realtime.py is in one of the states the module gives it. *)
TypeOK ==
  /\ state \in States
  /\ ws \in Conns \cup {NoConn}
  /\ open \subseteq Conns
  /\ receiveTask \in Conns \cup {NoConn}
  /\ heartbeatTask \in Conns \cup {NoConn}
  /\ rx \in [Conns -> Conns \cup {"off", "loop", "spin"}]
  /\ hb \in [Conns -> Conns \cup {"off", "loop"}]
  /\ pc \in [Procs -> {"idle", "started", "loop", "cancelled", "resub"}
                        \cup Dialing \cup Disconnecting]
  /\ \A u \in Users : pc[u] \notin {"started", "loop", "cancelled"}
  /\ pc[Reconnector] \notin {"called"} \cup Disconnecting
  /\ on \in [Procs -> Conns \cup {NoConn}]
  /\ attempts \in 0..MaxAttempts
  /\ released \in {"no", "early", "full"}
  /\ interference \subseteq Interference

(* connect() has no lock; only the state test at its head keeps two
   coroutines from dialing at once (each would replace _ws and start loops).
   That test is enough as long as none of the four interferences happened. *)
DialExclusion ==
  Undisturbed =>
    \A p, q \in Procs : pc[p] \in Dialing /\ pc[q] \in Dialing => p = q

(* While the client reports is_connected, _ws is the connection that the
   current receive task was started for, and that task is still running, so
   messages of the session are read. *)
ConnectedIsServed ==
  Undisturbed /\ state = "CONNECTED" =>
    /\ ws \in Conns
    /\ receiveTask = ws
    /\ rx[ws] # "off"

(* A disconnect() that ran to its end is final: until the user connects
   again nothing dials, no reconnect loop is left behind, the heartbeat the
   client started last is over and the client holds no socket. *)
FullDisconnectIsFinal ==
  Undisturbed /\ released = "full" =>
    /\ state = "CLOSED"
    /\ ws = NoConn
    /\ pc[Reconnector] = "idle"
    /\ heartbeatTask # NoConn => hb[heartbeatTask] = "off"

(* A connection in use is never replaced by another one under the caller's
   feet: connect() assigns _ws only when the client is not connected. *)
ConnectedSocketStays ==
  [][Undisturbed /\ state = "CONNECTED" => ws' \in {ws, NoConn}]_vars

(* After _handle_disconnect() the client does not stay in RECONNECTING: the
   reconnect loop moves it on, to a new session or to giving up. *)
ReconnectingEnds == state = "RECONNECTING" ~> state # "RECONNECTING"

(* The reconnect loop ends, with a session or after reconnect_max_attempts
   dials, whatever the server does, unless a user keeps calling connect(),
   whose successes reset the count. *)
ReconnectLoopEnds ==
  <>[](\A u \in Users : pc[u] \notin Dialing)
    => (pc[Reconnector] # "idle" ~> (pc[Reconnector] = "idle" \/ Frozen))

(* connect() and the reconnect loop leave CONNECTING: a client is not stuck
   in the state in which connect() returns without doing anything. *)
ConnectingEnds == state = "CONNECTING" ~> state # "CONNECTING"

(* A session whose socket died is noticed by the receive loop. *)
DeadSocketNoticed ==
  (state = "CONNECTED" /\ ws \notin open)
    ~> (state # "CONNECTED" \/ ws \in open \/ Frozen)

(* What the public interface says, without a condition on interference. *)

(* disconnect(): "Disconnect from WebSocket server."  Once it has returned,
   and until the user connects again, the client is not connected. *)
DisconnectDisconnects == released # "no" => state # "CONNECTED"

(* _receive_loop(): "Background task to receive messages."  A receive loop is
   in the background: however often its recv() raises, the event loop gets to
   run something else. *)
NeverFrozen == ~Frozen
-----------------------------------------------------------------------------
(* The inductive strengthening of the properties conditional on Undisturbed. *)
SomeDisconnecting == \E u \in Users : pc[u] \in Disconnecting
HeartbeatOff == heartbeatTask \in Conns => hb[heartbeatTask] = "off"
HeartbeatWaiting == heartbeatTask \in Conns /\ hb[heartbeatTask] \in open

OneUserCall ==
  \A u, v \in Users : pc[u] # "idle" /\ pc[v] # "idle" => u = v

OneDialer ==
  \A p, q \in Procs : pc[p] \in Dialing /\ pc[q] \in Dialing => p = q

\* While somebody dials the state keeps others out.  The reconnect loop may
\* give up during a user's dial, but then it is over.
DialerOwnsState ==
  \A p \in Procs : pc[p] \in Dialing =>
    /\ state # "CONNECTED"
    /\ \/ state = "CONNECTING"
       \/ SomeDisconnecting
       \/ state = "DISCONNECTED" /\ p \in Users /\ pc[Reconnector] = "idle"

DialerOwnsSocket == \A p \in Procs : pc[p] = "auth" => on[p] = ws

DisconnectingIsDown == SomeDisconnecting => state # "CONNECTED"

SessionServed ==
  state = "CONNECTED" =>
    /\ ws \in Conns
    /\ receiveTask = ws
    /\ rx[ws] # "off"
    /\ rx[ws] \in Conns => rx[ws] = ws

\* A successful dial leaves the waiting reconnect loop all its attempts.
AttemptsRenewed ==
  state = "CONNECTED" /\ ReconnectAtTest => attempts = 0

\* The current heartbeat waits only on the live session, or until
\* disconnect() reaches it.
HeartbeatOfSession ==
  HeartbeatWaiting =>
    \/ state = "CONNECTED" /\ hb[heartbeatTask] = ws
    \/ \E u \in Users : pc[u] = "await_receive"

StagesPassed ==
  /\ \A u \in Users :
       /\ pc[u] \in Disconnecting \ {"await_receive"} => HeartbeatOff
       /\ pc[u] = "await_reconnect" => pc[Reconnector] \in {"idle", "cancelled"}
       /\ pc[u] = "await_close" => pc[Reconnector] = "idle"
  /\ pc[Reconnector] = "cancelled" =>
       \E u \in Users : pc[u] = "await_reconnect"

ClosedForGood ==
  released = "full" =>
    /\ state = "CLOSED"
    /\ ws = NoConn
    /\ \A p \in Procs : pc[p] = "idle"
    /\ HeartbeatOff

UndisturbedSession ==
  /\ OneUserCall
  /\ OneDialer
  /\ DialerOwnsState
  /\ DialerOwnsSocket
  /\ DisconnectingIsDown
  /\ SessionServed
  /\ AttemptsRenewed
  /\ HeartbeatOfSession
  /\ StagesPassed
  /\ ClosedForGood

(* What the state test of connect() and the stages of disconnect() keep true
   of the client until two coroutines interfere: one dial at a time, a
   connected client whose loops belong to its socket, a disconnect() that
   leaves behind what it has passed. *)
SessionInvariant ==
  TypeOK /\ (Undisturbed => UndisturbedSession)
=============================================================================
