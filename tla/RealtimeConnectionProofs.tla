---------------------- MODULE RealtimeConnectionProofs ----------------------
(***************************************************************************)
(* Proofs about RealtimeConnection, for every set of users and             *)
(* connections and every configuration of the client.                      *)
(***************************************************************************)
EXTENDS RealtimeConnection, TLAPS

(* The stages of disconnect(), spelled out. *)
LEMMA StageNames ==
  /\ DisconnectStage[1] = "await_receive"
  /\ DisconnectStage[2] = "await_heartbeat"
  /\ DisconnectStage[3] = "await_reconnect"
  /\ DisconnectStage[4] = "await_close"
  /\ Disconnecting = {"await_receive", "await_heartbeat", "await_reconnect",
                      "await_close"}
<1>1. /\ DisconnectStage[1] = "await_receive"
      /\ DisconnectStage[2] = "await_heartbeat"
      /\ DisconnectStage[3] = "await_reconnect"
      /\ DisconnectStage[4] = "await_close"
  BY DEF DisconnectStage
<1>2. 1..4 = {1, 2, 3, 4}
  OBVIOUS
<1>3. QED BY <1>1, <1>2 DEF Disconnecting

(* Where disconnect() waits next: only for something that still runs, and   *)
(* what it skips on the way does not.                                       *)
LEMMA NextStageWaits ==
  ASSUME NEW n \in 0..3, NEW i \in NextStage(n)
  PROVE  \/ i = 1 /\ n = 0 /\ receiveTask # NoConn
         \/ i = 2 /\ n \in 0..1 /\ heartbeatTask # NoConn
         \/ /\ i = 3 /\ n \in 0..2
            /\ n \in 0..1 => ~Running(heartbeatTask, hb)
         \/ /\ i = 4
            /\ n \in 0..1 => ~Running(heartbeatTask, hb)
            /\ n \in 0..2 => pc[Reconnector] = "idle"
<1>1. i \in (n + 1)..4 /\ MustAwait(DisconnectStage[i])
  BY DEF NextStage
<1>2. \A j \in (n + 1)..(i - 1) : ~MustAwait(DisconnectStage[j])
  BY DEF NextStage
<1>3. CASE i = 1
  BY <1>1, <1>3, StageNames DEF MustAwait, Running
<1>4. CASE i = 2
  BY <1>1, <1>4, StageNames DEF MustAwait, Running
<1>5. CASE i = 3
  <2>1. n \in 0..1 => ~MustAwait("await_heartbeat")
    BY <1>2, <1>5, StageNames
  <2>2. QED BY <1>1, <1>5, <2>1 DEF MustAwait
<1>6. CASE i = 4
  <2>1. n \in 0..1 => ~MustAwait("await_heartbeat")
    BY <1>2, <1>6, StageNames
  <2>2. n \in 0..2 => ~MustAwait("await_reconnect")
    BY <1>2, <1>6, StageNames
  <2>3. QED BY <1>1, <1>6, <2>1, <2>2 DEF MustAwait
<1>7. QED BY <1>1, <1>3, <1>4, <1>5, <1>6

(* disconnect() ends without another wait only when nothing is left.        *)
LEMMA NoStageLeft ==
  ASSUME NEW n \in 0..3, NextStage(n) = {}
  PROVE  /\ ws = NoConn
         /\ n \in 0..1 => ~Running(heartbeatTask, hb)
         /\ n \in 0..2 => pc[Reconnector] = "idle"
<1> DEFINE Left == {i \in (n + 1)..4 : MustAwait(DisconnectStage[i])}
<1>1. ASSUME NEW i \in Left PROVE FALSE
  <2> DEFINE First == {k \in (n + 1)..4 :
                         /\ MustAwait(DisconnectStage[k])
                         /\ \A j \in (n + 1)..(k - 1) :
                              ~MustAwait(DisconnectStage[j])}
  <2>1. First = {} BY DEF NextStage
  <2>2. \A k \in (n + 1)..4 :
          MustAwait(DisconnectStage[k]) =>
            \E j \in (n + 1)..(k - 1) : MustAwait(DisconnectStage[j])
    BY <2>1
  <2> DEFINE A(k) == MustAwait(DisconnectStage[k])
  <2>3. \A k \in (n + 1)..4 : A(k) => \E j \in (n + 1)..(k - 1) : A(j)
    BY <2>2
  <2>4. i \in (n + 1)..4 /\ A(i)
    OBVIOUS
  <2> HIDE DEF A
  <2>5. QED BY <2>3, <2>4
<1>2. \A i \in (n + 1)..4 : ~MustAwait(DisconnectStage[i])
  BY <1>1
<1>3. ~MustAwait("await_close")
  BY <1>2, StageNames
<1>4. n \in 0..1 => ~MustAwait("await_heartbeat")
  BY <1>2, StageNames
<1>5. n \in 0..2 => ~MustAwait("await_reconnect")
  BY <1>2, StageNames
<1>6. QED BY <1>3, <1>4, <1>5 DEF MustAwait

(* No step leaves the types.                                                *)
LEMMA TypePreserved == TypeOK /\ [Next]_vars => TypeOK'
<1> USE ConnectionAssumption, StageNames
<1> SUFFICES ASSUME TypeOK, [Next]_vars PROVE TypeOK'
  OBVIOUS
<1> USE DEF TypeOK, States, Interference, Procs, Dialing, Release
<1>1. ASSUME NEW u \in Users, UserCalls(u) PROVE TypeOK'
  <2>1. CASE ConnectReturns(u)
    BY <2>1 DEF ConnectReturns, Record
  <2>2. CASE ConnectDials(u)
    BY <2>2 DEF ConnectDials, Record, Goto
  <2>3. CASE DisconnectReturns(u)
    BY <2>3 DEF DisconnectReturns, Record
  <2>4. CASE DisconnectCalled(u)
    <3>1. ASSUME NEW i \in NextStage(0), SuspendAt(u, i), state' = "CLOSING",
                 UNCHANGED released
          PROVE  TypeOK'
      BY <2>4, <3>1, NextStageWaits
         DEF DisconnectCalled, Record, SuspendAt
    <3>2. QED BY <2>4, <3>1 DEF DisconnectCalled, Record
  <2>5. CASE UserCancels(u)
    BY <2>5 DEF UserCancels, Goto
  <2>6. QED BY <1>1, <2>1, <2>2, <2>3, <2>4, <2>5 DEF UserCalls
<1>2. ASSUME NEW u \in Users, DisconnectStep(u) PROVE TypeOK'
  <2>1. ASSUME NEW n \in 1..3, DisconnectContinues(u, n) PROVE TypeOK'
    <3>1. ASSUME NEW i \in NextStage(n), SuspendAt(u, i),
                 UNCHANGED <<state, released>>
          PROVE  TypeOK'
      BY <2>1, <3>1, NextStageWaits
         DEF DisconnectContinues, SuspendAt
    <3>2. QED BY <2>1, <3>1 DEF DisconnectContinues, Goto
  <2>2. CASE DisconnectCloses(u)
    BY <2>2 DEF DisconnectCloses, Goto
  <2>3. QED BY <1>2, <2>1, <2>2 DEF DisconnectStep
<1>3. ASSUME NEW p \in Procs, ConnectStep(p) PROVE TypeOK'
  <2>1. CASE DialSucceeds(p)
    BY <2>1 DEF DialSucceeds, Goto
  <2>2. CASE DialFails(p)
    BY <2>2 DEF DialFails, ConnectFails, Goto
  <2>3. CASE AuthSucceeds(p)
    BY <2>3 DEF AuthSucceeds, Goto, Record
  <2>4. CASE ResubscribeSucceeds(p)
    BY <2>4 DEF ResubscribeSucceeds, Goto
  <2>5. CASE ResubscribeFails(p)
    BY <2>5 DEF ResubscribeFails, ConnectFails, Goto, Record
  <2>6. CASE AuthFails(p)
    BY <2>6 DEF AuthFails, ConnectFails, Goto
  <2>7. CASE DialBegins(p)
    BY <2>7 DEF DialBegins, Goto
  <2>8. CASE ResubscribeSends(p)
    BY <2>8 DEF ResubscribeSends
  <2>9. QED
    BY <1>3, <2>1, <2>2, <2>3, <2>4, <2>5, <2>6, <2>7, <2>8 DEF ConnectStep
<1>4. ASSUME NEW k \in Conns, ReceiveStep(k) PROVE TypeOK'
  <2>1. CASE ReceiveStops(k)
    BY <2>1 DEF ReceiveStops
  <2>2. CASE ReceiveAgain(k)
    BY <2>2 DEF ReceiveAgain
  <2>3. CASE ReceiveClosed(k)
    <3>1. CASE state = "CONNECTED"
      <4>1. /\ rx' = [rx EXCEPT ![k] = "off"]
            /\ HandleDisconnect(k, receiveTask)
            /\ UNCHANGED <<ws, open, receiveTask, heartbeatTask, hb, on,
                           attempts, released>>
        BY <2>3, <3>1 DEF ReceiveClosed
      <4>2. QED BY <4>1 DEF HandleDisconnect, Goto, Record
    <3>2. CASE state # "CONNECTED"
      BY <2>3, <3>2 DEF ReceiveClosed
    <3>3. QED BY <3>1, <3>2
  <2>4. QED BY <1>4, <2>1, <2>2, <2>3 DEF ReceiveStep
<1>5. ASSUME NEW k \in Conns, HeartbeatStep(k) PROVE TypeOK'
  <2>1. CASE HeartbeatStops(k)
    BY <2>1 DEF HeartbeatStops
  <2>2. CASE HeartbeatPings(k)
    BY <2>2 DEF HeartbeatPings
  <2>3. CASE HeartbeatSleeps(k)
    BY <2>3 DEF HeartbeatSleeps
  <2>4. CASE HeartbeatTimeout(k)
    BY <2>4 DEF HeartbeatTimeout, HandleDisconnect, Goto, Record
  <2>5. QED BY <1>5, <2>1, <2>2, <2>3, <2>4 DEF HeartbeatStep
<1>6. CASE ReconnectDials
  BY <1>6 DEF ReconnectDials, ReconnectAtTest, AttemptsLeft, Goto
<1>7. ASSUME ReconnectGivesUp \/ CancellationDelivered PROVE TypeOK'
  <2>1. CASE ReconnectGivesUp
    BY <2>1 DEF ReconnectGivesUp, Goto
  <2>2. CASE CancellationDelivered
    BY <2>2 DEF CancellationDelivered, Goto
  <2>3. QED BY <1>7, <2>1, <2>2
<1>8. ASSUME NEW c \in Conns, SocketDrops(c) PROVE TypeOK'
  BY <1>8 DEF SocketDrops
<1>9. CASE UNCHANGED vars
  BY <1>9 DEF vars
<1>10. QED
  BY <1>1, <1>2, <1>3, <1>4, <1>5, <1>6, <1>7, <1>8, <1>9
     DEF Next, EventLoop, ReconnectStep

(* Every attribute and every coroutine of the client is always in a state   *)
(* the module names, whatever users, server and network do.                 *)
THEOREM TypeCorrect == Spec => []TypeOK
<1>1. Init => TypeOK
  BY ConnectionAssumption, StageNames
     DEF Init, TypeOK, States, Procs, Dialing, Interference
<1>2. QED
  BY <1>1, TypePreserved, PTL DEF Spec

(* What has disturbed the client is never forgotten.                        *)
LEMMA InterferenceGrows == [Next]_vars => interference \subseteq interference'
BY DEF vars, Next, EventLoop, UserCalls, ConnectReturns, ConnectDials,
       DisconnectReturns, DisconnectCalled, UserCancels, DisconnectStep,
       DisconnectContinues, DisconnectCloses, ConnectStep, DialSucceeds,
       DialFails, DialBegins, AuthFails, AuthSucceeds, ResubscribeSends,
       ResubscribeSucceeds, ResubscribeFails, ConnectFails, ReceiveStep, ReceiveStops,
       ReceiveAgain, ReceiveClosed, HeartbeatStep, HeartbeatStops,
       HeartbeatPings, HeartbeatSleeps, HeartbeatTimeout, HandleDisconnect,
       ReconnectStep, ReconnectDials, ReconnectGivesUp,
       CancellationDelivered, SocketDrops, Record

(* One step of an undisturbed client that leaves it undisturbed.            *)
LEMMA SessionPreserved ==
  ASSUME TypeOK, TypeOK', Undisturbed, Undisturbed', UndisturbedSession,
         [Next]_vars
  PROVE  UndisturbedSession'
<1> USE ConnectionAssumption, StageNames
    DEF TypeOK, States, Procs, Dialing, TaskIdle, Release, Undisturbed,
        UndisturbedSession, OneUserCall, OneDialer, DialerOwnsState,
        DialerOwnsSocket, DisconnectingIsDown, SessionServed, AttemptsRenewed,
        ReconnectAtTest, HeartbeatOfSession, StagesPassed, ClosedForGood, SomeDisconnecting,
        HeartbeatOff, HeartbeatWaiting
<1>1. ASSUME NEW u \in Users, UserCalls(u) PROVE UndisturbedSession'
  <2>1. CASE ConnectReturns(u)
    BY <2>1 DEF ConnectReturns, Record, Overlaps
  <2>2. CASE ConnectDials(u)
    BY <2>2 DEF ConnectDials, Record, Overlaps, Goto, ConnectReturnsAtOnce
  <2>3. CASE DisconnectReturns(u)
    BY <2>3 DEF DisconnectReturns, Record, Overlaps
  <2>4. CASE DisconnectCalled(u)
    <3>1. ASSUME NEW i \in NextStage(0), SuspendAt(u, i), state' = "CLOSING",
                 UNCHANGED released
          PROVE  UndisturbedSession'
      <4>1. \A v \in Users \ {u} : pc[v] = "idle"
        BY <2>4 DEF DisconnectCalled, Record, Overlaps
      <4>2. CASE i = 1
        BY <2>4, <3>1, <4>1, <4>2 DEF DisconnectCalled, SuspendAt
      <4>3. CASE i = 2
        BY <2>4, <3>1, <4>1, <4>3, NextStageWaits
           DEF DisconnectCalled, SuspendAt
      <4>4. CASE i = 3
        BY <2>4, <3>1, <4>1, <4>4, NextStageWaits
           DEF DisconnectCalled, SuspendAt, Running
      <4>5. CASE i = 4
        BY <2>4, <3>1, <4>1, <4>5, NextStageWaits
           DEF DisconnectCalled, SuspendAt, Running
      <4>6. QED BY <3>1, <4>2, <4>3, <4>4, <4>5, NextStageWaits
    <3>2. CASE NextStage(0) = {} /\ state' = "CLOSED" /\ Release("full")
               /\ UNCHANGED <<rx, hb, pc, on>>
      BY <2>4, <3>2, NoStageLeft
         DEF DisconnectCalled, Record, Overlaps, Running
    <3>3. QED BY <2>4, <3>1, <3>2 DEF DisconnectCalled
  <2>5. CASE UserCancels(u)
    BY <2>5 DEF UserCancels, Goto
  <2>6. QED BY <1>1, <2>1, <2>2, <2>3, <2>4, <2>5 DEF UserCalls
<1>2. ASSUME NEW u \in Users, DisconnectStep(u) PROVE UndisturbedSession'
  <2>1. ASSUME NEW n \in 1..3, DisconnectContinues(u, n) PROVE UndisturbedSession'
    <3>1. ASSUME NEW i \in NextStage(n), SuspendAt(u, i),
                 UNCHANGED <<state, released>>
          PROVE  UndisturbedSession'
      BY <2>1, <3>1, NextStageWaits DEF DisconnectContinues, SuspendAt, Running
    <3>2. CASE NextStage(n) = {} /\ state' = "CLOSED" /\ Release("full")
               /\ Goto(u, "idle") /\ UNCHANGED <<rx, hb, on>>
      BY <2>1, <3>2, NoStageLeft DEF DisconnectContinues, Goto, Running
    <3>3. QED BY <2>1, <3>1, <3>2 DEF DisconnectContinues
  <2>2. CASE DisconnectCloses(u)
    BY <2>2 DEF DisconnectCloses, Goto
  <2>3. QED BY <1>2, <2>1, <2>2 DEF DisconnectStep
<1>3. ASSUME NEW p \in Procs, ConnectStep(p) PROVE UndisturbedSession'
  <2>1. CASE DialSucceeds(p)
    BY <2>1 DEF DialSucceeds, Goto, Unused
  <2>2. CASE DialFails(p)
    BY <2>2 DEF DialFails, ConnectFails, Goto
  <2>3. CASE AuthSucceeds(p)
    BY <2>3 DEF AuthSucceeds, Goto, Record
  <2>4. CASE AuthFails(p)
    BY <2>4 DEF AuthFails, ConnectFails, Goto
  <2>5. CASE ResubscribeSucceeds(p)
    BY <2>5 DEF ResubscribeSucceeds, ReadyToSend, Goto
  <2>6. CASE ResubscribeFails(p)
    BY <2>6 DEF ResubscribeFails, ReadyToSend, ConnectFails, Goto, Record
  <2>7. CASE DialBegins(p)
    BY <2>7 DEF DialBegins, Goto
  <2>8. CASE ResubscribeSends(p)
    BY <2>8 DEF ResubscribeSends
  <2>9. QED
    BY <1>3, <2>1, <2>2, <2>3, <2>4, <2>5, <2>6, <2>7, <2>8 DEF ConnectStep
<1>4. ASSUME NEW k \in Conns, ReceiveStep(k) PROVE UndisturbedSession'
  <2>1. CASE ReceiveStops(k)
    BY <2>1 DEF ReceiveStops, ReceiveAtTest
  <2>2. CASE ReceiveAgain(k)
    BY <2>2 DEF ReceiveAgain, ReceiveAtTest
  <2>3. CASE ReceiveClosed(k)
    BY <2>3 DEF ReceiveClosed, ReceiveAtTest, HandleDisconnect, Goto, Record
  <2>4. QED BY <1>4, <2>1, <2>2, <2>3 DEF ReceiveStep
<1>5. ASSUME NEW k \in Conns, HeartbeatStep(k) PROVE UndisturbedSession'
  <2>1. CASE HeartbeatStops(k)
    BY <2>1 DEF HeartbeatStops
  <2>2. CASE HeartbeatPings(k)
    BY <2>2 DEF HeartbeatPings
  <2>3. CASE HeartbeatSleeps(k)
    BY <2>3 DEF HeartbeatSleeps
  <2>4. CASE HeartbeatTimeout(k)
    BY <2>4 DEF HeartbeatTimeout, HandleDisconnect, Goto, Record
  <2>5. QED BY <1>5, <2>1, <2>2, <2>3, <2>4 DEF HeartbeatStep
<1>6. ASSUME ReconnectStep PROVE UndisturbedSession'
  <2>1. CASE ReconnectDials
    BY <2>1 DEF ReconnectDials, AttemptsLeft, Goto, ConnectReturnsAtOnce
  <2>2. CASE ReconnectGivesUp
    BY <2>2 DEF ReconnectGivesUp, AttemptsLeft, Goto
  <2>3. CASE CancellationDelivered
    BY <2>3 DEF CancellationDelivered, Goto
  <2>4. QED BY <1>6, <2>1, <2>2, <2>3 DEF ReconnectStep
<1>7. ASSUME NEW c \in Conns, SocketDrops(c) PROVE UndisturbedSession'
  BY <1>7 DEF SocketDrops
<1>8. CASE UNCHANGED vars
  BY <1>8 DEF vars
<1>9. QED
  BY <1>1, <1>2, <1>3, <1>4, <1>5, <1>6, <1>7, <1>8 DEF Next, EventLoop

(* The types and, until two coroutines interfere, the session facts hold of *)
(* every reachable state of the client: realtime.py keeps them with nothing *)
(* but the state test of connect() and the stages of disconnect().          *)
THEOREM SessionCorrect == Spec => []SessionInvariant
<1>1. Init => SessionInvariant
  BY ConnectionAssumption, StageNames
     DEF Init, TypeOK, States, Procs, Dialing, Interference, SessionInvariant,
         UndisturbedSession, OneUserCall, OneDialer, DialerOwnsState,
         DialerOwnsSocket, DisconnectingIsDown, SessionServed,
         AttemptsRenewed, ReconnectAtTest, HeartbeatOfSession, StagesPassed,
         ClosedForGood,
         SomeDisconnecting, HeartbeatOff, HeartbeatWaiting
<1>2. SessionInvariant /\ [Next]_vars => SessionInvariant'
  BY TypePreserved, InterferenceGrows, SessionPreserved
     DEF SessionInvariant, Undisturbed
<1>3. QED
  BY <1>1, <1>2, PTL DEF Spec

(* No two coroutines dial at once while nothing has interfered: the state   *)
(* test at the head of connect() is a sufficient lock.                      *)
THEOREM DialExclusionHolds == Spec => []DialExclusion
<1>1. SessionInvariant => DialExclusion
  BY DEF SessionInvariant, DialExclusion, UndisturbedSession, OneDialer
<1>2. QED BY <1>1, SessionCorrect, PTL

(* An undisturbed client that reports is_connected has a running receive    *)
(* loop on its current socket.                                              *)
THEOREM ConnectedIsServedHolds == Spec => []ConnectedIsServed
<1>1. SessionInvariant => ConnectedIsServed
  BY DEF SessionInvariant, ConnectedIsServed, UndisturbedSession, SessionServed
<1>2. QED BY <1>1, SessionCorrect, PTL

(* A disconnect() that ran through its stages undisturbed is final.         *)
THEOREM FullDisconnectIsFinalHolds == Spec => []FullDisconnectIsFinal
<1>1. SessionInvariant => FullDisconnectIsFinal
  BY DEF SessionInvariant, FullDisconnectIsFinal, UndisturbedSession,
         ClosedForGood, HeartbeatOff, TypeOK, Procs
<1>2. QED BY <1>1, SessionCorrect, PTL

(* An undisturbed client never swaps the socket of a session in use.        *)
THEOREM ConnectedSocketStaysHolds == Spec => ConnectedSocketStays
<1>1. SessionInvariant /\ [Next]_vars =>
        [Undisturbed /\ state = "CONNECTED" => ws' \in {ws, NoConn}]_vars
  <2> SUFFICES ASSUME SessionInvariant, Next, Undisturbed,
                      state = "CONNECTED"
               PROVE  ws' \in {ws, NoConn}
    BY DEF vars
  <2> USE DEF Next, EventLoop
  <2>1. ASSUME NEW p \in Procs, DialSucceeds(p) PROVE FALSE
    BY <2>1 DEF DialSucceeds, SessionInvariant, UndisturbedSession,
                DialerOwnsState, Dialing
  <2>2. QED
    BY <2>1
       DEF UserCalls, ConnectReturns, ConnectDials, DisconnectReturns,
           DisconnectCalled, UserCancels, DisconnectStep,
           DisconnectContinues, DisconnectCloses, ConnectStep, DialFails,
           DialBegins, AuthFails, AuthSucceeds, ResubscribeSends,
           ResubscribeSucceeds, ResubscribeFails, ConnectFails, ReceiveStep, ReceiveStops, ReceiveAgain,
           ReceiveClosed, HeartbeatStep, HeartbeatStops, HeartbeatPings,
           HeartbeatSleeps, HeartbeatTimeout, ReconnectStep, ReconnectDials,
           ReconnectGivesUp, CancellationDelivered, SocketDrops
<1>2. QED BY <1>1, SessionCorrect, PTL DEF ConnectedSocketStays, Spec
=============================================================================
