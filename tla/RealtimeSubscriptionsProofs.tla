---------------------- MODULE RealtimeSubscriptionsProofs ----------------------
(***************************************************************************)
(* For any iterators, jobs and stages: the types of the registry, and that *)
(* the server has, or is about to have, what the registry says.            *)
(***************************************************************************)
EXTENDS RealtimeSubscriptions, SequenceTheorems, TLAPS

Messages == [kind : Kinds, id : Iterators]
Event == Jobs \X (1..LastStage)

\* Nothing is left to resubscribe once the lock is released, and a connection that
\* is lost has taken along what was sent on it.
LinkInvariant ==
  /\ ~resubscribing => todo = {}
  /\ link => connected
  /\ ~link => up = <<>> /\ server = {}

RegistryInvariant == TypeOK /\ LinkInvariant /\ ServerInStep

-----------------------------------------------------------------------------
(* The type invariant. *)

LEMMA RegistryStarts == Init => RegistryInvariant
<1> SUFFICES ASSUME Init PROVE RegistryInvariant
  OBVIOUS
<1>1. {connected, link, resubscribing} \subseteq BOOLEAN /\ todo \subseteq registered
      /\ registered \subseteq Iterators
  BY DEF Init
<1>2. pc \in [Iterators -> Labels] /\ pending \in [Iterators -> SUBSET Jobs]
  BY SubscriptionAssumption DEF Init, Labels
<1>3. queue \in [Iterators -> Seq(Jobs \X (1..LastStage))]
  BY DEF Init
<1>4. up \in Seq([kind : Kinds, id : Iterators]) /\ down \in Seq(Jobs \X (1..LastStage))
  BY DEF Init
<1>5. server \subseteq Iterators /\ stage \in [Jobs -> 0..LastStage]
  BY SubscriptionAssumption DEF Init
<1>6. TypeOK
  BY <1>1, <1>2, <1>3, <1>4, <1>5 DEF TypeOK
<1>7. QED
  BY <1>6 DEF Init, RegistryInvariant, LinkInvariant, ServerInStep

(* The first events of a list. *)
LEMMA FirstEvents ==
  ASSUME NEW S, NEW s \in Seq(S), NEW n \in 0..Len(s)
  PROVE  SubSeq(s, 1, n) \in Seq(S)
<1>1. Len(s) \in Nat /\ \A i \in 1..Len(s) : s[i] \in S
  BY LenProperties, ElementOfSeq
<1>2. QED
  BY <1>1, SubSeqProperties, Z3

(* What connect() and the network do to the types. *)
LEMMA LinkTypes ==
  ASSUME RegistryInvariant,
         Connect \/ Resubscribe \/ SocketDrops \/ LossNoticed \/ HeartbeatLost
  PROVE  TypeOK'
<1> USE DEF RegistryInvariant
<1>1. CASE Connect
  BY <1>1 DEF Connect, TypeOK
<1>2. CASE ResubscribeEnds
  BY <1>2 DEF ResubscribeEnds, TypeOK
<1>3. CASE ResubscribeFails
  <2>1. down' \in Seq(Event)
    BY <1>3, FirstEvents DEF ResubscribeFails, ReceiveLoopStops, TypeOK, Event
  <2>2. QED
    BY <1>3, <2>1 DEF ResubscribeFails, TypeOK, Event
<1>4. ASSUME NEW i \in Iterators, ResubscribeSends(i) PROVE TypeOK'
  <2>1. Message("subscribe", i) \in Messages
    BY DEF Message, Messages, Kinds
  <2>2. up' \in Seq(Messages)
    BY <1>4, <2>1, AppendProperties DEF ResubscribeSends, TypeOK, Messages
  <2>3. QED
    BY <1>4, <2>2 DEF ResubscribeSends, TypeOK, Messages
<1>5. CASE SocketDrops
  <2>0. down \in Seq(Event) /\ \E n \in 0..Len(down) : down' = SubSeq(down, 1, n)
    BY <1>5 DEF SocketDrops, TypeOK, Event
  <2>1. down' \in Seq(Event)
    BY <2>0, FirstEvents
  <2>2. pc' \in [Iterators -> Labels]
    <3>1. ASSUME NEW i \in Iterators
          PROVE  (CASE pc[i] = "subscribe"   -> "subscribe broken"
                    [] pc[i] = "unsubscribe" -> "unsubscribe broken"
                    [] OTHER -> pc[i]) \in Labels
      BY DEF TypeOK, Labels
    <3>2. QED
      BY <1>5, <3>1 DEF SocketDrops
  <2>3. up' \in Seq(Messages)
    BY <1>5, EmptySeq DEF SocketDrops
  <2>4. QED
    BY <1>5, <2>1, <2>2, <2>3 DEF SocketDrops, TypeOK, Event, Messages
<1>6. CASE LossNoticed
  BY <1>6 DEF LossNoticed, TypeOK
<1>7. CASE HeartbeatLost
  <2>1. down' \in Seq(Event)
    BY <1>7, FirstEvents DEF HeartbeatLost, ReceiveLoopStops, TypeOK, Event
  <2>2. up' \in Seq(Messages)
    BY <1>7 DEF HeartbeatLost
  <2>3. QED
    BY <1>7, <2>1, <2>2 DEF HeartbeatLost, TypeOK, Event, Messages
<1>8. QED
  BY <1>1, <1>2, <1>3, <1>4, <1>5, <1>6, <1>7 DEF Resubscribe

(* What is sent after the registry has changed. *)
LEMMA AnnounceTypes ==
  ASSUME TypeOK, NEW i \in Iterators, NEW kind \in Kinds, NEW done \in Labels,
         Announce(i, kind, done)
  PROVE  up' \in Seq(Messages) /\ pc' \in [Iterators -> Labels]
<1>1. Message(kind, i) \in Messages /\ kind \in Labels /\ "raised" \in Labels
  BY DEF Message, Messages, Kinds, Labels
<1>2. up \in Seq(Messages) /\ pc \in [Iterators -> Labels]
  BY DEF TypeOK, Messages
<1>3. up' \in Seq(Messages)
  BY <1>1, <1>2, AppendProperties DEF Announce
<1>4. pc' \in [Iterators -> Labels]
  BY <1>1, <1>2 DEF Announce, Goto
<1>5. QED
  BY <1>3, <1>4

(* What an iterator does to the types. *)
LEMMA IteratorTypes ==
  ASSUME RegistryInvariant, NEW i \in Iterators,
         Iterate(i) \/ LockedStep(i) \/ SendEnds(i) \/ Consume(i) \/ Break(i)
  PROVE  TypeOK'
<1> USE DEF RegistryInvariant
<1>1. CASE Iterate(i) \/ Break(i) \/ SendEnds(i)
  BY <1>1 DEF Iterate, Break, SendEnds, Goto, TypeOK, Labels
<1>2. CASE Register(i)
  <2>1. up' \in Seq(Messages) /\ pc' \in [Iterators -> Labels]
    BY <1>2, AnnounceTypes DEF Register, Kinds, Labels
  <2>2. QED
    BY <1>2, <2>1 DEF Register, TypeOK, Messages
<1>3. CASE Unregister(i)
  <2>1. up' \in Seq(Messages) /\ pc' \in [Iterators -> Labels]
    BY <1>3, AnnounceTypes DEF Unregister, Kinds, Labels
  <2>2. queue' \in [Iterators -> Seq(Event)]
    BY <1>3 DEF Unregister, TypeOK, Event
  <2>3. todo' \subseteq registered'
    BY <1>3 DEF Unregister, LinkInvariant
  <2>4. QED
    BY <1>3, <2>1, <2>2, <2>3 DEF Unregister, TypeOK, Messages, Event
<1>4. CASE Consume(i)
  <2>1. queue[i] \in Seq(Event) /\ queue[i] # <<>>
    BY <1>4 DEF Consume, TypeOK, Event
  <2>2. Tail(queue[i]) \in Seq(Event)
    BY <2>1, HeadTailProperties
  <2>3. queue' \in [Iterators -> Seq(Event)]
    BY <1>4, <2>2 DEF Consume, TypeOK, Event
  <2>4. pending' \in [Iterators -> SUBSET Jobs]
    BY <1>4 DEF Consume, TypeOK
  <2>5. pc' \in [Iterators -> Labels]
    BY <1>4 DEF Consume, Goto, TypeOK, Labels
  <2>6. QED
    BY <1>4, <2>3, <2>4, <2>5 DEF Consume, TypeOK, Event
<1>5. QED
  BY <1>1, <1>2, <1>3, <1>4 DEF LockedStep

(* What routing, the server and the jobs do to the types. *)
LEMMA ServerTypes ==
  ASSUME RegistryInvariant,
         Route \/ ServerHandles \/ \E j \in Jobs : JobAdvances(j)
  PROVE  TypeOK'
<1> USE DEF RegistryInvariant
<1>1. CASE Route
  <2>1. down \in Seq(Event) /\ down # <<>>
    BY <1>1 DEF Route, TypeOK, Event
  <2>2. Head(down) \in Event /\ down' \in Seq(Event)
    BY <1>1, <2>1, HeadTailProperties DEF Route
  <2>3. \A i \in Iterators : /\ queue[i] \in Seq(Event)
                             /\ Append(queue[i], Head(down)) \in Seq(Event)
    BY <2>2, AppendProperties DEF TypeOK, Event
  <2>4. queue' \in [Iterators -> Seq(Event)]
    BY <1>1, <2>3 DEF Route
  <2>5. QED
    BY <1>1, <2>2, <2>4 DEF Route, TypeOK, Event
<1>2. CASE ServerHandles
  <2>1. up \in Seq(Messages) /\ up # <<>>
    BY <1>2 DEF ServerHandles, TypeOK, Messages
  <2>2. Head(up) \in Messages /\ up' \in Seq(Messages)
    BY <1>2, <2>1, HeadTailProperties DEF ServerHandles
  <2>3. server' \subseteq Iterators
    BY <1>2, <2>2 DEF ServerHandles, TypeOK, Messages
  <2>4. QED
    BY <1>2, <2>2, <2>3 DEF ServerHandles, TypeOK, Messages
<1>3. ASSUME NEW j \in Jobs, JobAdvances(j) PROVE TypeOK'
  <2>1. stage[j] \in 0..LastStage /\ stage[j] + 1 \in 1..LastStage
    BY <1>3, SubscriptionAssumption DEF JobAdvances, TypeOK
  <2>2. down' \in Seq(Event)
    BY <1>3, <2>1, AppendProperties DEF JobAdvances, TypeOK, Event
  <2>3. stage' \in [Jobs -> 0..LastStage]
    BY <1>3, <2>1, SubscriptionAssumption DEF JobAdvances, TypeOK
  <2>4. QED
    BY <1>3, <2>2, <2>3 DEF JobAdvances, TypeOK, Event
<1>4. QED
  BY <1>1, <1>2, <1>3
-----------------------------------------------------------------------------
(* What the server will have been told. *)

(* A message changes this for the subscription that it names. *)
LEMMA ToldAppended ==
  ASSUME up \in Seq(Messages), NEW i \in Iterators, NEW kind \in Kinds, NEW j \in Iterators,
         up' = Append(up, Message(kind, i)), server' = server
  PROVE  Told(j)' <=> IF j = i THEN kind = "subscribe" ELSE Told(j)
<1> DEFINE m == Message(kind, i)
           n == Len(up)
<1>1. m \in Messages /\ m.id = i /\ m.kind = kind
  BY DEF Message, Messages
<1>2. n \in Nat /\ \A k \in 1..n : up[k] \in Messages
  BY LenProperties, ElementOfSeq
<1>3. Len(up') = n + 1 /\ up'[n + 1] = m /\ \A k \in 1..n : up'[k] = up[k]
  BY <1>1, AppendProperties
<1>4. CASE j = i
  <2>1. Told(j)' => kind = "subscribe"
    BY <1>1, <1>2, <1>3, <1>4 DEF Told, Message
  <2>2. kind = "subscribe" => Told(j)'
    BY <1>1, <1>2, <1>3, <1>4 DEF Told, Message
  <2>3. QED
    BY <1>4, <2>1, <2>2
<1>5. CASE j # i
  <2>1. Told(j)' => Told(j)
    BY <1>1, <1>2, <1>3, <1>5 DEF Told, Message
  <2>2. Told(j) => Told(j)'
    BY <1>1, <1>2, <1>3, <1>5 DEF Told, Message
  <2>3. QED
    BY <1>5, <2>1, <2>2
<1>6. QED
  BY <1>4, <1>5

(* Whether the messages s say nothing of i, or end with the wish to subscribe it. *)
Silent(s, i) == \A n \in 1..Len(s) : s[n].id # i

Subscribes(s, i) == \E n \in 1..Len(s) : /\ s[n] = Message("subscribe", i)
                                         /\ \A m \in (n + 1)..Len(s) : s[m].id # i

LEMMA WithoutFirst ==
  ASSUME NEW s \in Seq(Messages), s # <<>>, NEW i \in Iterators
  PROVE  /\ Silent(s, i) <=> Head(s).id # i /\ Silent(Tail(s), i)
         /\ Subscribes(s, i) <=> \/ Subscribes(Tail(s), i)
                                 \/ Head(s) = Message("subscribe", i) /\ Silent(Tail(s), i)
<1> DEFINE r == Tail(s)
           h == Head(s)
           n == Len(s) - 1
<1>1. n \in Nat /\ Len(s) = n + 1 /\ Len(r) = n /\ h = s[1]
      /\ \A k \in 1..n : r[k] = s[k + 1]
  BY HeadTailProperties, LenProperties, EmptySeq
<1> HIDE DEF r, h, n
<1>2. \A k \in 2..(n + 1) : k - 1 \in 1..n /\ s[k] = r[k - 1]
  BY <1>1
<1>3. Silent(s, i) <=> h.id # i /\ Silent(r, i)
  <2>1. Silent(s, i) => h.id # i /\ Silent(r, i)
    BY <1>1 DEF Silent
  <2>2. h.id # i /\ Silent(r, i) => Silent(s, i)
    <3>1. \A k \in 1..(n + 1) : k = 1 \/ k \in 2..(n + 1)
      BY <1>1
    <3>2. QED
      BY <1>1, <1>2, <3>1 DEF Silent
  <2>3. QED
    BY <2>1, <2>2
<1>4. ASSUME Subscribes(r, i) PROVE Subscribes(s, i)
  <2>1. PICK k \in 1..n : /\ r[k] = Message("subscribe", i)
                          /\ \A l \in (k + 1)..n : r[l].id # i
    BY <1>1, <1>4 DEF Subscribes
  <2>2. \A l \in (k + 2)..(n + 1) : l - 1 \in (k + 1)..n /\ s[l] = r[l - 1]
    BY <1>1
  <2>3. k + 1 \in 1..(n + 1) /\ s[k + 1] = Message("subscribe", i) /\ (k + 1) + 1 = k + 2
    BY <1>1, <2>1
  <2>4. QED
    BY <1>1, <2>1, <2>2, <2>3 DEF Subscribes
<1>5. ASSUME h = Message("subscribe", i), Silent(r, i) PROVE Subscribes(s, i)
  <2>1. 1 \in 1..(n + 1) /\ s[1] = Message("subscribe", i)
    BY <1>1, <1>5
  <2>2. \A l \in (1 + 1)..(n + 1) : s[l].id # i
    BY <1>1, <1>2, <1>5 DEF Silent
  <2>3. QED
    BY <1>1, <2>1, <2>2 DEF Subscribes
<1>6. ASSUME Subscribes(s, i)
      PROVE  Subscribes(r, i) \/ (h = Message("subscribe", i) /\ Silent(r, i))
  <2>1. PICK k \in 1..(n + 1) : /\ s[k] = Message("subscribe", i)
                                /\ \A l \in (k + 1)..(n + 1) : s[l].id # i
    BY <1>1, <1>6 DEF Subscribes
  <2>2. CASE k = 1
    <3>1. \A l \in 1..n : l + 1 \in 2..(n + 1)
      BY <1>1
    <3>2. QED
      BY <1>1, <2>1, <2>2, <3>1 DEF Silent
  <2>3. CASE k # 1
    <3>1. k - 1 \in 1..n /\ r[k - 1] = Message("subscribe", i) /\ (k - 1) + 1 = k
      BY <1>1, <2>1, <2>3
    <3>2. \A l \in k..n : l + 1 \in (k + 1)..(n + 1) /\ r[l] = s[l + 1]
      BY <1>1, <2>1
    <3>3. \A l \in k..n : r[l].id # i
      BY <2>1, <3>2
    <3>4. QED
      BY <1>1, <3>1, <3>3 DEF Subscribes
  <2>4. QED
    BY <2>2, <2>3
<1>7. QED
  BY <1>3, <1>4, <1>5, <1>6 DEF r, h

(* Handling a message changes nothing of it. *)
LEMMA ToldHandled ==
  ASSUME up \in Seq(Messages), ServerHandles, NEW i \in Iterators
  PROVE  Told(i)' <=> Told(i)
<1> DEFINE m == Head(up)
           r == Tail(up)
<1>1. up # <<>> /\ up' = r
      /\ server' = IF m.kind = "subscribe" THEN server \cup {m.id} ELSE server \ {m.id}
  BY DEF ServerHandles
<1>2. m \in Messages
  BY <1>1, HeadTailProperties
<1>3. m = Message("subscribe", i) <=> m.kind = "subscribe" /\ m.id = i
  BY <1>2 DEF Messages, Message
<1>4. Told(i) <=> Subscribes(up, i) \/ (i \in server /\ Silent(up, i))
  BY DEF Told, Subscribes, Silent
<1>5. Told(i)' <=> Subscribes(r, i) \/ (i \in server' /\ Silent(r, i))
  BY <1>1 DEF Told, Subscribes, Silent
<1>6. Silent(up, i) <=> m.id # i /\ Silent(r, i)
  BY <1>1, WithoutFirst
<1>7. Subscribes(up, i) <=> \/ Subscribes(r, i)
                            \/ m = Message("subscribe", i) /\ Silent(r, i)
  BY <1>1, WithoutFirst
<1> HIDE DEF m, r
<1>8. QED
  BY <1>1, <1>3, <1>4, <1>5, <1>6, <1>7
-----------------------------------------------------------------------------
(* The steps. *)

(* Nothing is registered, sent or handled. *)
LEMMA RegistryUntouched ==
  ASSUME RegistryInvariant, TypeOK',
         UNCHANGED <<connected, link, resubscribing, todo, registered, up, server>>
  PROVE  RegistryInvariant'
BY DEF RegistryInvariant, LinkInvariant, ServerInStep, Told

LEMMA ConnectInStep == ASSUME RegistryInvariant, TypeOK', Connect PROVE RegistryInvariant'
<1>1. /\ ~connected /\ connected' /\ link' /\ resubscribing'
      /\ todo' = registered /\ UNCHANGED <<registered, up, server>>
  BY DEF Connect
<1>2. up = <<>> /\ server = {}
  BY <1>1 DEF RegistryInvariant, LinkInvariant
<1>3. LinkInvariant'
  BY <1>1 DEF LinkInvariant
<1>4. \A i \in Iterators : ~Told(i)'
  BY <1>1, <1>2 DEF Told
<1>5. QED
  BY <1>1, <1>3, <1>4 DEF RegistryInvariant, ServerInStep

LEMMA ResubscribeInStep ==
  ASSUME RegistryInvariant, TypeOK', Resubscribe
  PROVE  RegistryInvariant'
<1>1. CASE ResubscribeEnds
  BY <1>1 DEF ResubscribeEnds, RegistryInvariant, LinkInvariant, ServerInStep, Told
<1>2. CASE ResubscribeFails
  BY <1>2 DEF ResubscribeFails, RegistryInvariant, LinkInvariant, ServerInStep
<1>3. ASSUME NEW i \in Iterators, ResubscribeSends(i) PROVE RegistryInvariant'
  <2>1. /\ link /\ resubscribing /\ i \in todo /\ todo' = todo \ {i}
        /\ up' = Append(up, Message("subscribe", i))
        /\ UNCHANGED <<connected, link, resubscribing, registered, server>>
    BY <1>3 DEF ResubscribeSends
  <2>2. LinkInvariant'
    BY <2>1 DEF RegistryInvariant, LinkInvariant
  <2>3. up \in Seq(Messages) /\ todo \subseteq registered
    BY DEF RegistryInvariant, TypeOK, Messages
  <2>4. connected /\ \A j \in Iterators : Told(j) <=> j \in registered \ todo
    BY <2>1 DEF RegistryInvariant, LinkInvariant, ServerInStep
  <2>5. ASSUME NEW j \in Iterators PROVE Told(j)' <=> j = i \/ Told(j)
    BY <2>1, <2>3, ToldAppended DEF Kinds
  <2>6. \A j \in Iterators : Told(j)' <=> j \in registered' \ todo'
    BY <2>1, <2>3, <2>4, <2>5
  <2>7. QED
    BY <2>2, <2>6 DEF RegistryInvariant, ServerInStep
<1>4. QED
  BY <1>1, <1>2, <1>3 DEF Resubscribe

(* What is sent on a connection that breaks is lost with it. *)
LEMMA LinkLost ==
  ASSUME RegistryInvariant, TypeOK', SocketDrops \/ LossNoticed \/ HeartbeatLost
  PROVE  RegistryInvariant'
<1>1. /\ ~link' /\ up' = <<>> /\ server' = {}
      /\ UNCHANGED <<todo, resubscribing>>
  <2>1. CASE SocketDrops
    BY <2>1 DEF SocketDrops
  <2>2. CASE LossNoticed
    <3>1. ~link /\ UNCHANGED <<link, up, server, todo, resubscribing>>
      BY <2>2 DEF LossNoticed
    <3>2. QED
      BY <3>1 DEF RegistryInvariant, LinkInvariant
  <2>3. CASE HeartbeatLost
    BY <2>3 DEF HeartbeatLost
  <2>4. QED
    BY <2>1, <2>2, <2>3
<1>2. QED
  BY <1>1 DEF RegistryInvariant, LinkInvariant, ServerInStep

(* The registry changes under the lock, and what is said of it is sent with it. *)
LEMMA LockedInStep ==
  ASSUME RegistryInvariant, TypeOK', NEW i \in Iterators, LockedStep(i)
  PROVE  RegistryInvariant'
<1>1. PICK kind \in Kinds, done \in Labels :
        /\ ~resubscribing /\ Announce(i, kind, done)
        /\ registered' = IF kind = "subscribe" THEN registered \cup {i} ELSE registered \ {i}
        /\ UNCHANGED <<connected, link, resubscribing, todo, server>>
  <2>1. CASE Register(i)
    BY <2>1 DEF Register, Kinds, Labels
  <2>2. CASE Unregister(i)
    BY <2>2 DEF Unregister, Kinds, Labels
  <2>3. QED
    BY <2>1, <2>2 DEF LockedStep
<1>2. todo = {} /\ (link => connected) /\ (~link => up = <<>> /\ server = {})
  BY <1>1 DEF RegistryInvariant, LinkInvariant
<1>3. CASE ~link
  <2>1. up' = up
    BY <1>1, <1>3 DEF Announce
  <2>2. QED
    BY <1>1, <1>2, <1>3, <2>1 DEF RegistryInvariant, LinkInvariant, ServerInStep
<1>4. CASE link
  <2>1. connected /\ up' = Append(up, Message(kind, i))
    BY <1>1, <1>2, <1>4 DEF Announce
  <2>2. up \in Seq(Messages)
    BY DEF RegistryInvariant, TypeOK, Messages
  <2>3. \A j \in Iterators : Told(j) <=> j \in registered
    BY <1>2, <1>4, <2>1 DEF RegistryInvariant, ServerInStep
  <2>4. ASSUME NEW j \in Iterators
        PROVE  Told(j)' <=> IF j = i THEN kind = "subscribe" ELSE Told(j)
    BY <1>1, <2>1, <2>2, ToldAppended
  <2>5. \A j \in Iterators : Told(j)' <=> j \in registered' \ todo'
    BY <1>1, <1>2, <2>3, <2>4
  <2>6. LinkInvariant'
    BY <1>1, <1>2, <1>4 DEF LinkInvariant
  <2>7. QED
    BY <2>5, <2>6 DEF RegistryInvariant, ServerInStep
<1>5. QED
  BY <1>3, <1>4

LEMMA ServerStaysInStep ==
  ASSUME RegistryInvariant, TypeOK', ServerHandles
  PROVE  RegistryInvariant'
<1>1. link /\ UNCHANGED <<connected, link, resubscribing, todo, registered>>
  BY DEF ServerHandles
<1>2. up \in Seq(Messages)
  BY DEF RegistryInvariant, TypeOK, Messages
<1>3. ASSUME NEW i \in Iterators PROVE Told(i)' <=> Told(i)
  BY <1>2, ToldHandled
<1>4. QED
  BY <1>1, <1>3 DEF RegistryInvariant, LinkInvariant, ServerInStep

LEMMA RegistryStep == RegistryInvariant /\ [Next]_vars => RegistryInvariant'
<1> SUFFICES ASSUME RegistryInvariant, [Next]_vars PROVE RegistryInvariant'
  OBVIOUS
<1>1. CASE UNCHANGED vars
  <2>1. TypeOK'
    BY <1>1 DEF vars, RegistryInvariant, TypeOK
  <2>2. QED
    BY <1>1, <2>1, RegistryUntouched DEF vars
<1>2. CASE Connect
  BY <1>2, LinkTypes, ConnectInStep
<1>3. CASE Resubscribe
  BY <1>3, LinkTypes, ResubscribeInStep
<1>4. CASE SocketDrops \/ LossNoticed \/ HeartbeatLost
  BY <1>4, LinkTypes, LinkLost
<1>5. ASSUME NEW i \in Iterators, LockedStep(i) PROVE RegistryInvariant'
  BY <1>5, IteratorTypes, LockedInStep
<1>6. ASSUME NEW i \in Iterators, Iterate(i) \/ SendEnds(i) \/ Consume(i) \/ Break(i)
      PROVE  RegistryInvariant'
  <2>1. UNCHANGED <<connected, link, resubscribing, todo, registered, up, server>>
    BY <1>6 DEF Iterate, SendEnds, Consume, Break
  <2>2. QED
    BY <1>6, <2>1, IteratorTypes, RegistryUntouched
<1>7. CASE ServerHandles
  BY <1>7, ServerTypes, ServerStaysInStep
<1>8. CASE Route \/ \E j \in Jobs : JobAdvances(j)
  <2>1. UNCHANGED <<connected, link, resubscribing, todo, registered, up, server>>
    BY <1>8 DEF Route, JobAdvances
  <2>2. QED
    BY <1>8, <2>1, ServerTypes, RegistryUntouched
<1>9. QED
  BY <1>1, <1>2, <1>3, <1>4, <1>5, <1>6, <1>7, <1>8 DEF Next

LEMMA RegistryKept == Spec => []RegistryInvariant
BY RegistryStarts, RegistryStep, PTL DEF Spec

(* For any iterators and jobs: what _subscriptions, the queues, the two channels and
   the iterators hold has its type; in particular _resubscribe_all() has nothing left
   to send that is not registered. *)
THEOREM SubscriptionTypes == Spec => []TypeOK
<1>1. RegistryInvariant => TypeOK
  BY DEF RegistryInvariant
<1>2. QED
  BY <1>1, RegistryKept, PTL

(* On a live connection, the server has or is about to have exactly what is registered
   and not about to be resubscribed. *)
THEOREM ServerStays == Spec => []ServerInStep
<1>1. RegistryInvariant => ServerInStep
  BY DEF RegistryInvariant
<1>2. QED
  BY <1>1, RegistryKept, PTL
=============================================================================
