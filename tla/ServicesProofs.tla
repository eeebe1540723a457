---------------------------- MODULE ServicesProofs ----------------------------
(***************************************************************************)
(* For any coroutines and sessions: the HTTP client forgets no open        *)
(* session.  For any callers and answers: who waits for a job and gives up *)
(* has waited as long as it said.  For any threads of a subscription: each *)
(* calls back with what is current, the latest value is as recent as any,  *)
(* and each calls back once more at most after unsubscribe().  And the     *)
(* types of all three services together.                                   *)
(***************************************************************************)
EXTENDS MCServices, SequenceLemmas

\* A close() that is suspended is the only one, and closes the current session;
\* the current session is closed only then.
OneCloser ==
  /\ \A t \in Tasks : task[t].at = "closes" =>
       /\ client # NoSession /\ task[t] = [at |-> "closes", on |-> client, attempt |-> 0]
       /\ session[client] = "closed"
       /\ \A u \in Tasks : task[u].at = "closes" => u = t
  /\ client # NoSession /\ session[client] # "open" => session[client] = "closed" /\ Closing
  /\ \A s \in Sessions : session[s] = "open" => client = s

Task == [at : Outcomes \cup {"closes", "requests"}, on : Sessions \cup {NoSession},
         attempt : 0..MaxAttempts]

SessionInvariant == HttpTypeOK /\ disturbed \in BOOLEAN /\ (~disturbed => OneCloser)

LEMMA Outcome ==
  ASSUME NEW outcome \in Outcomes
  PROVE  Ended(outcome) \in Task /\ Ended(outcome).at \notin {"closes", "requests"}
  BY HttpAssumption DEF Ended, Task, Outcomes

LEMMA SessionStart == HttpInit => SessionInvariant
<1> SUFFICES ASSUME HttpInit PROVE SessionInvariant
  OBVIOUS
<1>1. "done" \in Outcomes
  BY DEF Outcomes
<1>2. \A t \in Tasks : task[t].at # "closes"
  BY <1>1, Outcome DEF HttpInit
<1>3. OneCloser
  BY <1>2, HttpAssumption DEF HttpInit, OneCloser
<1>4. HttpTypeOK
  BY <1>1, Outcome DEF HttpInit, HttpTypeOK, Task
<1>5. QED
  BY <1>3, <1>4 DEF HttpInit, SessionInvariant

(* A step that leaves the sessions alone, of a coroutine that is not in close(). *)
LEMMA OthersKeep ==
  ASSUME SessionInvariant, NEW t \in Tasks, NEW there \in Task,
         task[t].at # "closes", there.at # "closes",
         task' = [task EXCEPT ![t] = there],
         UNCHANGED <<client, session, disturbed>>
  PROVE  SessionInvariant'
<1>1. HttpTypeOK' /\ disturbed' \in BOOLEAN
  BY DEF SessionInvariant, HttpTypeOK, Task
<1>2. \A u \in Tasks : /\ task'[u].at = "closes" <=> task[u].at = "closes"
                       /\ task[u].at = "closes" => task'[u] = task[u]
  BY DEF SessionInvariant, HttpTypeOK
<1>3. Closing' <=> Closing
  BY <1>2 DEF Closing
<1>4. ASSUME ~disturbed' PROVE OneCloser'
  <2>1. OneCloser
    BY <1>4 DEF SessionInvariant
  <2>2. QED
    BY <1>2, <1>3, <2>1 DEF OneCloser
<1>5. QED
  BY <1>1, <1>4 DEF SessionInvariant

LEMMA ConnectKeeps ==
  ASSUME SessionInvariant, NEW t \in Tasks, Connect(t)
  PROVE  SessionInvariant'
<1>1. "done" \in Outcomes /\ Ended("done") \in Task /\ Ended("done").at # "closes"
  BY Outcome DEF Outcomes
<1>2. task' = [task EXCEPT ![t] = Ended("done")] /\ task[t].at # "closes"
  BY DEF Connect, Free, Outcomes
<1>3. HttpTypeOK' /\ disturbed' \in BOOLEAN
  <2>1. task' \in [Tasks -> Task]
    BY <1>1, <1>2 DEF SessionInvariant, HttpTypeOK, Task
  <2>2. /\ client' \in Sessions \cup {NoSession}
        /\ session' \in [Sessions -> {"unused", "open", "closed"}]
    <3>1. CASE client # NoSession /\ UNCHANGED <<client, session>>
      BY <3>1 DEF SessionInvariant, HttpTypeOK
    <3>2. CASE ~(client # NoSession /\ UNCHANGED <<client, session>>)
      BY <3>2 DEF Connect, SessionInvariant, HttpTypeOK
    <3>3. QED
      BY <3>1, <3>2
  <2>3. disturbed' = (disturbed \/ Closing)
    BY Zenon DEF Connect
  <2>4. disturbed' \in BOOLEAN
    BY <2>3, Zenon
  <2>5. QED
    BY <2>1, <2>2, <2>4 DEF HttpTypeOK, Task
<1>4. ASSUME ~disturbed' PROVE OneCloser'
  <2>1. ~disturbed /\ ~Closing /\ OneCloser
    BY <1>4 DEF Connect, SessionInvariant
  <2>2. \A u \in Tasks : task'[u].at # "closes"
    BY <1>1, <1>2, <2>1 DEF Closing, SessionInvariant, HttpTypeOK
  <2>3. client' # NoSession /\ session'[client'] = "open"
    <3>1. CASE client # NoSession /\ UNCHANGED <<client, session>>
      BY <2>1, <3>1 DEF OneCloser
    <3>2. CASE ~(client # NoSession /\ UNCHANGED <<client, session>>)
      BY <3>2, HttpAssumption DEF Connect, SessionInvariant, HttpTypeOK
    <3>3. QED
      BY <3>1, <3>2
  <2>4. \A s \in Sessions : session'[s] = "open" => client' = s
    BY <2>1, HttpAssumption DEF Connect, OneCloser, SessionInvariant, HttpTypeOK
  <2>5. QED
    BY <2>2, <2>3, <2>4 DEF OneCloser
<1>5. QED
  BY <1>3, <1>4 DEF SessionInvariant

LEMMA CloseKeeps ==
  ASSUME SessionInvariant, NEW t \in Tasks,
         CloseStarts(t) \/ CloseEnds(t) \/ CloseFails(t)
  PROVE  SessionInvariant'
<1>1. /\ Ended("done") \in Task /\ Ended("done").at # "closes"
      /\ Ended("failed") \in Task
  BY Outcome DEF Outcomes
<1>2. CASE CloseStarts(t)
  <2> DEFINE there == [at |-> "closes", on |-> client, attempt |-> 0]
  <2>1. there \in Task /\ there.at = "closes" /\ client \in Sessions
    BY <1>2, HttpAssumption DEF CloseStarts, SessionInvariant, HttpTypeOK, Task
  <2>2. /\ session' = [session EXCEPT ![client] = "closed"]
        /\ task[t].at # "closes" /\ client \in Sessions
    BY <1>2, <2>1 DEF CloseStarts, Free, Outcomes
  <2>3. \/ task' = [task EXCEPT ![t] = there] /\ client' = client
        \/ /\ task' = [task EXCEPT ![t] = Ended("done")] /\ client' = NoSession
           /\ session[client] = "closed"
    BY <1>2 DEF CloseStarts
  <2> HIDE DEF there
  <2>4. HttpTypeOK' /\ disturbed' \in BOOLEAN
    BY <1>1, <1>2, <2>1, <2>2, <2>3 DEF CloseStarts, SessionInvariant, HttpTypeOK, Task,
       Closing
  <2>5. ASSUME ~disturbed' PROVE OneCloser'
    <3>1. ~disturbed /\ ~Closing /\ OneCloser
      BY <1>2, <2>5 DEF CloseStarts, SessionInvariant
    <3>2. session[client] # "closed"
      BY <1>2, <3>1 DEF CloseStarts, OneCloser
    <3>3. task' = [task EXCEPT ![t] = there] /\ client' = client
      BY <2>3, <3>2
    <3>4. \A u \in Tasks : task'[u].at = "closes" <=> u = t
      BY <2>1, <3>1, <3>3 DEF Closing, SessionInvariant, HttpTypeOK
    <3>5. task'[t] = [at |-> "closes", on |-> client', attempt |-> 0]
      BY <3>3 DEF SessionInvariant, HttpTypeOK, there
    <3>6. session'[client'] = "closed" /\ client' # NoSession
      BY <2>2, <3>3, HttpAssumption DEF SessionInvariant, HttpTypeOK
    <3>7. \A s \in Sessions : session'[s] # "open"
      BY <2>2, <3>1 DEF OneCloser, SessionInvariant, HttpTypeOK
    <3>8. QED
      BY <3>4, <3>5, <3>6, <3>7 DEF OneCloser, Closing
  <2>6. QED
    BY <2>4, <2>5 DEF SessionInvariant
<1>3. CASE CloseEnds(t)
  <2>1. /\ task' = [task EXCEPT ![t] = Ended("done")] /\ client' = NoSession
        /\ session' = session /\ disturbed' = disturbed /\ task[t].at = "closes"
    BY <1>3 DEF CloseEnds
  <2>2. HttpTypeOK' /\ disturbed' \in BOOLEAN
    BY <1>1, <2>1 DEF SessionInvariant, HttpTypeOK, Task
  <2>3. ASSUME ~disturbed' PROVE OneCloser'
    <3>1. OneCloser
      BY <2>1, <2>3 DEF SessionInvariant
    <3>2. \A u \in Tasks : task'[u].at # "closes"
      BY <1>1, <2>1, <3>1 DEF OneCloser, SessionInvariant, HttpTypeOK
    <3>3. \A s \in Sessions : session'[s] # "open"
      BY <2>1, <3>1 DEF OneCloser
    <3>4. QED
      BY <2>1, <3>2, <3>3 DEF OneCloser
  <2>4. QED
    BY <2>2, <2>3 DEF SessionInvariant
<1>4. CASE CloseFails(t)
  <2>1. HttpTypeOK' /\ disturbed' = TRUE
    BY <1>1, <1>4 DEF CloseFails, SessionInvariant, HttpTypeOK, Task
  <2>2. QED
    BY <2>1 DEF SessionInvariant
<1>5. QED
  BY <1>2, <1>3, <1>4

LEMMA RequestKeeps ==
  ASSUME SessionInvariant, NEW t \in Tasks,
         Request(t) \/ Answer(t) \/ RequestFails(t)
  PROVE  SessionInvariant'
<1>1. task[t].at # "closes" /\ UNCHANGED <<client, session, disturbed>>
  BY DEF Request, Answer, RequestFails, Free, Outcomes
<1>2. /\ 1 \in 0..MaxAttempts /\ task[t].attempt \in 0..MaxAttempts
      /\ MaxAttempts \in Nat /\ NoSession \notin Sessions
      /\ client \in Sessions \cup {NoSession}
  BY HttpAssumption DEF SessionInvariant, HttpTypeOK
<1>3. \A o \in {"answered", "rejected", "not_connected", "closed"} :
        Ended(o) \in Task /\ Ended(o).at # "closes"
  BY Outcome DEF Outcomes
<1>4. ASSUME NEW n \in 0..MaxAttempts, Sent(t, n)
      PROVE  \E there \in Task :
               there.at # "closes" /\ task' = [task EXCEPT ![t] = there]
  <2> DEFINE on == [at |-> "requests", on |-> client, attempt |-> n]
  <2>1. client # NoSession => on \in Task /\ on.at # "closes"
    BY <1>2 DEF Task
  <2>2. task' = [task EXCEPT ![t] = IF client = NoSession THEN Ended("not_connected")
                   ELSE IF session[client] = "closed" THEN Ended("closed") ELSE on]
    BY <1>4 DEF Sent
  <2> HIDE DEF on
  <2>3. QED
    BY <1>3, <2>1, <2>2
<1>5. \E there \in Task :
        there.at # "closes" /\ task' = [task EXCEPT ![t] = there]
  <2>1. CASE Request(t)
    BY <1>2, <1>4, <2>1 DEF Request
  <2>2. CASE Answer(t)
    BY <1>3, <2>2 DEF Answer
  <2>3. CASE RequestFails(t)
    <3>1. ASSUME task[t].attempt < MaxAttempts, Sent(t, task[t].attempt + 1)
          PROVE  \E there \in Task :
                   there.at # "closes" /\ task' = [task EXCEPT ![t] = there]
      <4>1. task[t].attempt + 1 \in 0..MaxAttempts
        BY <1>2, <3>1
      <4>2. QED
        BY <1>4, <3>1, <4>1
    <3>2. ASSUME NEW e, task' = [task EXCEPT ![t] =
                   [at |-> IF e \in Retried THEN "gave_up" ELSE "failed",
                    on |-> NoSession, attempt |-> task[t].attempt]]
          PROVE  \E there \in Task :
                   there.at # "closes" /\ task' = [task EXCEPT ![t] = there]
      <4>1. [at |-> IF e \in Retried THEN "gave_up" ELSE "failed",
             on |-> NoSession, attempt |-> task[t].attempt] \in Task
        BY <1>2 DEF Task, Outcomes
      <4>2. QED
        BY <3>2, <4>1
    <3>3. QED
      BY <2>3, <3>1, <3>2 DEF RequestFails
  <2>4. QED
    BY <2>1, <2>2, <2>3
<1>6. QED
  BY <1>1, <1>5, OthersKeep

LEMMA SessionStep == SessionInvariant /\ [HttpNext]_httpVars => SessionInvariant'
<1> SUFFICES ASSUME SessionInvariant, [HttpNext]_httpVars PROVE SessionInvariant'
  OBVIOUS
<1>1. ASSUME NEW t \in Tasks, Connect(t) PROVE SessionInvariant'
  BY <1>1, ConnectKeeps
<1>2. ASSUME NEW t \in Tasks, CloseStarts(t) \/ CloseEnds(t) \/ CloseFails(t)
      PROVE  SessionInvariant'
  BY <1>2, CloseKeeps
<1>3. ASSUME NEW t \in Tasks, Request(t) \/ Answer(t) \/ RequestFails(t)
      PROVE  SessionInvariant'
  BY <1>3, RequestKeeps
<1>4. CASE UNCHANGED httpVars
  BY <1>4 DEF httpVars, SessionInvariant, HttpTypeOK, OneCloser, Closing
<1>5. QED
  BY <1>1, <1>2, <1>3, <1>4 DEF HttpNext

(* Undisturbed, connect() and close() lose no open session, whatever the number of
   coroutines that share the client. *)
THEOREM SessionsKept == HttpSpec => []NoSessionLost
<1>1. SessionInvariant => NoSessionLost
  BY DEF SessionInvariant, OneCloser, NoSessionLost, Closing
<1>2. QED
  BY <1>1, SessionStart, SessionStep, PTL DEF HttpSpec
-----------------------------------------------------------------------------
Places == {"none", "connects", "checks", "receives", "fetches", "calls", "ended"}

\* A thread that has called back once since unsubscribe() has yet to look at the flag,
\* or has ended.
LateInvariant ==
  /\ running \in BOOLEAN
  /\ run \in [Runs -> Places]
  /\ late \in [Runs -> 0..1]
  /\ running => \A r \in Runs : late[r] = 0
  /\ \A r \in Runs : late[r] = 1 => run[r] \in {"calls", "checks", "ended"}

LEMMA LateStart == FeedInit => LateInvariant
<1> SUFFICES ASSUME FeedInit PROVE LateInvariant
  OBVIOUS
<1>1. ~running /\ run = [r \in Runs |-> "none"] /\ late = [r \in Runs |-> 0]
  BY DEF FeedInit
<1>2. run \in [Runs -> Places] /\ late \in [Runs -> 0..1]
  BY <1>1 DEF Places
<1>3. running \in BOOLEAN
  BY DEF FeedInit
<1>4. QED
  BY <1>1, <1>2, <1>3 DEF LateInvariant

(* A step that moves one thread of the subscription, and counts no callback. *)
LEMMA MoveKeeps ==
  ASSUME LateInvariant, NEW r \in Runs, NEW place \in Places,
         late[r] = 1 => place \in {"calls", "checks", "ended"},
         run' = [run EXCEPT ![r] = place], UNCHANGED late,
         running' \in BOOLEAN, running' => running
  PROVE  LateInvariant'
<1>1. run' \in [Runs -> Places]
  BY DEF LateInvariant
<1>2. \A s \in Runs : late'[s] = 1 => run'[s] \in {"calls", "checks", "ended"}
  BY DEF LateInvariant
<1>3. QED
  BY <1>1, <1>2 DEF LateInvariant

LEMMA RunKeeps ==
  ASSUME LateInvariant, NEW r \in Runs, Start(r) \/ Announce(r) \/ RunStep(r)
  PROVE  LateInvariant'
<1>1. late[r] \in 0..1 /\ (running => late[r] = 0) /\ running \in BOOLEAN
  BY DEF LateInvariant
<1>2. CASE Start(r)
  BY <1>2 DEF Start, LateInvariant, Places
<1>3. CASE Announce(r) \/ (run[r] = "fetches" /\ Answered(r))
  BY <1>3 DEF Announce, Answered, subscription, LateInvariant
<1>4. CASE Connected(r)
  BY <1>4, MoveKeeps DEF Connected, LateInvariant, Places
<1>5. CASE CheckRunning(r)
  <2>1. CASE running
    BY <1>1, <1>5, <2>1, MoveKeeps DEF CheckRunning, Places
  <2>2. CASE ~running
    BY <1>1, <1>5, <2>2, MoveKeeps DEF CheckRunning, Ends, Places
  <2>3. QED
    BY <2>1, <2>2
<1>6. CASE Nothing(r)
  BY <1>1, <1>6, MoveKeeps DEF Nothing, Places
<1>7. CASE Receive(r)
  <2>1. late[r] # 1
    BY <1>7 DEF Receive, LateInvariant
  <2>2. QED
    BY <1>1, <1>7, <2>1, MoveKeeps DEF Receive, Places
<1>8. CASE Callback(r)
  <2>1. late[r] = 0
    BY <1>1, <1>8 DEF Callback, LateInvariant
  <2>2. CASE running
    BY <1>1, <1>8, <2>1, <2>2, MoveKeeps DEF Callback, Places
  <2>3. CASE ~running
    <3>1. /\ late' = [late EXCEPT ![r] = 1] /\ run' = [run EXCEPT ![r] = "calls"]
          /\ running' = running
      BY <1>8, <2>1, <2>3 DEF Callback, LateInvariant
    <3>2. QED
      BY <2>3, <3>1 DEF LateInvariant, Places
  <2>4. QED
    BY <2>2, <2>3
<1>9. CASE CallbackReturns(r) \/ UpdateDropped(r) \/ RunFails(r)
  BY <1>1, <1>9, MoveKeeps DEF CallbackReturns, UpdateDropped, RunFails, Ends, Places
<1>10. CASE UnsubscribeInCallback(r)
  <2>1. CASE handle = r
    BY <1>10, <2>1, MoveKeeps DEF UnsubscribeInCallback, Ends, Places
  <2>2. CASE handle # r
    BY <1>10, <2>2 DEF UnsubscribeInCallback, LateInvariant
  <2>3. QED
    BY <2>1, <2>2
<1>11. QED
  BY <1>2, <1>3, <1>4, <1>5, <1>6, <1>7, <1>8, <1>9, <1>10 DEF RunStep

LEMMA LateStep == LateInvariant /\ [FeedNext]_feedVars => LateInvariant'
<1> SUFFICES ASSUME LateInvariant, [FeedNext]_feedVars PROVE LateInvariant'
  OBVIOUS
<1>1. CASE Tick \/ UNCHANGED feedVars
  BY <1>1 DEF Tick, subscription, feedVars, LateInvariant
<1>2. ASSUME NEW r \in Readers,
             \/ \E wanted \in published \cup {Absent} : GetFeed(r, wanted)
             \/ GetFeedByDid(r) \/ Answered(r) \/ Store(r) \/ RequestRaises(r)
      PROVE  LateInvariant'
  <2>1. UNCHANGED subscription
    BY <1>2 DEF GetFeed, GetFeedByDid, Answered, Store, RequestRaises
  <2>2. QED
    BY <2>1 DEF subscription, LateInvariant
<1>3. ASSUME NEW r \in Runs, Start(r) \/ Announce(r) \/ RunStep(r)
      PROVE  LateInvariant'
  BY <1>3, RunKeeps
<1>4. CASE Unsubscribe
  BY <1>4 DEF Unsubscribe, LateInvariant
<1>5. QED
  BY <1>1, <1>2, <1>3, <1>4 DEF FeedNext

(* Each thread of a subscription calls back once more at most after unsubscribe(),
   however many threads start() has made and whatever they receive. *)
THEOREM LateCallbacks == FeedSpec => []OneLateCallback
<1>1. LateInvariant => OneLateCallback
  BY DEF LateInvariant, OneLateCallback
<1>2. QED
  BY <1>1, LateStart, LateStep, PTL DEF FeedSpec
Calls == {"idle", "asks", "stores"}
Call == [at : Calls, since : 0..now, wants : published \cup {Absent},
         value : published \cup {Absent}, timestamp : (0..now) \cup {Absent}]

FeedShape ==
  /\ now \in 0..MaxTime /\ published \subseteq 0..now /\ 0 \in published
  /\ cache \in DataFeed \cup {Absent}
  /\ reader \in [Readers \cup Runs -> Call]
  /\ running \in BOOLEAN /\ handle \in Runs \cup {Absent}
  /\ run \in [Runs -> Places]
  /\ inbox \in [Runs -> Seq(published)]

\* The value that was the latest one then.
Newest(then) == Max({v \in published : v <= then})

\* What a reader is about to get, or got, as the latest value.
ReaderTrue(r) ==
  /\ reader[r].at = "stores" => reader[r].value \in published
  /\ reader[r].at = "stores" /\ reader[r].wants = Absent =>
       \E then \in 0..now : then >= reader[r].since /\ reader[r].value = Newest(then)
  /\ (reader[r].at = "idle" /\ reader[r].value # Absent
       /\ reader[r].timestamp = reader[r].value) =>
       \E then \in 0..now : /\ then > reader[r].since - Fresh
                            /\ reader[r].value = Newest(then)

\* What a thread of the subscription asked for, got, and calls back with.
RunTrue(r) ==
  /\ run[r] = "fetches" <=> reader[r].at # "idle"
  /\ run[r] = "fetches" => reader[r].wants = Absent /\ reader[r].since \in published
  /\ run[r] = "calls" \/ reader[r].at = "stores" =>
       reader[r].value \in published /\ reader[r].value >= reader[r].since

FeedInvariant ==
  /\ FeedShape
  /\ \A r \in Readers : ReaderTrue(r)
  /\ \A r \in Runs : RunTrue(r)

LEMMA FeedsStart == FeedInit => FeedInvariant
<1> SUFFICES ASSUME FeedInit PROVE FeedInvariant
  OBVIOUS
<1>1. Quiet \in Call
  BY DEF FeedInit, Quiet, Call, Calls
<1>2. FeedShape
  <2>1. now \in 0..MaxTime /\ published \subseteq 0..now /\ 0 \in published
    BY FeedAssumption DEF FeedInit
  <2>2. reader \in [Readers \cup Runs -> Call]
    BY <1>1 DEF FeedInit
  <2>3. run \in [Runs -> Places] /\ cache = Absent /\ handle = Absent /\ running = FALSE
    BY DEF FeedInit, Places
  <2>4. inbox \in [Runs -> Seq(published)]
    BY EmptySeq DEF FeedInit
  <2>5. QED
    BY <2>1, <2>2, <2>3, <2>4 DEF FeedShape
<1>3. \A r \in Readers \cup Runs : reader[r] = Quiet
  BY DEF FeedInit
<1>4. /\ \A r \in Readers : ReaderTrue(r)
      /\ \A r \in Runs : RunTrue(r)
  <2>1. Quiet.at = "idle" /\ Quiet.value = Absent
    BY DEF Quiet
  <2>2. ASSUME NEW r \in Readers PROVE ReaderTrue(r)
    BY <1>3, <2>1 DEF ReaderTrue
  <2>3. ASSUME NEW r \in Runs PROVE RunTrue(r)
    <3>1. run[r] = "none" /\ reader[r] = Quiet
      BY <1>3 DEF FeedInit
    <3>2. QED
      BY <2>1, <3>1 DEF RunTrue
  <2>4. QED
    BY <2>2, <2>3
<1>5. QED
  BY <1>2, <1>4 DEF FeedInvariant

LEMMA LatestIs ==
  ASSUME FeedShape
  PROVE  /\ Latest \in published /\ \A v \in published : Latest >= v
         /\ Latest = Newest(now) /\ now \in 0..now
         /\ \A v \in published : v \in 0..now /\ v = Newest(v)
<1>1. /\ now \in Nat /\ published \in SUBSET (0..now) /\ published # {}
      /\ \A v \in published : v \in Nat /\ v \in 0..now /\ v <= now
  <2>1. now \in 0..MaxTime /\ published \subseteq 0..now /\ 0 \in published
    BY DEF FeedShape
  <2>2. now \in Nat
    BY <2>1, FeedAssumption
  <2>3. \A v \in published : v \in 0..now
    BY <2>1
  <2>4. QED
    BY <2>1, <2>2, <2>3
<1>2. Latest \in published /\ \A v \in published : Latest >= v
  BY <1>1, Greatest DEF Latest
<1>3. {v \in published : v <= now} = published
  BY <1>1
<1>4. Latest = Newest(now)
  BY <1>3, Zenon DEF Latest, Newest
<1>5. ASSUME NEW u \in published
      PROVE  u = Newest(u)
  <2> DEFINE S == {v \in published : v <= u}
  <2>1. S \in SUBSET (0..now) /\ u \in S /\ S # {}
    <3>1. u \in Nat /\ u <= u /\ \A v \in S : v \in 0..now
      BY <1>1
    <3>2. QED
      BY <3>1
  <2>2. \A v \in S : v <= u
    OBVIOUS
  <2>3. Newest(u) = Max(S)
    BY Zenon DEF Newest
  <2> HIDE DEF S
  <2>4. Max(S) \in S /\ \A v \in S : Max(S) >= v
    BY <1>1, <2>1, Greatest
  <2>5. Max(S) \in Nat /\ u \in Nat /\ Max(S) >= u /\ Max(S) <= u
    <3>1. Max(S) \in 0..now /\ u \in Nat
      BY <1>1, <2>1, <2>4
    <3>2. QED
      BY <1>1, <2>1, <2>2, <2>4, <3>1
  <2>6. QED
    BY <2>3, <2>5
<1>6. QED
  BY <1>1, <1>2, <1>4, <1>5

(* A list of values is a list of more values. *)
LEMMA WiderSeq ==
  ASSUME NEW A, NEW B, A \subseteq B, NEW q \in Seq(A)
  PROVE  q \in Seq(B)
<1>1. Len(q) \in Nat /\ q \in [1..Len(q) -> A]
  BY LenProperties
<1>2. q \in [1..Len(q) -> B]
  BY <1>1
<1>3. QED
  BY <1>1, <1>2, IsASeq

LEMMA TickKeeps ==
  ASSUME FeedInvariant, Tick
  PROVE  FeedInvariant'
<1>1. /\ now' = now + 1 /\ now \in Nat /\ now' \in 0..MaxTime
      /\ published' = published \/ published' = published \cup {now + 1}
      /\ cache' = cache /\ reader' = reader /\ running' = running /\ handle' = handle
      /\ run' = run /\ inbox' = inbox
  BY FeedAssumption DEF Tick, FeedInvariant, FeedShape, subscription
<1>2. published \subseteq published' /\ published \subseteq 0..now /\ 0..now \subseteq 0..now'
  BY <1>1 DEF FeedInvariant, FeedShape
<1>3. FeedShape'
  <2>1. /\ \A c \in Call : c \in Call'
        /\ \A c \in DataFeed : c \in DataFeed'
    BY <1>2 DEF Call, DataFeed
  <2>2. reader' \in [Readers \cup Runs -> Call']
    BY <1>1, <2>1 DEF FeedInvariant, FeedShape
  <2>3. inbox' \in [Runs -> Seq(published')]
    BY <1>1, <1>2, WiderSeq DEF FeedInvariant, FeedShape
  <2>4. published' \subseteq 0..now'
    BY <1>1, <1>2
  <2>5. QED
    BY <1>1, <1>2, <2>1, <2>2, <2>3, <2>4 DEF FeedInvariant, FeedShape
<1>4. \A then \in 0..now : Newest(then)' = Newest(then)
  <2>1. ASSUME NEW then \in 0..now
        PROVE  {v \in published' : v <= then} = {v \in published : v <= then}
    BY <1>1, <1>2
  <2>2. QED
    BY <2>1 DEF Newest
<1>5. ASSUME NEW r \in Readers
      PROVE  ReaderTrue(r)'
  BY <1>1, <1>2, <1>4 DEF ReaderTrue, FeedInvariant
<1>6. ASSUME NEW r \in Runs
      PROVE  RunTrue(r)'
  BY <1>1, <1>2 DEF RunTrue, FeedInvariant
<1>7. QED
  BY <1>3, <1>5, <1>6 DEF FeedInvariant

(* A step of one thread, which leaves what was published alone. *)
LEMMA CallMoves ==
  ASSUME FeedInvariant, NEW r \in Readers \cup Runs, NEW v \in Call,
         reader' = [reader EXCEPT ![r] = v],
         now' = now, published' = published, cache' \in DataFeed \cup {Absent},
         running' \in BOOLEAN, handle' \in Runs \cup {Absent},
         run' \in [Runs -> Places], \A s \in Runs : s # r => run'[s] = run[s],
         inbox' \in [Runs -> Seq(published)],
         r \in Readers => ReaderTrue(r)', r \in Runs => RunTrue(r)'
  PROVE  FeedInvariant'
<1>1. \A s \in Readers \cup Runs : s # r => reader'[s] = reader[s]
  BY DEF FeedInvariant, FeedShape
<1>2. Call' = Call /\ DataFeed' = DataFeed /\ \A then : Newest(then)' = Newest(then)
  BY DEF Call, DataFeed, Newest
<1>3. FeedShape'
  <2>1. reader' \in [Readers \cup Runs -> Call']
    BY <1>2 DEF FeedInvariant, FeedShape
  <2>2. QED
    BY <1>2, <2>1 DEF FeedInvariant, FeedShape
<1>4. ASSUME NEW s \in Readers PROVE ReaderTrue(s)'
  <2>1. CASE s # r
    BY <1>1, <1>2, <2>1 DEF ReaderTrue, FeedInvariant
  <2>2. QED
    BY <2>1
<1>5. ASSUME NEW s \in Runs PROVE RunTrue(s)'
  <2>1. CASE s # r
    <3>1. RunTrue(s)
      BY DEF FeedInvariant
    <3>2. reader'[s] = reader[s] /\ run'[s] = run[s] /\ published' = published
      BY <1>1, <2>1
    <3>3. QED
      BY <3>1, <3>2 DEF RunTrue
  <2>2. QED
    BY <2>1
<1>6. QED
  BY <1>3, <1>4, <1>5 DEF FeedInvariant

LEMMA Placed ==
  ASSUME FeedInvariant, NEW r \in Readers \cup Runs, NEW v \in Call,
         reader' = [reader EXCEPT ![r] = v]
  PROVE  reader'[r] = v
BY DEF FeedInvariant, FeedShape

(* The fields of a call, and the calls that the actions make. *)
LEMMA CallFields ==
  ASSUME FeedInvariant, NEW r \in Readers \cup Runs
  PROVE  /\ reader[r] \in Call /\ reader[r].at \in Calls
         /\ reader[r].since \in 0..now /\ reader[r].since <= now /\ now \in Nat
         /\ reader[r].wants \in published \cup {Absent}
         /\ reader[r].value \in published \cup {Absent} /\ Absent \notin published
<1>1. reader[r] \in Call
  BY DEF FeedInvariant, FeedShape
<1>2. now \in Nat /\ Absent \notin published
  <2>1. now \in 0..MaxTime /\ \A v \in published : v \in 0..now
    BY LatestIs DEF FeedInvariant, FeedShape
  <2>2. QED
    BY <2>1, FeedAssumption
<1>3. QED
  BY <1>1, <1>2 DEF Call

LEMMA CallsMade ==
  ASSUME FeedInvariant
  PROVE  /\ Quiet \in Call /\ Quiet.at = "idle" /\ Quiet.value = Absent
         /\ \A at \in Calls, since \in 0..now, wants \in published \cup {Absent},
               value \in published \cup {Absent}, timestamp \in (0..now) \cup {Absent} :
              [at |-> at, since |-> since, wants |-> wants, value |-> value,
               timestamp |-> timestamp] \in Call
<1>1. now \in Nat
  BY FeedAssumption DEF FeedInvariant, FeedShape
<1>2. Quiet \in Call /\ Quiet.at = "idle" /\ Quiet.value = Absent
  BY <1>1 DEF Quiet, Call, Calls
<1>3. QED
  BY <1>2 DEF Call

LEMMA ReaderKeeps ==
  ASSUME FeedInvariant, NEW r \in Readers,
         \/ \E wanted \in published \cup {Absent} : GetFeed(r, wanted)
         \/ GetFeedByDid(r) \/ Answered(r) \/ Store(r) \/ RequestRaises(r)
  PROVE  FeedInvariant'
<1>1. /\ now' = now /\ published' = published /\ running' = running /\ handle' = handle
      /\ run' = run /\ inbox' = inbox /\ r \in Readers \cup Runs /\ r \notin Runs
      /\ \A then : Newest(then)' = Newest(then)
  <2>1. now' = now /\ published' = published /\ UNCHANGED subscription
    BY DEF GetFeed, GetFeedByDid, Answered, Store, RequestRaises
  <2>2. QED
    BY <2>1, FeedAssumption DEF subscription, Newest
<1>2. /\ running \in BOOLEAN /\ handle \in Runs \cup {Absent} /\ run \in [Runs -> Places]
      /\ inbox \in [Runs -> Seq(published)] /\ cache \in DataFeed \cup {Absent}
      /\ now \in 0..now /\ now \in Nat /\ Fresh \in Nat \ {0}
  BY LatestIs, FeedAssumption DEF FeedInvariant, FeedShape
<1>3. ASSUME NEW v \in Call, reader' = [reader EXCEPT ![r] = v],
             cache' \in DataFeed \cup {Absent}, ReaderTrue(r)'
      PROVE  FeedInvariant'
  BY <1>1, <1>2, <1>3, CallMoves
<1>4. ASSUME NEW wanted \in published \cup {Absent}, Asks(r, wanted), cache' = cache
      PROVE  FeedInvariant'
  <2> DEFINE v == [at |-> "asks", since |-> now, wants |-> wanted, value |-> Absent,
                   timestamp |-> Absent]
  <2>1. v \in Call /\ v.at = "asks"
    BY <1>2, CallsMade DEF Calls
  <2>2. reader' = [reader EXCEPT ![r] = v]
    BY <1>4 DEF Asks
  <2> HIDE DEF v
  <2>3. ReaderTrue(r)'
    BY <1>1, <2>1, <2>2, Placed DEF ReaderTrue
  <2>4. QED
    BY <1>2, <1>3, <1>4, <2>1, <2>2, <2>3
<1>5. CASE \E wanted \in published \cup {Absent} : GetFeed(r, wanted)
  BY <1>4, <1>5 DEF GetFeed
<1>6. CASE RequestRaises(r)
  <2>1. reader' = [reader EXCEPT ![r] = Quiet] /\ cache' = cache
    BY <1>6 DEF RequestRaises
  <2>2. ReaderTrue(r)'
    BY <1>1, <2>1, CallsMade, Placed DEF ReaderTrue
  <2>3. QED
    BY <1>2, <1>3, <2>1, <2>2, CallsMade
<1>7. CASE GetFeedByDid(r)
  <2>1. cache' = cache /\ Absent \in published \cup {Absent}
    BY <1>7 DEF GetFeedByDid
  <2>2. CASE ~(cache # Absent /\ now - cache.timestamp < Fresh)
    BY <1>4, <1>7, <2>1, <2>2 DEF GetFeedByDid
  <2>3. CASE cache # Absent /\ now - cache.timestamp < Fresh
    <3> DEFINE v == [at |-> "idle", since |-> now, wants |-> Absent, value |-> cache.value,
                     timestamp |-> cache.timestamp]
    <3>0. cache.value \in published /\ cache.timestamp \in 0..now
      BY <1>2, <2>3 DEF DataFeed
    <3>1. /\ v \in Call /\ v.at = "idle" /\ v.value = cache.value /\ v.since = now
          /\ v.timestamp = cache.timestamp
      BY <1>2, <3>0, CallsMade DEF Calls
    <3>2. reader' = [reader EXCEPT ![r] = v]
      BY <1>7, <2>3 DEF GetFeedByDid, Gets
    <3>3. /\ cache.value \in 0..now /\ cache.value = Newest(cache.value)
          /\ cache.timestamp = cache.value => cache.value > now - Fresh
      <4>1. cache.value \in 0..now /\ cache.value = Newest(cache.value)
        BY <3>0, LatestIs DEF FeedInvariant
      <4>2. QED
        BY <1>2, <2>3, <3>0, <4>1
    <3> HIDE DEF v
    <3>4. ReaderTrue(r)'
      BY <1>1, <3>1, <3>2, <3>3, Placed DEF ReaderTrue
    <3>5. QED
      BY <1>2, <1>3, <2>1, <3>1, <3>2, <3>4
  <2>4. QED
    BY <2>2, <2>3
<1>8. CASE Answered(r)
  <2> DEFINE value == IF reader[r].wants = Absent THEN Latest ELSE reader[r].wants
             v == [reader[r] EXCEPT !.at = "stores", !.value = value]
  <2>1. reader[r] \in Call /\ value \in published
    BY CallFields, LatestIs DEF FeedInvariant
  <2>2. /\ v \in Call /\ v.at = "stores" /\ v.value = value /\ v.since = reader[r].since
        /\ v.wants = reader[r].wants
    BY <2>1 DEF Call, Calls
  <2>3. reader' = [reader EXCEPT ![r] = v] /\ cache' = cache
    BY <1>8 DEF Answered, FeedInvariant, FeedShape
  <2>4. reader[r].wants = Absent => value = Newest(now) /\ now >= reader[r].since
    BY CallFields, LatestIs DEF FeedInvariant
  <2> HIDE DEF v, value
  <2>5. ReaderTrue(r)'
    <3>1. reader'[r] = v
      BY <1>1, <2>2, <2>3, Placed
    <3>2. v.wants = Absent =>
            \E then \in 0..now' : then >= v.since /\ v.value = Newest(then)'
      BY <1>1, <1>2, <2>2, <2>4
    <3>3. v.value \in published'
      BY <1>1, <2>1, <2>2
    <3>4. v.at = "stores"
      BY <2>2
    <3>5. QED
      BY <3>1, <3>2, <3>3, <3>4 DEF ReaderTrue
  <2>6. QED
    BY <1>2, <1>3, <2>2, <2>3, <2>5
<1>9. CASE Store(r)
  <2>1. PICK t \in {reader[r].value, now} :
          cache' = [value |-> reader[r].value, timestamp |-> t]
    BY <1>9 DEF Store, Stored
  <2>5. reader[r].at = "stores" /\ reader[r].value \in published
    BY <1>9 DEF Store, Stored, ReaderTrue, FeedInvariant
  <2>6. t \in 0..now /\ cache' \in DataFeed \cup {Absent}
    <3>1. t \in 0..now
      BY <1>2, <2>1, <2>5, LatestIs DEF FeedInvariant
    <3>2. QED
      BY <2>1, <2>5, <3>1 DEF DataFeed
  <2>2. CASE reader[r].wants # Absent
    <3>1. reader' = [reader EXCEPT ![r] = Quiet]
      BY <1>9, <2>2 DEF Store
    <3>2. ReaderTrue(r)'
      BY <1>1, <3>1, CallsMade, Placed DEF ReaderTrue
    <3>3. QED
      BY <1>2, <1>3, <2>6, <3>1, <3>2, CallsMade
  <2>3. CASE reader[r].wants = Absent
    <3> DEFINE v == [at |-> "idle", since |-> reader[r].since, wants |-> Absent,
                     value |-> reader[r].value, timestamp |-> t]
    <3>1. v \in Call /\ v.at = "idle" /\ v.value = reader[r].value /\ v.since = reader[r].since
      BY <2>5, <2>6, CallFields, CallsMade DEF Calls
    <3>2. reader' = [reader EXCEPT ![r] = v]
      BY <1>9, <2>1, <2>3 DEF Store, Gets
    <3>3. PICK then \in 0..now : then >= reader[r].since /\ reader[r].value = Newest(then)
      BY <2>3, <2>5 DEF ReaderTrue, FeedInvariant
    <3>4. then > reader[r].since - Fresh
      BY <1>2, <3>3, CallFields
    <3> HIDE DEF v
    <3>5. ReaderTrue(r)'
      BY <1>1, <3>1, <3>2, <3>3, <3>4, Placed DEF ReaderTrue
    <3>6. QED
      BY <1>2, <1>3, <2>6, <3>1, <3>2, <3>5
  <2>4. QED
    BY <2>2, <2>3
<1>10. QED
  BY <1>5, <1>6, <1>7, <1>8, <1>9

(* A step of a thread of the subscription. *)
LEMMA RunMoves ==
  ASSUME FeedInvariant, NEW r \in Runs, NEW p \in Places, NEW v \in Call,
         NEW q \in Seq(published),
         p = "fetches" <=> v.at # "idle",
         p = "fetches" => v.wants = Absent /\ v.since \in published,
         p = "calls" \/ v.at = "stores" => v.value \in published /\ v.value >= v.since,
         reader' = [reader EXCEPT ![r] = v], run' = [run EXCEPT ![r] = p],
         inbox' = [inbox EXCEPT ![r] = q],
         now' = now, published' = published, cache' \in DataFeed \cup {Absent},
         running' \in BOOLEAN, handle' \in Runs \cup {Absent}
  PROVE  FeedInvariant'
<1>1. run \in [Runs -> Places] /\ inbox \in [Runs -> Seq(published)]
  BY DEF FeedInvariant, FeedShape
<1>2. /\ run' \in [Runs -> Places] /\ inbox' \in [Runs -> Seq(published)]
      /\ run'[r] = p /\ \A s \in Runs : s # r => run'[s] = run[s]
  BY <1>1
<1>3. reader'[r] = v /\ r \notin Readers
  BY Placed, FeedAssumption
<1>4. RunTrue(r)'
  BY <1>2, <1>3 DEF RunTrue
<1>5. QED
  BY <1>2, <1>3, <1>4, CallMoves

\* What a step may leave as it is.
LEMMA RunAsIs ==
  ASSUME FeedInvariant, NEW r \in Runs
  PROVE  /\ reader[r] \in Call /\ reader = [reader EXCEPT ![r] = reader[r]]
         /\ run[r] \in Places /\ run = [run EXCEPT ![r] = run[r]]
         /\ inbox[r] \in Seq(published) /\ inbox = [inbox EXCEPT ![r] = inbox[r]]
         /\ <<>> \in Seq(published)
         /\ cache \in DataFeed \cup {Absent} /\ running \in BOOLEAN
         /\ handle \in Runs \cup {Absent}
         /\ (run[r] = "fetches" <=> reader[r].at # "idle")
         /\ (run[r] = "fetches" => reader[r].wants = Absent /\ reader[r].since \in published)
         /\ (run[r] = "calls" \/ reader[r].at = "stores" =>
               reader[r].value \in published /\ reader[r].value >= reader[r].since)
<1>1. FeedShape /\ RunTrue(r)
  BY DEF FeedInvariant
<1>2. /\ reader[r] \in Call /\ reader = [reader EXCEPT ![r] = reader[r]]
      /\ run[r] \in Places /\ run = [run EXCEPT ![r] = run[r]]
  BY <1>1 DEF FeedShape
<1>3. inbox[r] \in Seq(published) /\ inbox = [inbox EXCEPT ![r] = inbox[r]]
      /\ <<>> \in Seq(published)
  BY <1>1, EmptySeq DEF FeedShape
<1>4. cache \in DataFeed \cup {Absent} /\ running \in BOOLEAN /\ handle \in Runs \cup {Absent}
  BY <1>1 DEF FeedShape
<1>5. QED
  BY <1>1, <1>2, <1>3, <1>4 DEF RunTrue

LEMMA RunGoesOn ==
  ASSUME FeedInvariant, NEW r \in Runs, NEW p \in Places \ {"fetches", "calls"},
         run[r] \notin {"fetches", "calls"}, run' = [run EXCEPT ![r] = p], reader' = reader,
         inbox' = inbox \/ inbox' = [inbox EXCEPT ![r] = <<>>],
         now' = now, published' = published, cache' = cache,
         running' \in BOOLEAN, handle' \in Runs \cup {Absent}
  PROVE  FeedInvariant'
<1> DEFINE v == reader[r]
<1>1. /\ v \in Call /\ reader' = [reader EXCEPT ![r] = v] /\ v.at = "idle" /\ p \in Places
      /\ cache' \in DataFeed \cup {Absent}
  BY RunAsIs
<1>2. PICK q \in Seq(published) : inbox' = [inbox EXCEPT ![r] = q]
  BY RunAsIs
<1> HIDE DEF v
<1>3. QED
  BY <1>1, <1>2, RunMoves

LEMMA RunIsQuiet ==
  ASSUME FeedInvariant, NEW r \in Runs, NEW p \in Places \ {"fetches", "calls"},
         run' = [run EXCEPT ![r] = p], reader' = [reader EXCEPT ![r] = Quiet],
         inbox' = inbox \/ inbox' = [inbox EXCEPT ![r] = <<>>],
         now' = now, published' = published, cache' = cache, running' \in BOOLEAN,
         handle' = handle
  PROVE  FeedInvariant'
<1>1. /\ Quiet \in Call /\ Quiet.at = "idle" /\ p \in Places
      /\ cache' \in DataFeed \cup {Absent} /\ handle' \in Runs \cup {Absent}
  BY RunAsIs, CallsMade
<1>2. PICK q \in Seq(published) : inbox' = [inbox EXCEPT ![r] = q]
  BY RunAsIs
<1>3. QED
  BY <1>1, <1>2, RunMoves

LEMMA RunStepKeeps ==
  ASSUME FeedInvariant, NEW r \in Runs, Start(r) \/ Announce(r) \/ RunStep(r)
  PROVE  FeedInvariant'
<1>1. ASSUME reader' = reader, run' = run, now' = now, published' = published, cache' = cache,
             running' \in BOOLEAN, handle' = handle,
             NEW q \in Seq(published), inbox' = [inbox EXCEPT ![r] = q]
      PROVE  FeedInvariant'
  <2> DEFINE v == reader[r]
             p == run[r]
  <2>1. /\ v \in Call /\ p \in Places /\ reader' = [reader EXCEPT ![r] = v]
        /\ run' = [run EXCEPT ![r] = p]
        /\ (p = "fetches" <=> v.at # "idle")
        /\ (p = "fetches" => v.wants = Absent /\ v.since \in published)
        /\ (p = "calls" \/ v.at = "stores" => v.value \in published /\ v.value >= v.since)
        /\ cache' \in DataFeed \cup {Absent} /\ handle' \in Runs \cup {Absent}
    BY <1>1, RunAsIs
  <2> HIDE DEF v, p
  <2>2. QED
    BY <1>1, <2>1, RunMoves
<1>2. CASE Start(r)
  <2>1. /\ run[r] = "none" /\ run' = [run EXCEPT ![r] = "connects"] /\ running' = TRUE
        /\ handle' = r /\ reader' = reader /\ inbox' = inbox /\ now' = now
        /\ published' = published /\ cache' = cache
    BY <1>2 DEF Start
  <2>2. QED
    BY <2>1, RunGoesOn DEF Places
<1>3. CASE Announce(r)
  <2>1. Append(inbox[r], Latest) \in Seq(published)
    BY RunAsIs, LatestIs, AppendProperties DEF FeedInvariant
  <2>2. /\ inbox' = [inbox EXCEPT ![r] = Append(inbox[r], Latest)] /\ reader' = reader
        /\ run' = run /\ now' = now /\ published' = published /\ cache' = cache
        /\ running' = running /\ handle' = handle
    BY <1>3 DEF Announce
  <2>3. QED
    BY <1>1, <2>1, <2>2, RunAsIs
<1>4. CASE Connected(r) \/ Nothing(r) \/ CheckRunning(r)
  <2>1. /\ run[r] \notin {"fetches", "calls"} /\ reader' = reader /\ now' = now
        /\ published' = published /\ cache' = cache /\ running' = running /\ handle' = handle
    BY <1>4 DEF Connected, Nothing, CheckRunning
  <2>2. \E p \in Places \ {"fetches", "calls"} : run' = [run EXCEPT ![r] = p]
    BY <1>4 DEF Connected, Nothing, CheckRunning, Ends, Places
  <2>3. inbox' = inbox \/ inbox' = [inbox EXCEPT ![r] = <<>>]
    BY <1>4 DEF Connected, Nothing, CheckRunning, Ends
  <2>4. QED
    BY <2>1, <2>2, <2>3, RunAsIs, RunGoesOn
<1>5. CASE Receive(r)
  <2> DEFINE v == [Quiet EXCEPT !.at = "asks", !.since = Head(inbox[r])]
             q == Tail(inbox[r])
  <2>1. q \in Seq(published) /\ Head(inbox[r]) \in published
    BY <1>5, RunAsIs, HeadTailProperties DEF Receive
  <2>2. v \in Call /\ v.at = "asks" /\ v.wants = Absent /\ v.since \in published
    <3>1. Head(inbox[r]) \in 0..now
      BY <2>1, LatestIs DEF FeedInvariant
    <3>2. QED
      BY <2>1, <3>1 DEF Call, Calls, Quiet
  <2>3. /\ reader' = [reader EXCEPT ![r] = v] /\ run' = [run EXCEPT ![r] = "fetches"]
        /\ inbox' = [inbox EXCEPT ![r] = q] /\ now' = now /\ published' = published
        /\ cache' = cache /\ running' = running /\ handle' = handle
    BY <1>5 DEF Receive
  <2> HIDE DEF v, q
  <2>4. QED
    BY <2>1, <2>2, <2>3, RunAsIs, RunMoves DEF Places
<1>6. CASE run[r] = "fetches" /\ Answered(r)
  <2> DEFINE v == [reader[r] EXCEPT !.at = "stores", !.value = Latest]
             q == inbox[r]
  <2>1. reader[r] \in Call /\ Latest \in published /\ reader[r].wants = Absent
        /\ reader[r].since \in published /\ Latest >= reader[r].since
    BY <1>6, RunAsIs, LatestIs DEF FeedInvariant
  <2>2. /\ v \in Call /\ v.at = "stores" /\ v.value = Latest /\ v.since = reader[r].since
        /\ v.wants = Absent
    BY <2>1 DEF Call, Calls
  <2>3. reader' = [reader EXCEPT ![r] = v]
    BY <1>6, <2>1 DEF Answered, FeedInvariant, FeedShape
  <2>4. /\ run' = [run EXCEPT ![r] = "fetches"]
        /\ inbox' = [inbox EXCEPT ![r] = q] /\ now' = now /\ published' = published
        /\ cache' = cache /\ running' = running /\ handle' = handle /\ q \in Seq(published)
    BY <1>6, RunAsIs DEF Answered, subscription
  <2> HIDE DEF v, q
  <2>5. QED
    BY <2>1, <2>2, <2>3, <2>4, RunAsIs, RunMoves DEF Places
<1>7. CASE Callback(r)
  <2>6. reader[r].value \in published /\ reader[r].value >= reader[r].since
    BY <1>7, RunAsIs DEF Callback, Stored
  <2>7. PICK t \in {reader[r].value, now} :
          cache' = [value |-> reader[r].value, timestamp |-> t]
    BY <1>7 DEF Callback, Stored
  <2> DEFINE v == [at |-> "idle", since |-> reader[r].since, wants |-> Absent,
                   value |-> reader[r].value, timestamp |-> t]
             q == inbox[r]
  <2>1. t \in 0..now /\ cache' \in DataFeed \cup {Absent}
    <3>1. t \in 0..now
      BY <2>6, <2>7, LatestIs DEF FeedInvariant
    <3>2. QED
      BY <2>6, <2>7, <3>1 DEF DataFeed
  <2>2. /\ v \in Call /\ v.at = "idle" /\ v.value = reader[r].value
        /\ v.since = reader[r].since
    BY <2>1, <2>6, CallFields, CallsMade DEF Calls
  <2>3. reader' = [reader EXCEPT ![r] = v]
    BY <1>7, <2>7 DEF Callback, Gets
  <2>4. /\ run' = [run EXCEPT ![r] = "calls"]
        /\ inbox' = [inbox EXCEPT ![r] = q] /\ now' = now /\ published' = published
        /\ running' = running /\ handle' = handle /\ q \in Seq(published)
    BY <1>7, RunAsIs DEF Callback
  <2> HIDE DEF v, q
  <2>5. QED
    BY <2>1, <2>2, <2>3, <2>4, <2>6, RunAsIs, RunMoves DEF Places
<1>8. CASE CallbackReturns(r) \/ UpdateDropped(r) \/ RunFails(r)
  <2>1. /\ reader' = [reader EXCEPT ![r] = Quiet] /\ now' = now
        /\ published' = published /\ cache' = cache /\ running' = running /\ handle' = handle
    BY <1>8 DEF CallbackReturns, UpdateDropped, RunFails
  <2>2. \E p \in Places \ {"fetches", "calls"} : run' = [run EXCEPT ![r] = p]
    BY <1>8 DEF CallbackReturns, UpdateDropped, RunFails, Ends, Places
  <2>3. inbox' = inbox \/ inbox' = [inbox EXCEPT ![r] = <<>>]
    BY <1>8 DEF CallbackReturns, UpdateDropped, RunFails, Ends
  <2>4. QED
    BY <2>1, <2>2, <2>3, RunAsIs, RunIsQuiet
<1>9. CASE UnsubscribeInCallback(r)
  <2>1. /\ now' = now /\ published' = published /\ cache' = cache /\ running' \in BOOLEAN
        /\ handle' = handle
    BY <1>9 DEF UnsubscribeInCallback
  <2>2. CASE handle = r
    <3>1. /\ reader' = [reader EXCEPT ![r] = Quiet] /\ run' = [run EXCEPT ![r] = "ended"]
          /\ inbox' = [inbox EXCEPT ![r] = <<>>]
      BY <1>9, <2>2 DEF UnsubscribeInCallback, Ends
    <3>2. QED
      BY <2>1, <3>1, RunIsQuiet DEF Places
  <2>3. CASE handle # r
    <3>1. reader' = reader /\ run' = run /\ inbox' = inbox
      BY <1>9, <2>3 DEF UnsubscribeInCallback
    <3>2. inbox[r] \in Seq(published) /\ inbox' = [inbox EXCEPT ![r] = inbox[r]]
      BY <3>1, RunAsIs
    <3>3. QED
      BY <1>1, <2>1, <3>1, <3>2
  <2>4. QED
    BY <2>2, <2>3
<1>10. QED
  BY <1>2, <1>3, <1>4, <1>5, <1>6, <1>7, <1>8, <1>9 DEF RunStep

LEMMA FeedKeeps ==
  ASSUME FeedInvariant, [FeedNext]_feedVars
  PROVE  FeedInvariant'
<1>1. CASE \E r \in Readers :
             \/ \E wanted \in published \cup {Absent} : GetFeed(r, wanted)
             \/ GetFeedByDid(r) \/ Answered(r) \/ Store(r) \/ RequestRaises(r)
  BY <1>1, ReaderKeeps
<1>2. CASE \E r \in Runs : Start(r) \/ Announce(r) \/ RunStep(r)
  BY <1>2, RunStepKeeps
<1>3. CASE Unsubscribe \/ UNCHANGED feedVars
  <2>1. /\ now' = now /\ published' = published /\ cache' = cache /\ reader' = reader
        /\ handle' = handle /\ run' = run /\ inbox' = inbox
        /\ running' = FALSE \/ running' = running
    BY <1>3 DEF Unsubscribe, feedVars
  <2>2. Call' = Call /\ DataFeed' = DataFeed /\ \A then : Newest(then)' = Newest(then)
    BY <2>1 DEF Call, DataFeed, Newest
  <2>3. FeedShape'
    BY <2>1, <2>2 DEF FeedInvariant, FeedShape
  <2>4. ASSUME NEW r \in Readers PROVE ReaderTrue(r)'
    BY <2>1, <2>2 DEF FeedInvariant, ReaderTrue
  <2>5. ASSUME NEW r \in Runs PROVE RunTrue(r)'
    BY <2>1 DEF FeedInvariant, RunTrue
  <2>6. QED
    BY <2>3, <2>4, <2>5 DEF FeedInvariant
<1>4. QED
  BY <1>1, <1>2, <1>3, TickKeeps DEF FeedNext

LEMMA FeedsStay == FeedSpec => []FeedInvariant
BY FeedsStart, FeedKeeps, PTL DEF FeedSpec

(* A callback is given a value that is not older than the update that it is called
   for, whatever other threads put into the cache meanwhile. *)
THEOREM CallbacksCurrent == FeedSpec => []CallbackCurrent
<1>1. FeedInvariant => CallbackCurrent
  BY DEF FeedInvariant, RunTrue, CallbackCurrent
<1>2. QED
  BY <1>1, FeedsStay, PTL

(* What a reader gets as the latest value, with a timestamp of its own, was the latest
   since Fresh before it asked, for any Fresh, any history of publications and any
   order of answers. *)
THEOREM AnswersRecent == FeedSpec => []LatestIsRecent
<1>1. FeedInvariant => LatestIsRecent
  BY Zenon DEF FeedInvariant, ReaderTrue, LatestIsRecent, Newest
<1>2. QED
  BY <1>1, FeedsStay, PTL

LEMMA FeedTypes == FeedInvariant => FeedTypeOK
<1> SUFFICES ASSUME FeedInvariant PROVE FeedTypeOK
  OBVIOUS
<1>1. FeedShape
  BY DEF FeedInvariant
<1>2. ASSUME NEW r \in Readers \cup Runs
      PROVE  /\ reader[r].at \in {"idle", "asks", "stores"} /\ reader[r].since \in 0..now
             /\ reader[r].wants \in published \cup {Absent}
             /\ reader[r].value \in published \cup {Absent}
             /\ reader[r].timestamp \in (0..now) \cup {Absent}
  BY CallFields DEF Call, Calls
<1>3. ASSUME NEW r \in Runs
      PROVE  /\ run[r] \in {"none", "connects", "checks", "receives", "fetches", "calls",
                            "ended"}
             /\ inbox[r] \in Seq(published)
             /\ (run[r] = "fetches") = (reader[r].at # "idle")
  BY RunAsIs DEF Places
<1>4. QED
  BY <1>1, <1>2, <1>3 DEF FeedTypeOK, FeedShape

-----------------------------------------------------------------------------
(* The wait for a job. *)

\* The sleeps are part of the time; a job was not complete before the first sleep.
JobInvariant ==
  /\ clock \in Nat /\ doneAt \in 0..Never /\ elapsed \in Nat
  /\ waiter \in {"checks", "asks", "sleeps", "returned", "raised", "timed_out"}
  /\ clock >= elapsed
  /\ elapsed > 0 \/ waiter = "sleeps" => doneAt > 0
  /\ waiter = "timed_out" => elapsed >= Timeout
  /\ waiter = "returned" => doneAt <= clock

LEMMA JobStarts == JobInit => JobInvariant
BY JobAssumption DEF JobInit, JobInvariant

LEMMA JobKeeps ==
  ASSUME JobInvariant, [JobNext]_jobVars
  PROVE  JobInvariant'
<1>1. /\ clock \in Nat /\ doneAt \in Nat /\ doneAt \in 0..Never /\ elapsed \in Nat
      /\ PollInterval \in Nat \ {0} /\ Timeout \in Nat /\ Slow \in Nat
  BY JobAssumption DEF JobInvariant
<1>2. CASE Check
  BY <1>1, <1>2 DEF Check, JobInvariant
<1>3. CASE Ask
  <2>1. PICK d \in 0..Slow : \E e \in 0..(Slow - d) :
          /\ clock' = clock + d + e
          /\ waiter' = IF doneAt <= clock + d THEN "returned" ELSE "sleeps"
    BY <1>3 DEF Ask
  <2>2. PICK e \in 0..(Slow - d) :
          /\ clock' = clock + d + e
          /\ waiter' = IF doneAt <= clock + d THEN "returned" ELSE "sleeps"
    BY <2>1
  <2>3. doneAt' = doneAt /\ elapsed' = elapsed /\ d \in Nat /\ e \in Nat
    BY <1>1, <1>3 DEF Ask
  <2>4. QED
    BY <1>1, <2>2, <2>3 DEF JobInvariant
<1>4. CASE AskFails
  BY <1>1, <1>4 DEF AskFails, JobInvariant
<1>5. CASE Sleep
  BY <1>1, <1>5 DEF Sleep, JobInvariant
<1>6. CASE UNCHANGED jobVars
  BY <1>6 DEF jobVars, JobInvariant
<1>7. QED
  BY <1>2, <1>3, <1>4, <1>5, <1>6 DEF JobNext

LEMMA JobStays == JobSpec => []JobInvariant
BY JobStarts, JobKeeps, PTL DEF JobSpec

(* wait_for_completion(): whatever the interval, the timeout and the time that the
   requests take, the error does not come before the timeout is over, nor for a job
   that was complete from the start, and what is returned is complete. *)
THEOREM NeverEarly == JobSpec => []TimeoutNotEarly
<1>1. JobInvariant => TimeoutNotEarly
  BY JobAssumption DEF JobInvariant, TimeoutNotEarly
<1>2. QED
  BY <1>1, JobStays, PTL

LEMMA JobTypes == JobInvariant => JobTypeOK
BY DEF JobInvariant, JobTypeOK

-----------------------------------------------------------------------------
(* The services keep the types of their state, side by side. *)
THEOREM ServicesTypes == Spec => []ServicesTypeOK
<1> DEFINE Types == SessionInvariant /\ JobInvariant /\ FeedInvariant
<1>1. Init => Types
  BY SessionStart, JobStarts, FeedsStart DEF Init
<1>2. Types /\ [Next]_servicesVars => Types'
  <2> SUFFICES ASSUME Types, [Next]_servicesVars PROVE Types'
    OBVIOUS
  <2>1. [HttpNext]_httpVars /\ [JobNext]_jobVars /\ [FeedNext]_feedVars
    BY DEF Next, servicesVars, PartOfStreams, PartOfHttp, PartOfJob, PartOfFeed
  <2>2. QED
    BY <2>1, SessionStep, JobKeeps, FeedKeeps
<1>3. Types => ServicesTypeOK
  BY JobTypes, FeedTypes DEF SessionInvariant, ServicesTypeOK
<1>4. QED
  BY <1>1, <1>2, <1>3, PTL DEF Spec
=============================================================================
