------------------------------ MODULE HttpClient ------------------------------
(***************************************************************************)
(* The life cycle and the requests of AsyncAethelredClient                 *)
(* (aethelred/core/client.py), shared by the coroutines of an application. *)
(* Code between two suspensions is one action.                             *)
(*                                                                         *)
(* httpx and tenacity are external.  httpx.AsyncClient.aclose() marks the  *)
(* client as closed before it suspends, and on a closed client it does not *)
(* suspend; a request on a closed client raises RuntimeError.  The         *)
(* decorator calls _request() again if it raised one of the Retried, up to *)
(* MaxAttempts times.                                                      *)
(*                                                                         *)
(* Abstracted: paths, bodies, headers, the time between attempts.          *)
(***************************************************************************)
EXTENDS Integers, FiniteSets

CONSTANTS
  Tasks,
  Sessions,      \* names of httpx clients, each used once
  MaxAttempts,   \* of stop_after_attempt()
  NoSession

ASSUME HttpAssumption == MaxAttempts \in Nat \ {0} /\ NoSession \notin Sessions

VARIABLES
  client,      \* _client
  session,     \* the state of each httpx client
  task,        \* where a coroutine is, with its session and attempt
  disturbed    \* history: connect() or close() met another close(), or a
               \* close() failed

httpVars == <<client, session, task, disturbed>>

Outcomes ==
  {"done", "answered", "rejected", "failed", "gave_up", "not_connected", "closed"}
Free(t) == task[t].at \in Outcomes
Ended(outcome) == [at |-> outcome, on |-> NoSession, attempt |-> 0]
Closing == \E t \in Tasks : task[t].at = "closes"

HttpInit ==
  /\ client = NoSession
  /\ session = [s \in Sessions |-> "unused"]
  /\ task = [t \in Tasks |-> Ended("done")]
  /\ disturbed = FALSE
-----------------------------------------------------------------------------
\* Mutant: an existing client is replaced.
ConnectAnew(t) ==
  /\ Free(t)
  /\ \E s \in Sessions :
       /\ session[s] = "unused"
       /\ client' = s /\ session' = [session EXCEPT ![s] = "open"]
  /\ task' = [task EXCEPT ![t] = Ended("done")]
  /\ disturbed' = (disturbed \/ Closing)

\* connect() creates a client if there is none; it does not suspend.
Connect(t) ==
  /\ Free(t)
  /\ \/ client # NoSession /\ UNCHANGED <<client, session>>
     \/ \E s \in Sessions :
          /\ client = NoSession /\ session[s] = "unused"
          /\ client' = s /\ session' = [session EXCEPT ![s] = "open"]
  /\ task' = [task EXCEPT ![t] = Ended("done")]
  /\ disturbed' = (disturbed \/ Closing)

\* close() suspends in aclose(), unless the client is closed already.
CloseStarts(t) ==
  /\ Free(t) /\ client # NoSession
  /\ session' = [session EXCEPT ![client] = "closed"]
  /\ \/ /\ session[client] = "open"
        /\ task' = [task EXCEPT ![t] = [at |-> "closes", on |-> client, attempt |-> 0]]
        /\ UNCHANGED client
     \/ /\ session[client] = "closed"
        /\ task' = [task EXCEPT ![t] = Ended("done")]
        /\ client' = NoSession
  /\ disturbed' = (disturbed \/ Closing)

\* Whatever _client is by now, it is forgotten.
CloseEnds(t) ==
  /\ task[t].at = "closes"
  /\ client' = NoSession
  /\ task' = [task EXCEPT ![t] = Ended("done")]
  /\ UNCHANGED <<session, disturbed>>

\* aclose() raises, or the coroutine is cancelled in it.
CloseFails(t) ==
  /\ task[t].at = "closes"
  /\ task' = [task EXCEPT ![t] = Ended("failed")]
  /\ disturbed' = TRUE
  /\ UNCHANGED <<client, session>>
-----------------------------------------------------------------------------
\* _request() as far as the answer of the server.
Sent(t, attempt) ==
  task' = [task EXCEPT ![t] =
    IF client = NoSession THEN Ended("not_connected")
    ELSE IF session[client] = "closed" THEN Ended("closed")
    ELSE [at |-> "requests", on |-> client, attempt |-> attempt]]

Request(t) ==
  Free(t) /\ Sent(t, 1) /\ UNCHANGED <<client, session, disturbed>>

\* An answer: the data, or an error of the server (429, or 400 and above).
Answer(t) ==
  /\ task[t].at = "requests"
  /\ \E outcome \in {"answered", "rejected"} :
       task' = [task EXCEPT ![t] = Ended(outcome)]
  /\ UNCHANGED <<client, session, disturbed>>

\* What the decorator waits for, and what _request() makes of it.
Retried == {"httpx.TimeoutException", "httpx.ConnectError"}
Raised(e) == CASE e = "httpx.TimeoutException" -> "TimeoutError"
               [] e = "httpx.ConnectError" -> "ConnectionError"
               [] OTHER -> e

\* No answer.
RequestFails(t) ==
  /\ task[t].at = "requests"
  /\ \E e \in Retried \cup {"httpx.ReadError"} :
       IF Raised(e) \in Retried /\ task[t].attempt < MaxAttempts
       THEN Sent(t, task[t].attempt + 1)
       ELSE task' = [task EXCEPT ![t] =
              [at |-> IF e \in Retried THEN "gave_up" ELSE "failed",
               on |-> NoSession, attempt |-> task[t].attempt]]
  /\ UNCHANGED <<client, session, disturbed>>

HttpNext ==
  \E t \in Tasks : \/ Connect(t) \/ CloseStarts(t) \/ CloseEnds(t) \/ CloseFails(t)
                   \/ Request(t) \/ Answer(t) \/ RequestFails(t)

HttpSpec == HttpInit /\ [][HttpNext]_httpVars
-----------------------------------------------------------------------------
HttpTypeOK ==
  /\ client \in Sessions \cup {NoSession}
  /\ session \in [Sessions -> {"unused", "open", "closed"}]
  /\ task \in [Tasks -> [at : Outcomes \cup {"closes", "requests"},
                         on : Sessions \cup {NoSession}, attempt : 0..MaxAttempts]]

(* connect() and close(): as long as nobody calls them during a close() and none
   fails, no open httpx client is forgotten, and _client is a closed one only
   while close() is at it. *)
NoSessionLost ==
  ~disturbed => /\ \A s \in Sessions : session[s] = "open" => client = s
                /\ client # NoSession /\ session[client] = "closed"
                     => \E t \in Tasks : task[t] = [at |-> "closes", on |-> client,
                                                    attempt |-> 0]

(* "Make an HTTP request with retry logic": a timeout or a failed connection is
   reported only after MaxAttempts attempts. *)
TransientRetried ==
  \A t \in Tasks : task[t].at = "gave_up" => task[t].attempt = MaxAttempts
=============================================================================
