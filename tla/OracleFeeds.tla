----------------------------- MODULE OracleFeeds -----------------------------
(***************************************************************************)
(* OracleClient and FeedSubscription (aethelred/oracles/client.py) for one *)
(* feed: threads that read it, a cache that they share, and a subscription *)
(* whose thread calls back when the feed changes.                          *)
(*                                                                         *)
(* A value is named by the tick at which it was published.  An answer      *)
(* carries it as the `timestamp', or none: then the client puts the time   *)
(* at which it parses the answer.  A request is two steps, so that answers *)
(* overtake each other.  The network and the server are external;          *)
(* connecting, receiving and requesting have timeouts.                     *)
(*                                                                         *)
(* Abstracted: what a value is, attestations, identifiers (a DID and the   *)
(* identifier of the feed name the same).                                  *)
(***************************************************************************)
EXTENDS Integers, Sequences, FiniteSetsExt

CONSTANTS
  Readers,       \* threads of the application
  Runs,          \* threads of the subscription, one for each start()
  Fresh,         \* the 60 seconds for which get_feed_by_did() uses the cache
  MaxTime,       \* bound on the clock
  MaxMessages,   \* bound on the messages that wait in a socket
  Absent

ASSUME FeedAssumption ==
  /\ Fresh \in Nat \ {0} /\ MaxTime \in Nat /\ MaxMessages \in Nat
  /\ Absent \notin Nat \cup Runs /\ Readers \cap Runs = {}

VARIABLES
  now, published,
  cache,       \* _cache: a DataFeed or Absent
  reader,      \* the request of each thread, of the application or not
  running,     \* _running
  handle,      \* _thread
  run,         \* where a thread of the subscription is
  inbox,       \* the messages of its socket
  late         \* history: callbacks that began since unsubscribe()

feedVars == <<now, published, cache, reader, running, handle, run, inbox, late>>
subscription == <<running, handle, run, inbox, late>>

Latest == Max(published)
DataFeed == [value : published, timestamp : 0..now]

\* since: when the call began; wants: a value or, for the latest one, Absent; value:
\* the answer, and after the call the latest value as the caller was told, with its
\* timestamp.
Quiet == [at |-> "idle", since |-> 0, wants |-> Absent, value |-> Absent,
          timestamp |-> Absent]

FeedInit ==
  /\ now = 0 /\ published = {0} /\ cache = Absent
  /\ reader = [r \in Readers \cup Runs |-> Quiet]
  /\ running = FALSE /\ handle = Absent
  /\ run = [r \in Runs |-> "none"]
  /\ inbox = [r \in Runs |-> <<>>]
  /\ late = [r \in Runs |-> 0]

\* Time goes on, perhaps with a new value.
Tick ==
  /\ now < MaxTime /\ now' = now + 1
  /\ published' \in {published, published \cup {now + 1}}
  /\ UNCHANGED <<cache, reader, subscription>>

\* The server sends an update: one for each value, more, or fewer.
Announce(r) ==
  /\ run[r] \notin {"none", "connects", "ended"} /\ Len(inbox[r]) < MaxMessages
  /\ inbox' = [inbox EXCEPT ![r] = Append(@, Latest)]
  /\ UNCHANGED <<now, published, cache, reader, running, handle, run, late>>
-----------------------------------------------------------------------------
Asks(r, wanted) ==
  reader' = [reader EXCEPT ![r] = [at |-> "asks", since |-> now, wants |-> wanted,
                                   value |-> Absent, timestamp |-> Absent]]
Gets(r, since, feed) ==
  reader' = [reader EXCEPT ![r] = [at |-> "idle", since |-> since, wants |-> Absent,
                                   value |-> feed.value, timestamp |-> feed.timestamp]]

\* get_feed(), also with a version or a time.
GetFeed(r, wanted) ==
  /\ reader[r].at = "idle"
  /\ Asks(r, wanted)
  /\ UNCHANGED <<now, published, cache, subscription>>

Answered(r) ==
  /\ reader[r].at = "asks"
  /\ reader' = [reader EXCEPT ![r].at = "stores",
       ![r].value = IF reader[r].wants = Absent THEN Latest ELSE reader[r].wants]
  /\ UNCHANGED <<now, published, cache, subscription>>

\* The answer is received, parsed with or without a timestamp of its own, and cached.
Stored(r) ==
  /\ reader[r].at = "stores"
  /\ \E timestamp \in {reader[r].value, now} :
       cache' = [value |-> reader[r].value, timestamp |-> timestamp]

Store(r) ==
  /\ Stored(r)
  /\ IF reader[r].wants = Absent THEN Gets(r, reader[r].since, cache')
     ELSE reader' = [reader EXCEPT ![r] = Quiet]
  /\ UNCHANGED <<now, published, subscription>>

RequestRaises(r) ==
  /\ reader[r].at = "asks"
  /\ reader' = [reader EXCEPT ![r] = Quiet]
  /\ UNCHANGED <<now, published, cache, subscription>>

\* Mutant: whatever is cached will do.
ByDidAnyAge(r) ==
  /\ reader[r].at = "idle"
  /\ IF cache # Absent THEN Gets(r, now, cache) ELSE Asks(r, Absent)
  /\ UNCHANGED <<now, published, cache, subscription>>

GetFeedByDid(r) ==
  /\ reader[r].at = "idle"
  /\ IF cache # Absent /\ now - cache.timestamp < Fresh THEN Gets(r, now, cache) ELSE Asks(r, Absent)
  /\ UNCHANGED <<now, published, cache, subscription>>
-----------------------------------------------------------------------------
\* Its socket is closed.
Ends(r) == run' = [run EXCEPT ![r] = "ended"] /\ inbox' = [inbox EXCEPT ![r] = <<>>]

\* start(), by the application or by subscribe().
Start(r) ==
  /\ run[r] = "none"
  /\ running' = TRUE /\ handle' = r
  /\ run' = [run EXCEPT ![r] = "connects"]
  /\ late' = [s \in Runs |-> 0]
  /\ UNCHANGED <<now, published, cache, reader, inbox>>

Connected(r) ==
  /\ run[r] = "connects"
  /\ run' = [run EXCEPT ![r] = "checks"]
  /\ UNCHANGED <<now, published, cache, reader, running, handle, inbox, late>>

\* Mutant: the flag is not looked at.
CheckNot(r) ==
  /\ run[r] = "checks"
  /\ run' = [run EXCEPT ![r] = "receives"]
  /\ UNCHANGED <<now, published, cache, reader, running, handle, inbox, late>>

CheckRunning(r) ==
  /\ run[r] = "checks"
  /\ IF running THEN run' = [run EXCEPT ![r] = "receives"] /\ UNCHANGED inbox
     ELSE Ends(r)
  /\ UNCHANGED <<now, published, cache, reader, running, handle, late>>

\* recv() after a second, or a message of another type.
Nothing(r) ==
  /\ run[r] = "receives" /\ inbox[r] = <<>>
  /\ run' = [run EXCEPT ![r] = "checks"]
  /\ UNCHANGED <<now, published, cache, reader, running, handle, inbox, late>>

\* Mutant: the cache is asked.
ReceiveAsksCache(r) ==
  /\ run[r] = "receives" /\ inbox[r] # <<>>
  /\ inbox' = [inbox EXCEPT ![r] = Tail(@)]
  /\ run' = [run EXCEPT ![r] = "fetches"]
  /\ reader' = [reader EXCEPT ![r] =
       [Quiet EXCEPT !.at = IF cache = Absent THEN "asks" ELSE "stores",
                     !.since = Head(inbox[r]),
                     !.value = IF cache = Absent THEN Absent ELSE cache.value]]
  /\ UNCHANGED <<now, published, cache, running, handle, late>>

\* An update: the thread asks for the feed; since is the value announced.
Receive(r) ==
  /\ run[r] = "receives" /\ inbox[r] # <<>>
  /\ inbox' = [inbox EXCEPT ![r] = Tail(@)]
  /\ run' = [run EXCEPT ![r] = "fetches"]
  /\ reader' = [reader EXCEPT ![r] = [Quiet EXCEPT !.at = "asks", !.since = Head(inbox[r])]]
  /\ UNCHANGED <<now, published, cache, running, handle, late>>

\* Mutant: the feed is not waited for.
CallbackEarly(r) ==
  /\ run[r] = "fetches"
  /\ run' = [run EXCEPT ![r] = "calls"]
  /\ UNCHANGED <<now, published, cache, reader, running, handle, inbox, late>>

Callback(r) ==
  /\ run[r] = "fetches" /\ Stored(r)
  /\ Gets(r, reader[r].since, cache')
  /\ run' = [run EXCEPT ![r] = "calls"]
  /\ late' = IF running THEN late ELSE [late EXCEPT ![r] = @ + 1]
  /\ UNCHANGED <<now, published, running, handle, inbox>>

\* Or it raises a TimeoutError, which is taken for that of recv().
CallbackReturns(r) ==
  /\ run[r] = "calls"
  /\ run' = [run EXCEPT ![r] = "checks"]
  /\ reader' = [reader EXCEPT ![r] = Quiet]
  /\ UNCHANGED <<now, published, cache, running, handle, inbox, late>>

\* The request raises a TimeoutError, which is taken for that of recv().
UpdateDropped(r) ==
  /\ run[r] = "fetches" /\ reader[r].at = "asks"
  /\ run' = [run EXCEPT ![r] = "checks"]
  /\ reader' = [reader EXCEPT ![r] = Quiet]
  /\ UNCHANGED <<now, published, cache, running, handle, inbox, late>>

\* The connection fails or is closed, a request fails, or the callback raises: the
\* exception is logged and the thread ends.
RunFails(r) ==
  /\ run[r] \in {"connects", "receives", "fetches", "calls"}
  /\ Ends(r)
  /\ reader' = [reader EXCEPT ![r] = Quiet]
  /\ UNCHANGED <<now, published, cache, running, handle, late>>

\* unsubscribe() within a callback: a thread cannot join itself, join() raises.
UnsubscribeInCallback(r) ==
  /\ run[r] = "calls"
  /\ running' = FALSE
  /\ IF handle = r
     THEN Ends(r) /\ reader' = [reader EXCEPT ![r] = Quiet]
     ELSE UNCHANGED <<run, reader, inbox>>
  /\ UNCHANGED <<now, published, cache, handle, late>>

\* It returns when the thread has ended, or after two seconds: at any time.
Unsubscribe ==
  /\ running' = FALSE
  /\ UNCHANGED <<now, published, cache, reader, handle, run, inbox, late>>
-----------------------------------------------------------------------------
RunStep(r) ==
  \/ Connected(r) \/ CheckRunning(r) \/ Nothing(r) \/ Receive(r)
  \/ run[r] = "fetches" /\ Answered(r)
  \/ Callback(r) \/ CallbackReturns(r) \/ UpdateDropped(r) \/ RunFails(r)
  \/ UnsubscribeInCallback(r)

FeedNext ==
  \/ Tick
  \/ \E r \in Readers :
       \/ \E wanted \in published \cup {Absent} : GetFeed(r, wanted)
       \/ GetFeedByDid(r) \/ Answered(r) \/ Store(r) \/ RequestRaises(r)
  \/ \E r \in Runs : Start(r) \/ Announce(r) \/ RunStep(r)
  \/ Unsubscribe

FeedFairness == \A r \in Runs : WF_feedVars(RunStep(r))
FeedSpec == FeedInit /\ [][FeedNext]_feedVars /\ FeedFairness
-----------------------------------------------------------------------------
FeedTypeOK ==
  /\ now \in 0..MaxTime /\ published \subseteq 0..now
  /\ cache \in DataFeed \cup {Absent}
  /\ \A r \in Readers \cup Runs :
       /\ reader[r].at \in {"idle", "asks", "stores"} /\ reader[r].since \in 0..now
       /\ reader[r].wants \in published \cup {Absent}
       /\ reader[r].value \in published \cup {Absent}
       /\ reader[r].timestamp \in (0..now) \cup {Absent}
  /\ running \in BOOLEAN /\ handle \in Runs \cup {Absent}
  /\ \A r \in Runs :
       /\ run[r] \in {"none", "connects", "checks", "receives", "fetches", "calls",
                      "ended"}
       /\ inbox[r] \in Seq(published)
       /\ (run[r] = "fetches") = (reader[r].at # "idle")

(* What a callback is given is not older than the update that it is called for,
   although other threads fill the cache with versions and late answers. *)
CallbackCurrent ==
  \A r \in Runs : run[r] = "calls" => reader[r].value >= reader[r].since

(* "Check if still fresh (< 60 seconds old)": what a reader gets as the latest value,
   with a timestamp that is its own, was the latest at some moment since 60 seconds
   before it asked, although the cache is also filled with versions, and with answers
   that come late.  Of a value that was stamped on arrival nothing of the kind holds:
   an old version passes for the latest value. *)
LatestIsRecent ==
  \A r \in Readers :
    (reader[r].at = "idle" /\ reader[r].value # Absent
       /\ reader[r].timestamp = reader[r].value) =>
    \E then \in 0..now :
      /\ then > reader[r].since - Fresh
      /\ reader[r].value = Max({v \in published : v <= then})

(* After unsubscribe() each thread of the subscription calls back once more at
   most, unless the subscription is started again. *)
OneLateCallback == \A r \in Runs : late[r] <= 1

(* After unsubscribe() the threads end, unless it is started again. *)
ThreadsEnd ==
  <>[]~running => <>[](\A r \in Runs : run[r] \in {"none", "ended"})
=============================================================================
