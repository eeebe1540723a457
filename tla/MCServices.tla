------------------------------ MODULE MCServices ------------------------------
\* The services around the node's interfaces, for TLC: a behaviour is one of the
\* HTTP client, of the wait for a job, of an oracle feed, or of the streams of the
\* device runtime, which share nothing.
EXTENDS MCStreams, HttpClient, JobWaiter, OracleFeeds

CONSTANTS a1, a2, h1, h2, h3, r1, u1, u2   \* model values

VARIABLE part

servicesVars == <<streamVars, httpVars, jobVars, feedVars, part>>

Init == /\ part \in {"streams", "http", "job", "feed"}
        /\ StreamInit /\ HttpInit /\ JobInit /\ FeedInit
        /\ part = "job" \/ doneAt = 0

PartOfStreams ==
  part = "streams" /\ StreamNext /\ UNCHANGED <<httpVars, jobVars, feedVars, part>>
PartOfHttp ==
  part = "http" /\ HttpNext /\ UNCHANGED <<streamVars, jobVars, feedVars, part>>
PartOfJob ==
  part = "job" /\ JobNext /\ UNCHANGED <<streamVars, httpVars, feedVars, part>>
PartOfFeed ==
  part = "feed" /\ FeedNext /\ UNCHANGED <<streamVars, httpVars, jobVars, part>>

Next == PartOfStreams \/ PartOfHttp \/ PartOfJob \/ PartOfFeed

Spec == Init /\ [][Next]_servicesVars /\ StreamFairness /\ FeedFairness

(* The type invariants of the services. *)
ServicesTypeOK == HttpTypeOK /\ JobTypeOK /\ FeedTypeOK
=============================================================================
