\* Two coroutines share an HTTP client; a job is done at any time; a thread reads a
\* feed that has a subscription, started twice; two streams with events.
SPECIFICATION Spec
CONSTANTS
  s1 = s1
  s2 = s2
  e1 = e1
  t1 = t1
  t2 = t2
  Streams = {s1, s2}
  Commands = {1, 2}
  Events = {e1}
  Threads = {t1}
  Work <- MCEventWork
  None = None
  a1 = a1
  a2 = a2
  h1 = h1
  h2 = h2
  h3 = h3
  Tasks = {a1, a2}
  Sessions = {h1, h2, h3}
  MaxAttempts = 3
  NoSession = NoSession
  PollInterval = 2
  Timeout = 5
  Slow = 3
  Never = 20
  r1 = r1
  u1 = u1
  u2 = u2
  Readers = {r1}
  Runs = {u1, u2}
  Fresh = 1
  MaxTime = 1
  MaxMessages = 1
  Absent = Absent
INVARIANTS
  ServicesTypeOK
  NoSessionLost
  TimeoutNotEarly
  CallbackCurrent
  LatestIsRecent
  OneLateCallback
PROPERTIES
  OnlyWaysToStall
  ThreadsEnd
\* A wait ends, a worker may have died, and the names of sessions run out.
CHECK_DEADLOCK FALSE
