\* Blocks are allocated, shared, freed, merged and trimmed; commands depend on one
\* another across two streams; two callers share a cache that holds one function.
SPECIFICATION Spec
CONSTANTS
  b1 = b1
  b2 = b2
  b3 = b3
  Blocks = {b1, b2, b3}
  SizeClasses <- MCSizeClasses
  Requests = {1, 3, 5}
  Addresses = {1, 4}
  MaxRefs = 2
  s1 = s1
  s2 = s2
  e1 = e1
  t1 = t1
  t2 = t2
  Streams = {s1, s2}
  Commands = {1, 2}
  Events = {e1}
  Threads = {t1, t2}
  Work <- MCWork
  None = None
  c1 = c1
  c2 = c2
  k1 = k1
  k2 = k2
  k3 = k3
  Callers = {c1, c2}
  Keys = {k1, k2, k3}
  Persistent = {k1}
  MaxSize = 1
  MaxOrder = 4
INVARIANTS
  DeviceTypeOK
  OneOwner
  OfTheClass
  UsageExact
  NothingLost
  CacheInStep
  CacheSound
PROPERTIES
  SynchronizeWaits
  StreamsInOrder
SYMMETRY
  RuntimeSymmetry
\* The application may hold every block it can, and a worker may have died.
CHECK_DEADLOCK FALSE
