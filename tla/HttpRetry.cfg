\* A request that times out.
SPECIFICATION HttpSpec
CONSTANTS
  Tasks = {a1}
  Sessions = {h1}
  MaxAttempts = 3
  NoSession = NoSession
INVARIANTS
  TransientRetried
CHECK_DEADLOCK FALSE
