\* Safety of one application coroutine against the client's own tasks.
SPECIFICATION Spec
CONSTANTS
  Users = {u1}
  Reconnector = reconnector
  Conns = {c1, c2}
  NoConn = NoConn
  MaxAttempts = 2
  HeartbeatEnabled = TRUE
  ReconnectEnabled = TRUE
  HasSubscriptions = TRUE
  UsersCancel = TRUE
  RecvErrorSuspends = FALSE
  KeepsHistory = TRUE
INVARIANTS
  TypeOK
  DialExclusion
  ConnectedIsServed
  FullDisconnectIsFinal
  SessionInvariant
PROPERTIES
  ConnectedSocketStays
SYMMETRY
  ConnSymmetry
\* A frozen event loop really stops.
CHECK_DEADLOCK FALSE
