\* A reconnection whose resubscription fails.
SPECIFICATION Spec
CONSTANTS
  Users = {u1}
  Reconnector = reconnector
  Conns = {c1, c2}
  NoConn = NoConn
  MaxAttempts = 1
  HeartbeatEnabled = TRUE
  ReconnectEnabled = TRUE
  HasSubscriptions = TRUE
  UsersCancel = FALSE
  RecvErrorSuspends = TRUE
  KeepsHistory = FALSE
PROPERTIES
  ReconnectingEnds
\* A frozen event loop really stops.
CHECK_DEADLOCK FALSE
