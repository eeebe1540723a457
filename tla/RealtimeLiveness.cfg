\* Liveness when nothing is resubscribed and nobody cancels a connect().
SPECIFICATION Spec
CONSTANTS
  Users = {u1}
  Reconnector = reconnector
  Conns = {c1, c2}
  NoConn = NoConn
  MaxAttempts = 1
  HeartbeatEnabled = TRUE
  ReconnectEnabled = TRUE
  HasSubscriptions = FALSE
  UsersCancel = FALSE
  RecvErrorSuspends = TRUE
  KeepsHistory = FALSE
PROPERTIES
  ReconnectingEnds
  ReconnectLoopEnds
  ConnectingEnds
  DeadSocketNoticed
\* A frozen event loop really stops.
CHECK_DEADLOCK FALSE
