\* disconnect() during the back-off between two reconnection attempts.
SPECIFICATION Spec
CONSTANTS
  Users = {u1}
  Reconnector = reconnector
  Conns = {c1, c2}
  NoConn = NoConn
  MaxAttempts = 2
  HeartbeatEnabled = FALSE
  ReconnectEnabled = TRUE
  HasSubscriptions = FALSE
  UsersCancel = FALSE
  RecvErrorSuspends = TRUE
  KeepsHistory = TRUE
INVARIANTS
  DisconnectDisconnects
\* A frozen event loop really stops.
CHECK_DEADLOCK FALSE
