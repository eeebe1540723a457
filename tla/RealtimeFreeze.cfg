\* Two receive loops on one socket, Python 3.12 or later.
SPECIFICATION Spec
CONSTANTS
  Users = {u1}
  Reconnector = reconnector
  Conns = {c1, c2}
  NoConn = NoConn
  MaxAttempts = 1
  HeartbeatEnabled = TRUE
  ReconnectEnabled = TRUE
  HasSubscriptions = FALSE
  UsersCancel = FALSE
  RecvErrorSuspends = FALSE
  KeepsHistory = TRUE
INVARIANTS
  NeverFrozen
CONSTRAINT
  Undisturbed
\* A frozen event loop really stops.
CHECK_DEADLOCK FALSE
