\* A completion that happens while the client is disconnected.
SPECIFICATION Spec
CONSTANTS
  i1 = i1
  i2 = i2
  j1 = j1
  j2 = j2
  Jobs = {j1, j2}
  Iterators = {i1, i2}
  Watch <- MCWatch
  LastStage = 1
  UsersBreak = FALSE
PROPERTIES
  StopsWhenAllComplete
