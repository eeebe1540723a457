\* A smaller block of the same class.
SPECIFICATION PoolSpec
CONSTANTS
  b1 = b1
  b2 = b2
  b3 = b3
  Blocks = {b1, b2, b3}
  SizeClasses <- MCSizeClasses
  Requests = {3, 4}
  Addresses = {1}
  MaxRefs = 1
INVARIANTS
  LargeEnough
CHECK_DEADLOCK FALSE
