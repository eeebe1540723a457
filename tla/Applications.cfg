\* Each of the parts by itself.
SPECIFICATION Spec
CONSTANTS
  h1 = h1
  h2 = h2
  h3 = h3
  o1 = o1
  i1 = i1
  v1 = v1
  v2 = v2
  k1 = k1
  w1 = w1
  w2 = w2
  t1 = t1
  t2 = t2
  a1 = a1
  a2 = a2
  Zeros = Zeros
  NoHolder = NoHolder
  Stranger = Stranger
  Unknown = Unknown
  Absent = Absent
  Unset = Unset
  Nobody = Nobody
  NoDevice = NoDevice
  Blank = Blank
  NoScheduler = NoScheduler
  Whole = Whole
  Raises = Raises
  Nothing = Nothing
  NoState = NoState
  NoSLA = NoSLA
  NoFramework = NoFramework
  Pending = Pending
  NothingSeen = NothingSeen
  Mnemonic = Mnemonic
  Parts = {"wallet", "provenance", "circuits", "proofs", "registry", "middleware", "wrapper", "pool",
           "device", "parallel", "pipeline", "schedule", "tensors", "layers", "modules",
           "optimizer", "calibration", "conversion", "compliance", "sanitizer", "presidio"}
  Holders = {h1, h2, h3}
  MaxSignatures = 1
  MaxExports = 1
  MaxExchanges = 1
  Oracles = {o1}
  Issuers = {i1}
  Credentials = {v1, v2}
  Checkers = {k1}
  LastDay = 1
  Lifetimes = {1}
  MaxAges = {1}
  Files <- MCFiles
  Inputs = {64, 200000}
  Bits = {8}
  MaxCircuits = 1
  LastDate = 1
  MaxAge = 0
  MaxProofs = 1
  AttestedBy = {"nitro", "trustzone"}
  MaxModels = 1
  MaxBody = 4
  MaxCapture = 2
  Tellers = {w1, w2}
  Values <- MCValues
  Users = {t1, t2}
  Preallocated = 1
  MaxHeld = 2
  Objects = {1, 2}
  Holding = {t1, t2}
  MaxDepth = 2
  Workers = {0, 1, 2}
  ParamSizes = {1, 2, 3}
  MaxParams = 4
  BucketCap = 4
  Stages = {0, 1, 2}
  MaxMicrobatches = 3
  MaxRequests = 1
  BaseLR = 4000
  WorldSizes = {1, 2}
  MaxEpoch = 2
  MaxLR = 8000
  NewShapes <- MCNewShapes
  NewDTypes = {"int32", "float16"}
  MaxTensors = 3
  InputShapes <- MCInputShapes
  Features = {2, 3, 4}
  HeadCounts = {1, 2}
  MaxLayers = 3
  Mods = {1, 2}
  Names = {0, 1}
  Parameters = {1, 2}
  MaxPlain = 1
  Groups = {1, 2}
  Optimizers = {1, 2}
  MaxStates = 2
  MaxStep = 1
  MaxMoves = 1
  Samples <- MCSamples
  Regions = {"us-east"}
  MaxRepeats = 1
  Length = 3
  Patterns = {1, 2}
  Width <- MCWidth
  Score <- MCScore
  Required = {1}
  Threshold = 5
  Shown = 1
  MaxConcurrent = 1
  Calls = {a1, a2}
  BatchValues <- MCBatchValues
  QuantBits = 3
  ModelSize = 2
  MaxBatches = 2
INVARIANTS
  ApplicationsTypeOK
  KeysFit
  ToldOnGrounds
  ProofsHoldUp
  WrappersFaithful
  DevicesShared
  TrainingHolds
  ModelsHold
  DataGuarded
\* The bounds end most parts.
CHECK_DEADLOCK FALSE
