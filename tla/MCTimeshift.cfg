SPECIFICATION Spec
CONSTANTS
  PtsModulus = 32
  ConfigLimit = 2
  ConfigDuration = 50
  Capacity = 4
  Duration = 60
  MarkLimit = 3
  BackJump = 2
  ForwardJump = 6
  WebmBackJump = 50
  WebmForwardJump = 90
  Lead = 11
  RandomReach = 22
  Modes <- MCModes
  Inputs <- MCInputs
  Blocks <- MCBlocks
  Pids = {2}
  Targets <- MCTargets
  MaxOffset = 6
  MaxGeneration = 1
INVARIANTS
  RingIntact
  MarksDescribeRetained
  SeekIsUsable
  HeldIsExactOrRefused
  WholeRecords
PROPERTIES
  ImplementsHistory
  ExpiredStaysExpired
  IndexedBeforeOverwritten
