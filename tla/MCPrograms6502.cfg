SPECIFICATION ProgramsSpec
CONSTANTS
  Half <- MCHalf
  N <- MCN
  Programs <- MCPrograms
  Image <- MCImage
  Pointers <- MCPointers
  Origin <- MCOrigin
  Count = 2
INVARIANTS
  RunningResult
  BranchesOrder
  LoopsMoveBytes
  JumpLands
  Synchronised
PROPERTIES
  SignedOverflow
  CompareOrders
  RotationsLoseNothing
  ProgramEnds
CHECK_DEADLOCK FALSE
