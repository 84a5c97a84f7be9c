SPECIFICATION ProgramsSpec
CONSTANTS
  Half <- MCHalf
  N <- MCN
  Programs <- MCJump
  Image <- MCImage
  Pointers <- MCPointers
  Origin <- MCOrigin
  Count = 2
INVARIANT
  JumpReadsFirstCell
CHECK_DEADLOCK FALSE
