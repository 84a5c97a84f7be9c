SPECIFICATION HSpec
VIEW Live
CONSTANTS
  StackSize = 8
  PullLimit = 10
  Code = {33000}
  Vector = 50000
  Loaded = {0}
  MaxFrames = 3
INVARIANTS
  FramesIntact
PROPERTIES
  Restores
  PageKept
