SPECIFICATION Spec
CONSTANTS
  StackSize = 8
  PullLimit = 10
  Code = {33000}
  Vector = 50000
  Loaded = {0}
PROPERTIES
  PhpPushesStatus
