SPECIFICATION MachineSpec
CONSTANTS
  Text <- MCText
  Start = 0
  Vector = 40
  Space = 64
  PageSize = 8
  Bytes = {2, 5}
  MaxDepth = 2
  NumColours = 64
  Height = 2
  VBlankLine = 3
  LastLine = 5
  Width = 1
  BgWidths = {0}
  SpritePixels <- MCNoSprites
  Matches = {FALSE}
  Backdrops = {0}
  CtrlValues = {FALSE, TRUE}
  MaskValues <- MCMasks
PROPERTIES
  ImplementsInstructions
  NmiKeepsComing
CHECK_DEADLOCK FALSE
