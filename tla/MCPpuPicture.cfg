SPECIFICATION HSpec
CONSTANTS
  NumColours = 2
  Height = 2
  VBlankLine = 2
  LastLine = 3
  Width = 2
  BgWidths = {0, 2}
  SpritePixels <- MCSprites
  Matches = {FALSE, TRUE}
  Backdrops = {1, 3}
  CtrlValues = {FALSE}
  MaskValues <- MCMasks
INVARIANTS
  TypeOK
  NoStaleLines
  BackgroundBounded
  ShowsPicture
PROPERTY
  OneHitPerFrame
