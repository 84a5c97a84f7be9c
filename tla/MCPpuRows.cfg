SPECIFICATION HSpec
CONSTRAINT ScrollingOrShowing
CONSTANTS
  Tile = 2
  Tiles = 4
  Height = 6
  ScreenRows = 7
  LastLine = 9
  Names <- MCNames
  Patterns <- MCPatterns
  Palettes <- MCPalettes
  Sprites = {0, 1}
  SpriteValues <- MCSpriteValues
  Scrolls = {0, 1, 2, 3, 4, 5, 6, 7}
  Switches <- MCSwitches
  MaxWrites = 1
INVARIANTS
  SpritesWhole
  SpritesBounded
PROPERTIES
  RowShowsPicture
  HitAtOverlap
