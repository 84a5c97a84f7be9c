SPECIFICATION ConsoleSpec
CONSTANTS
  Blocks <- MCBlocks
  Pages <- MCPages
  Stored = {"s"}
  Mappers = {0, 1, 3}
  Cartridges <- MCCartridges
  RomSize = 8
  MaxBlocks = 4
  MaxPages = 2
  MaxStores = 1
  Game = "game"
  Height = 2
  VBlankLine = 2
  LastLine = 3
  AddrSpace = 32
  Unit = 2
  PalBase = 28
  PalSize = 4
  PalGroup = 2
  PageSize = 16
  BigStep = 4
  OamSize = 2
  RamPages = 2
  Lasting = 2
  SpritePage = 1
  Place = 18
  MaxPresses = 2
  Upsets <- MCUpsets
INVARIANTS
  LoadedWhole
  Listening
PROPERTIES
  RestartsProgram
  NametableHeals
  PressCounts
  ImplementsSlideshow
CHECK_DEADLOCK FALSE
