SPECIFICATION HSpec
CONSTANTS
  AddrSpace = 32
  Unit = 2
  PalBase = 28
  PalSize = 4
  PalGroup = 2
  PageSize = 8
  BigStep = 8
  StoreData <- MCStoreData
  MaxAccesses = 3
INVARIANTS
  TypeOK
  NametablesPaired
PROPERTIES
  AccessSequence
  PaletteKept
  ImplementsDataPort
