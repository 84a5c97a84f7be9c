\* Sprite memory of four cells, RAM of two pages, and a third page that the
\* mask of the copy folds onto the first.
SPECIFICATION HSpec
CONSTANTS
  OamSize = 4
  RamPages = 2
  Stored = {1, 2}
  Pages = {0, 1, 2}
  Cells = {0, 3}
INVARIANTS
  OamIsARing
PROPERTIES
  CopyRotates
