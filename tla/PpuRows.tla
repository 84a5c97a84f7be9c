-------------------------------- MODULE PpuRows --------------------------------
(***************************************************************************)
(* What one call of ppu_cycle draws: the two passes over the background,   *)
(* the sprites, and the comparison of sprite 0 with the background, from   *)
(* the tables a program keeps in PPU memory.  PpuFrame leaves all this     *)
(* open and keeps the frame.                                               *)
(*                                                                         *)
(* A tile has Tile rows and columns, a nametable Tiles columns of tiles; a *)
(* byte has Width = Tile * Tiles values, so Width is also the bound of a   *)
(* scroll value and of a sprite's coordinates.  The pictures do not change:*)
(* the registers and sprite memory do.                                     *)
(***************************************************************************)
EXTENDS Integers, FiniteSets

CONSTANTS
  Tile,          (* 8                                                       *)
  Tiles,         (* 32                                                      *)
  Height,        (* rows of the screen: 240                                 *)
  ScreenRows,    (* rows of ppu_screen_background: 248                      *)
  LastLine,      (* 262                                                     *)
  Names,         (* [table, tile row, tile column]: the tile there, in the  *)
                 (* four nametables and, as a fifth, the memory after them  *)
  Patterns,      (* [half, tile, row, column]: its colour in that half of   *)
                 (* the pattern tables, 0 is transparent                    *)
  Palettes,      (* [table, block row, block column]: of 2 * 2 tiles        *)
  Sprites,       (* the sprites' places in sprite memory: 0 .. 63           *)
  SpriteValues,  (* what the program stores there                           *)
  Scrolls,       (* what it writes to PPUSCROLL_X                           *)
  Switches,      (* its PPUMASK and PPUCTRL                                 *)
  MaxWrites      (* bound of the model: the program's writes                *)

Width == Tile * Tiles

Half == {0, 1}

(* PPUMASK bits 3, 4 and 1; PPUCTRL bits 5, 0 and 1, 4 and 3.               *)
Switch ==
  [bg : BOOLEAN, spr : BOOLEAN, left : BOOLEAN,
   tall : BOOLEAN, base : 0 .. 3, bgHalf : Half, sprHalf : Half]

(* The tiles of either half of the pattern tables.                          *)
Pictures == DOMAIN Patterns[0]

ASSUME RowsAssumption ==
  /\ Tile \in Nat \ {0} /\ Tiles \in Nat \ {0} /\ Tiles % 4 = 0
  /\ Height \in Nat /\ ScreenRows \in Nat /\ LastLine \in Nat
  /\ Height < ScreenRows /\ ScreenRows < Width /\ Width < LastLine
  /\ 0 \in Sprites /\ IsFiniteSet(Sprites) /\ MaxWrites \in Nat
  /\ Scrolls \subseteq 0 .. Width - 1
  /\ Switches \subseteq Switch
  /\ Patterns \in [Half -> [Pictures -> [0 .. Tile - 1 -> [0 .. Tile - 1 -> 0 .. 3]]]]
  /\ Names \in [0 .. 4 -> [0 .. LastLine \div Tile -> [0 .. Tiles - 1 -> Pictures]]]
  /\ Palettes \in
       [0 .. 4 -> [0 .. 2 * (LastLine \div (4 * Tile)) + 1 -> [0 .. Tiles \div 2 - 1 -> 0 .. 3]]]
  /\ SpriteValues \subseteq [x : 0 .. Width - 1, y : 0 .. Width - 1, tile : Pictures,
                             vflip : BOOLEAN, hflip : BOOLEAN, behind : BOOLEAN]

VARIABLES
  scanline,
  scroll,        (* PPUSCROLL_X                                             *)
  switch,        (* PPUMASK and PPUCTRL                                     *)
  oam,           (* sprite memory                                           *)
  background,    (* ppu_screen_background, one row of memory                *)
  row,           (* what the last scanline added to the buffer bg ...       *)
  rowSize,       (* ... and by how much it grew                             *)
  drawn,         (* the sprite buffers bbg and fg, as sets ...              *)
  drawnSize,     (* ... and by their size                                   *)
  hit,           (* ppu_sprite_hit_occured                                  *)
  writes

registers == <<scroll, switch, oam>>
canvas == <<background, row, rowSize, drawn, drawnSize, hit>>
vars == <<scanline, registers, canvas, writes>>

Column == 0 .. Width - 1
Table == {0, 1}
Layer == {"bbg", "fg"}

(* C keeps the columns of ppu_screen_background one after the other, and    *)
(* the code's row index may pass the end of one.                            *)
Cell(x, y) == x * ScreenRows + y
Cells == 0 .. (Width + Tile) * ScreenRows - 1

Pixel == [x : Column, y : 0 .. Height - 1, c : 0 .. 3]

TypeOK ==
  /\ scanline \in -1 .. LastLine - 1
  /\ scroll \in Column /\ switch \in Switches
  /\ oam \in [Sprites -> SpriteValues]
  /\ background \in [Cells -> 0 .. 3]
  /\ row \subseteq [x : Column, y : 0 .. Height - 1, c : 0 .. 3, p : 0 .. 3]
  /\ \A l \in Layer : drawn[l] \subseteq Pixel /\ drawnSize[l] >= Cardinality(drawn[l])
  /\ hit \in BOOLEAN

(* The end of a frame in which the program set its registers, nothing       *)
(* having been shown before.                                                *)
Init ==
  /\ scanline = -1
  /\ scroll \in Scrolls /\ switch \in Switches
  /\ oam \in [Sprites -> SpriteValues]
  /\ background = [i \in Cells |-> 0]
  /\ row = {} /\ rowSize = 0
  /\ drawn = [l \in Layer |-> {}] /\ drawnSize = [l \in Layer |-> 0]
  /\ hit = FALSE
  /\ writes = 0

-----------------------------------------------------------------------------
(* The background: pass t draws the nametable t after the base.             *)

ColourIn(table, c, line) ==
  Patterns[switch.bgHalf][Names[table][line \div Tile][c \div Tile]]
          [line % Tile][c % Tile]

Colour(t, c, line) == ColourIn(switch.base + t, c, line)

(* The attribute byte of an area of 4 * 4 tiles, as an artist's tool packs  *)
(* it, and the code unpacks it.                                             *)
Attribute(t, ax, ay) ==
  LET p(bx, by) == Palettes[switch.base + t][2 * ay + by][2 * ax + bx]
  IN  p(0, 0) + 4 * p(1, 0) + 16 * p(0, 1) + 64 * p(1, 1)

Palette(t, c, line) ==
  LET tile_x == c \div Tile
      top == line % (4 * Tile) < 2 * Tile
      left == tile_x % 4 < 2
      byte == Attribute(t, tile_x \div 4, line \div (4 * Tile))
  IN  ((byte \div (IF top THEN 1 ELSE 16)) \div (IF left THEN 1 ELSE 4)) % 4

OnScreen(t, c) == c - scroll + t * Width

(* Slip: the tile at the right edge is skipped if it is not all on screen.  *)
ScannedShort(t, line) ==
  {c \in Column :
    LET tile_x == c \div Tile
    IN  /\ tile_x >= (IF switch.left THEN 0 ELSE 1)
        /\ OnScreen(t, tile_x * Tile) <= Width - Tile
        /\ Colour(t, c, line) # 0}

(* The opaque columns of the tiles a pass does not skip.                    *)
Scanned(t, line) ==
  {c \in Column :
    LET tile_x == c \div Tile
    IN  /\ tile_x >= (IF switch.left THEN 0 ELSE 1)
        /\ OnScreen(t, tile_x * Tile) <= Width
        /\ Colour(t, c, line) # 0}

(* What both passes add; pixbuf_add drops what lies past the screen.        *)
Added(line) ==
  {a \in Table \X Column :
     /\ a[2] \in Scanned(a[1], line) /\ OnScreen(a[1], a[2]) \in Column
     /\ line + 1 < Height}

(* The second pass writes over the first: the cell is that of the tile in   *)
(* its table, wherever the tile is shown.                                   *)
BackgroundAfter(line) ==
  [i \in Cells |->
    LET c == (i - line) \div ScreenRows
        here(t) == i = Cell(c, line) /\ c \in Scanned(t, line)
    IN  IF here(1) THEN Colour(1, c, line)
        ELSE IF here(0) THEN Colour(0, c, line)
        ELSE background[i]]

DrawBackground(line) ==
  IF switch.bg
  THEN /\ row' = {[x |-> OnScreen(a[1], a[2]), y |-> line + 1,
                   c |-> Colour(a[1], a[2], line), p |-> Palette(a[1], a[2], line)] :
                    a \in Added(line)}
       /\ rowSize' = Cardinality(Added(line))
       /\ background' = BackgroundAfter(line)
  ELSE row' = {} /\ rowSize' = 0 /\ UNCHANGED background

-----------------------------------------------------------------------------
(* The sprites                                                              *)

SpriteHeight == IF switch.tall THEN 2 * Tile ELSE Tile

(* Slip: a sprite is met on every scanline below its first.                 *)
MetBelow(n, line) == oam[n].y <= line

Met(n, line) == oam[n].y <= line /\ line <= oam[n].y + SpriteHeight

(* The colour of column x of a sprite on a scanline.                        *)
SpriteColour(n, x, line) ==
  LET s == oam[n]
      y_in_tile == line % Tile
  IN  Patterns[switch.sprHalf][s.tile][IF s.vflip THEN Tile - 1 - y_in_tile ELSE y_in_tile]
                                     [IF s.hflip THEN Tile - 1 - x ELSE x]

Opaque(n, line) == {x \in 0 .. Tile - 1 : SpriteColour(n, x, line) # 0}

(* Slip: the row drawn is counted from the scanline.                        *)
SpriteRowAtLine(n, line) == line

SpriteRow(n, line) == oam[n].y + (line % Tile)

(* The pixels of sprite n that pixbuf_add takes.                            *)
SpritePixels(n, line) ==
  {[x |-> oam[n].x + x, y |-> SpriteRow(n, line) + 1, c |-> SpriteColour(n, x, line)] :
     x \in {k \in Opaque(n, line) :
              oam[n].x + k < Width /\ SpriteRow(n, line) + 1 < Height}}

In(l, n) == oam[n].behind <=> l = "bbg"

MetIn(l, line) == {n \in Sprites : In(l, n) /\ Met(n, line)}

DrawSprites(line) ==
  IF switch.spr
  THEN /\ drawn' = [l \in Layer |->
                      drawn[l] \cup UNION {SpritePixels(n, line) : n \in MetIn(l, line)}]
       /\ drawnSize' = [l \in Layer |->
            drawnSize[l] + Cardinality(UNION {{n} \X SpritePixels(n, line) :
                                                n \in MetIn(l, line)})]
  ELSE UNCHANGED <<drawn, drawnSize>>

(* Slip: the background is looked up where the pixel is put, a row lower.   *)
HitsBelow(line) ==
  /\ switch.spr /\ switch.bg /\ Met(0, line)
  /\ \E x \in Opaque(0, line) :
       background'[Cell(oam[0].x + x, SpriteRow(0, line) + 1)] = SpriteColour(0, x, line)

Hits(line) ==
  /\ switch.spr /\ switch.bg /\ Met(0, line)
  /\ \E x \in Opaque(0, line) :
       background'[Cell(oam[0].x + x, SpriteRow(0, line))] = SpriteColour(0, x, line)

-----------------------------------------------------------------------------
(* ppu_cycle: the rest of what it does is in PpuFrame.                      *)

DrawLine ==
  LET line == scanline + 1
  IN  /\ line # LastLine
      /\ scanline' = line
      /\ DrawBackground(line) /\ DrawSprites(line)
      /\ hit' = (hit \/ Hits(line))
      /\ UNCHANGED <<registers, writes>>

EndFrame ==
  LET line == scanline + 1
  IN  /\ line = LastLine
      /\ scanline' = -1
      /\ DrawBackground(line)
      /\ drawn' = [l \in Layer |-> {}] /\ drawnSize' = [l \in Layer |-> 0]
      /\ hit' = FALSE
      /\ UNCHANGED <<registers, writes>>

(* The program, between two calls.                                          *)
Write ==
  /\ writes < MaxWrites /\ writes' = writes + 1
  /\ UNCHANGED <<scanline, canvas>>

WriteScroll(s) == Write /\ scroll' = s /\ UNCHANGED <<switch, oam>>

(* $2001 and $2000: each store leaves the other register as it is.          *)
MaskBits(b) == <<b.bg, b.spr, b.left>>
CtrlBits(b) == <<b.tall, b.base, b.bgHalf, b.sprHalf>>

WriteMask(b) ==
  /\ CtrlBits(b) = CtrlBits(switch)
  /\ Write /\ switch' = b /\ UNCHANGED <<scroll, oam>>

WriteCtrl(b) ==
  /\ MaskBits(b) = MaskBits(switch)
  /\ Write /\ switch' = b /\ UNCHANGED <<scroll, oam>>

WriteSprite(n, v) == Write /\ oam' = [oam EXCEPT ![n] = v] /\ UNCHANGED <<scroll, switch>>

Program ==
  \/ \E s \in Scrolls : WriteScroll(s)
  \/ \E b \in Switches : WriteMask(b) \/ WriteCtrl(b)
  \/ \E n \in Sprites, v \in SpriteValues : WriteSprite(n, v)

Next == DrawLine \/ EndFrame \/ Program

Spec == Init /\ [][Next]_vars

-----------------------------------------------------------------------------
Draws == scanline' # scanline
Line == scanline + 1

(* The nametables lie two by two, and go on from one into the one beside it.*)
Beside(table) == IF table % 2 = 0 THEN table + 1 ELSE table - 1

(* The two nametables side by side, as the program means them: the colour   *)
(* and palette of a column of a scanline.  With the leftmost columns off,   *)
(* each table lacks its first tile.                                         *)
World(w, line) ==
  LET table == IF w < Width THEN switch.base ELSE Beside(switch.base)
      c == w % Width
  IN  [c |-> IF ~switch.left /\ c < Tile THEN 0 ELSE ColourIn(table, c, line),
       p |-> Palettes[table][line \div (2 * Tile)][c \div (2 * Tile)]]

(* A program that scrolls from a nametable into the next in memory, or from *)
(* the second, which that of mirrored tables goes on into the first.        *)
Seamless ==
  \/ scroll = 0
  \/ LET next == switch.base + 1
     IN  /\ Names[next] = Names[Beside(switch.base)]
         /\ Palettes[next] = Palettes[Beside(switch.base)]

(* A scanline's background is the part of the base nametable and the one    *)
(* beside it that the scroll value selects, opaque columns only, each once: *)
(* the two passes of ppu_draw_background_scanline meet without a gap or an  *)
(* overlap, whatever the scroll, and no row adds more pixels than it has    *)
(* columns.                                                                 *)
RowShowsPicture ==
  [][Draws /\ Seamless =>
       /\ row' = IF switch.bg /\ Line + 1 < Height
                 THEN {[x |-> x, y |-> Line + 1, c |-> World(x + scroll, Line).c,
                        p |-> World(x + scroll, Line).p] :
                         x \in {k \in Column : World(k + scroll, Line).c # 0}}
                 ELSE {}
       /\ rowSize' = Cardinality(row')]_vars

(* Where sprite 0 and the background the scanline shows have one colour.    *)
Overlaps ==
  \E x \in Opaque(0, Line) :
    /\ oam[0].x + x \in Column
    /\ World(oam[0].x + x, Line).c = SpriteColour(0, x, Line)

(* The program splits the screen at sprite 0, on a row the bitmap has.      *)
Splitting ==
  /\ scroll = 0 /\ switch.bg /\ switch.spr
  /\ oam[0].y % Tile = 0 /\ oam[0].x >= Tile
  /\ oam[0].y <= Line /\ Line < oam[0].y + Tile
  /\ Line < ScreenRows

(* Splitting the screen: a program that does not scroll where sprite 0 is,  *)
(* and has put it on a row of tiles and not on the first column of them, is *)
(* never left waiting for a hit that is to be seen on the screen; and if    *)
(* nothing changes it gets none that is not, unless the sprite is so high   *)
(* up that the lines after the picture have spoilt its cells.               *)
HitAtOverlap ==
  [][Draws /\ Splitting =>
       /\ Overlaps => hit'
       /\ hit' /\ writes = 0 /\ oam[0].y > LastLine - ScreenRows => hit \/ Overlaps]_vars

(* "Skipping off-screen pixels", in ppu_draw_background_scanline: what is  *)
(* left for the sprite-0 check is of tiles with a column on the screen.     *)
OffScreenSkipped ==
  [][\A c \in Column :
       Draws /\ Line < ScreenRows /\ background'[Cell(c, Line)] # background[Cell(c, Line)] =>
         \E t \in Table, k \in Column :
           /\ k \div Tile = c \div Tile /\ OnScreen(t, k) \in Column
           /\ background'[Cell(c, Line)] = Colour(t, c, Line)]_vars

=============================================================================
