------------------------------- MODULE MCPpuRows -------------------------------
(* A screen of 8 * 6 pixels in tiles of two.                              *)
EXTENDS PpuRowsHistory

(* Tile 0 is transparent, tile 1 opaque, the others have holes; the other   *)
(* half of the tables has the same tiles in another order.                  *)
TilePatterns ==
  [tile \in 0 .. 3 |->
    CASE tile = 0 -> [y \in 0 .. 1 |-> [x \in 0 .. 1 |-> 0]]
      [] tile = 1 -> [y \in 0 .. 1 |-> [x \in 0 .. 1 |-> 1 + y]]
      [] tile = 2 -> [y \in 0 .. 1 |-> [x \in 0 .. 1 |-> IF x = y THEN 3 ELSE 0]]
      [] tile = 3 -> [y \in 0 .. 1 |-> [x \in 0 .. 1 |-> 2 * y + x]]]

MCPatterns ==
  [half \in 0 .. 1 |-> [tile \in 0 .. 3 |-> TilePatterns[(tile + half) % 4]]]

(* Mirrored so that the third nametable is the first and the fourth the     *)
(* second; the memory after them is as it comes.                            *)
MCNames ==
  [t \in 0 .. 4 |-> [y \in 0 .. 4 |-> [x \in 0 .. 3 |->
     IF t = 4 THEN 0 ELSE (x + 2 * y + 3 * (t % 2) + x * y) % 4]]]

MCPalettes ==
  [t \in 0 .. 4 |-> [y \in 0 .. 3 |-> [x \in 0 .. 1 |->
     IF t = 4 THEN 0 ELSE (x + 2 * y + (t % 2)) % 4]]]

(* Each is one store to $2000 or $2001 away from another.                   *)
On == [bg |-> TRUE, spr |-> FALSE, left |-> TRUE, tall |-> FALSE,
       base |-> 0, bgHalf |-> 0, sprHalf |-> 0]

BackgroundSwitches ==
  {On, [On EXCEPT !.bg = FALSE], [On EXCEPT !.base = 1],
   [On EXCEPT !.base = 2, !.bgHalf = 1],
   [On EXCEPT !.left = FALSE, !.base = 2, !.bgHalf = 1]}

SpriteSwitches ==
  {[On EXCEPT !.spr = TRUE, !.base = 3],
   [On EXCEPT !.spr = TRUE, !.base = 3, !.tall = TRUE, !.sprHalf = 1],
   [On EXCEPT !.bg = FALSE, !.spr = TRUE, !.base = 3, !.tall = TRUE, !.sprHalf = 1]}

MCSwitches == BackgroundSwitches \cup SpriteSwitches

Sprite(x, y, tile, v, h, behind) ==
  [x |-> x, y |-> y, tile |-> tile, vflip |-> v, hflip |-> h, behind |-> behind]

Below == Sprite(6, 7, 1, FALSE, FALSE, FALSE)

(* At the corners of the screen and past its last row, on rows of tiles and *)
(* between them.                                                            *)
MCSpriteValues ==
  {Sprite(0, 0, 3, FALSE, FALSE, FALSE), Sprite(4, 4, 1, FALSE, FALSE, FALSE),
   Sprite(3, 3, 2, TRUE, FALSE, TRUE), Sprite(2, 1, 3, TRUE, TRUE, FALSE),
   Sprite(7, 5, 3, FALSE, TRUE, TRUE), Below,
   Sprite(4, 2, 3, FALSE, TRUE, FALSE), Sprite(2, 4, 2, FALSE, TRUE, FALSE)}

(* Programs that scroll show no sprites, programs that show sprites stay at *)
(* two places: what is drawn of either does not depend on the other.        *)
Scrolling == switch \in BackgroundSwitches /\ \A n \in Sprites : oam[n] = Below
Showing == switch \in SpriteSwitches /\ scroll \in {0, 3}
ScrollingOrShowing == Scrolling \/ Showing

=============================================================================
