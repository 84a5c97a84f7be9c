----------------------------- MODULE PpuRowsHistory -----------------------------
(***************************************************************************)
(* PpuRows, with a record of how long the registers and sprite memory have *)
(* been as they are.                                                       *)
(***************************************************************************)
EXTENDS PpuRows

VARIABLE steady     (* the first scanline of this frame drawn with them     *)

historyVars == <<vars, steady>>

HInit == Init /\ steady = 0

HNext ==
  \/ DrawLine /\ UNCHANGED steady
  \/ EndFrame /\ steady' = 0
  \/ Program /\ steady' = scanline + 1

HSpec == HInit /\ [][HNext]_historyVars

-----------------------------------------------------------------------------
(* The tile of a sprite, turned as its attributes say, at the place the     *)
(* program gave it, one row down as the whole picture is.                   *)
Shape(n) ==
  LET s == oam[n]
      colour(x, y) == Patterns[switch.sprHalf][s.tile]
                        [IF s.vflip THEN Tile - 1 - y ELSE y]
                        [IF s.hflip THEN Tile - 1 - x ELSE x]
  IN  {p \in Pixel : /\ p.x - s.x \in 0 .. Tile - 1 /\ p.y - 1 - s.y \in 0 .. Tile - 1
                     /\ p.c = colour(p.x - s.x, p.y - 1 - s.y) /\ p.c # 0}

(* A sprite that stands still is drawn whole, though the scanlines take its *)
(* rows out of order when it is not on a row of tiles; and a frame in which *)
(* nothing changes shows the sprites and nothing else.                      *)
SpritesWhole ==
  /\ \A n \in Sprites, l \in Layer :
       switch.spr /\ In(l, n) /\ steady <= oam[n].y /\ oam[n].y + Tile - 1 <= scanline =>
         Shape(n) \subseteq drawn[l]
  /\ steady = 0 =>
       \A l \in Layer : drawn[l] \subseteq UNION {Shape(n) : n \in {k \in Sprites : In(l, k)}}

(* In a frame in which sprite memory stays as it is a sprite adds its rows, *)
(* and one of them twice; a tall one adds its tile's rows twice and one     *)
(* three times.  pixbuf_add has no bound of its own.                        *)
SpritesBounded ==
  steady = 0 =>
    \A l \in Layer : drawnSize[l] <= Cardinality(Sprites) * Tile * (SpriteHeight + 1)

=============================================================================
