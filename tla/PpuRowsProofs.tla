---------------------------- MODULE PpuRowsProofs -----------------------------
(***************************************************************************)
(* For every size of tiles and screen, every picture, every set of sprites *)
(* and every program of stores: what ppu_cycle draws of the background and *)
(* of the sprites is the picture the program means, sprite 0 is hit where  *)
(* it is seen, and the buffers are bounded.                                *)
(***************************************************************************)
EXTENDS PpuRowsHistory, FiniteSetTheorems, TLAPS

-----------------------------------------------------------------------------
(* Tiles, columns and lines                                                 *)

LEMMA Grows ==
  ASSUME NEW a \in Nat, NEW b \in Nat, NEW c \in Nat, a <= b
  PROVE  c * a <= c * b
<1>1. PICK e \in Nat : b = a + e
  <2>1. b - a \in Nat /\ b = a + (b - a)
    OBVIOUS
  <2> QED
    BY <2>1
<1>2. c * b = c * a + c * e /\ c * e \in Nat /\ c * a \in Nat
  BY <1>1
<1> QED
  BY <1>2

LEMMA Divided ==
  ASSUME NEW n \in Nat, n > 0, NEW q \in Nat, NEW r \in 0 .. n - 1
  PROVE  (n * q + r) \div n = q /\ (n * q + r) % n = r
  OBVIOUS

LEMMA Sizes ==
  /\ Tile \in Nat /\ Tile > 0 /\ Tiles \in Nat /\ Tiles > 0
  /\ Width \in Nat /\ Width = Tile * Tiles /\ Width > 0
  /\ Height \in Nat /\ ScreenRows \in Nat /\ LastLine \in Nat
  /\ Height < ScreenRows /\ ScreenRows < Width /\ Width < LastLine
  /\ Column = 0 .. Width - 1
<1>1. Tile * Tiles \in Nat
  BY RowsAssumption
<1> QED
  BY <1>1, RowsAssumption DEF Width, Column

(* A column is in a tile, and a line in a row of tiles.                     *)
LEMMA InTile ==
  ASSUME NEW c \in Nat, NEW n \in Nat, c < Tile * n
  PROVE  /\ c \div Tile \in 0 .. n - 1 /\ c % Tile \in 0 .. Tile - 1
         /\ c = (c \div Tile) * Tile + (c % Tile) /\ (c \div Tile) * Tile \in Nat
         /\ c \div Tile = 0 <=> c < Tile
<1>1. Tile \in Nat /\ Tile > 0
  BY Sizes
<1> DEFINE q == c \div Tile
           r == c % Tile
<1>2. q \in Nat /\ r \in 0 .. Tile - 1 /\ c = Tile * q + r
  BY <1>1
<1> HIDE DEF q, r
<1>3. q < n
  <2> SUFFICES ASSUME n <= q PROVE FALSE
    BY <1>2
  <2>1. Tile * n <= Tile * q
    BY <1>1, <1>2, Grows
  <2> QED
    BY <1>1, <1>2, <2>1
<1>4. q = 0 <=> c < Tile
  <2>1. CASE q = 0
    BY <1>1, <1>2, <2>1
  <2>2. CASE q >= 1
    <3>1. Tile * 1 <= Tile * q
      BY <1>1, <1>2, <2>2, Grows
    <3> QED
      BY <1>1, <1>2, <2>2, <3>1
  <2> QED
    BY <1>2, <2>1, <2>2
<1>5. Tile * q = q * Tile /\ Tile * q \in Nat
  BY <1>1, <1>2
<1>6. /\ q \in 0 .. n - 1 /\ r \in 0 .. Tile - 1
      /\ c = q * Tile + r /\ q * Tile \in Nat
      /\ q = 0 <=> c < Tile
  BY <1>2, <1>3, <1>4, <1>5
<1> QED
  BY <1>6 DEF q, r

LEMMA Columns ==
  ASSUME NEW c \in Column
  PROVE  /\ c \div Tile \in 0 .. Tiles - 1 /\ c % Tile \in 0 .. Tile - 1
         /\ c = (c \div Tile) * Tile + (c % Tile) /\ (c \div Tile) * Tile \in Nat
         /\ c \div Tile = 0 <=> c < Tile
BY Sizes, InTile

LEMMA Lines ==
  ASSUME NEW line \in 0 .. LastLine
  PROVE  line \div Tile \in 0 .. LastLine \div Tile /\ line % Tile \in 0 .. Tile - 1
<1>1. Tile \in Nat /\ Tile > 0 /\ LastLine \in Nat /\ line \in Nat /\ line <= LastLine
  BY Sizes
<1> DEFINE n == (LastLine \div Tile) + 1
           r == LastLine % Tile
<1>2. n \in Nat /\ r \in 0 .. Tile - 1 /\ LastLine = Tile * (n - 1) + r
  BY <1>1
<1> HIDE DEF r
<1>3. Tile * n = Tile * (n - 1) + Tile
  <2> HIDE DEF n
  <2> QED
    BY <1>1, <1>2
<1>4. line < Tile * n
  <2> HIDE DEF n
  <2>1. Tile * (n - 1) \in Int /\ Tile * n \in Int
    BY <1>1, <1>2
  <2> QED
    BY <1>1, <1>2, <1>3, <2>1
<1>5. line \div Tile \in 0 .. n - 1 /\ line % Tile \in 0 .. Tile - 1
  <2> HIDE DEF n
  <2> QED
    BY <1>1, <1>2, <1>4, InTile
<1>6. n - 1 = LastLine \div Tile
  BY <1>1, <1>2
<1> QED
  BY <1>5, <1>6

-----------------------------------------------------------------------------
(* What the program has set                                                 *)

Set == scroll \in Column /\ switch \in Switches /\ oam \in [Sprites -> SpriteValues]

LEMMA SpriteFacts ==
  ASSUME Set, NEW n \in Sprites
  PROVE  /\ oam[n].x \in Column /\ oam[n].y \in Column
         /\ oam[n].tile \in Pictures
         /\ SpriteHeight \in Nat /\ SpriteHeight >= Tile /\ switch.sprHalf \in Half
<1>1. oam[n] \in SpriteValues /\ switch \in Switch
  BY RowsAssumption DEF Set
<1>2. oam[n] \in [x : 0 .. Width - 1, y : 0 .. Width - 1, tile : Pictures,
                  vflip : BOOLEAN, hflip : BOOLEAN, behind : BOOLEAN]
  BY <1>1, RowsAssumption
<1>3. oam[n].x \in Column /\ oam[n].y \in Column /\ oam[n].tile \in Pictures
  BY <1>2 DEF Column
<1>4. SpriteHeight \in Nat /\ SpriteHeight >= Tile
  BY Sizes DEF SpriteHeight
<1> QED
  BY <1>1, <1>3, <1>4 DEF Switch

(* A pixel of a tile, turned or not, is one of four colours.                *)
LEMMA SpriteColours ==
  ASSUME Set, NEW n \in Sprites, NEW x \in 0 .. Tile - 1, NEW line \in 0 .. LastLine
  PROVE  SpriteColour(n, x, line) \in 0 .. 3
<1>1. Tile \in Nat /\ line % Tile \in 0 .. Tile - 1
  BY Sizes, Lines
<1>2. /\ (IF oam[n].vflip THEN Tile - 1 - (line % Tile) ELSE line % Tile) \in 0 .. Tile - 1
      /\ (IF oam[n].hflip THEN Tile - 1 - x ELSE x) \in 0 .. Tile - 1
  BY <1>1
<1>3. Patterns[switch.sprHalf][oam[n].tile] \in [0 .. Tile - 1 -> [0 .. Tile - 1 -> 0 .. 3]]
  BY SpriteFacts, RowsAssumption
<1> QED
  BY <1>2, <1>3 DEF SpriteColour

-----------------------------------------------------------------------------
(* The sprites                                                              *)

LEMMA ShapeIs ==
  ASSUME NEW n, NEW q
  PROVE  q \in Shape(n) <=>
           /\ q \in Pixel
           /\ q.x - oam[n].x \in 0 .. Tile - 1 /\ q.y - 1 - oam[n].y \in 0 .. Tile - 1
           /\ q.c = Patterns[switch.sprHalf][oam[n].tile]
                 [IF oam[n].vflip THEN Tile - 1 - (q.y - 1 - oam[n].y) ELSE q.y - 1 - oam[n].y]
                 [IF oam[n].hflip THEN Tile - 1 - (q.x - oam[n].x) ELSE q.x - oam[n].x]
           /\ q.c # 0
BY Zenon DEF Shape

(* What a scanline draws of a sprite is of its shape ...                    *)
LEMMA PixelsInShape ==
  ASSUME Set, NEW n \in Sprites, NEW line \in 0 .. LastLine
  PROVE  SpritePixels(n, line) \subseteq Shape(n) /\ SpritePixels(n, line) \subseteq Pixel
<1> SUFFICES ASSUME NEW q \in SpritePixels(n, line)
             PROVE  q \in Shape(n) /\ q \in Pixel
  OBVIOUS
<1> DEFINE j == line % Tile
<1>1. j \in 0 .. Tile - 1 /\ Tile \in Nat /\ Height \in Nat /\ Width \in Nat
      /\ Column = 0 .. Width - 1
  BY Sizes, Lines
<1>2. PICK x \in Opaque(n, line) :
        /\ oam[n].x + x < Width /\ SpriteRow(n, line) + 1 < Height
        /\ q = [x |-> oam[n].x + x, y |-> SpriteRow(n, line) + 1, c |-> SpriteColour(n, x, line)]
  BY DEF SpritePixels
<1>3. x \in 0 .. Tile - 1 /\ SpriteColour(n, x, line) # 0
  BY <1>2 DEF Opaque
<1>4. SpriteColour(n, x, line) \in 0 .. 3
  BY <1>3, SpriteColours
<1>5. oam[n].x \in Column /\ oam[n].y \in Column
  BY SpriteFacts
<1>6. SpriteRow(n, line) = oam[n].y + j
  BY DEF SpriteRow
<1>7. q.x = oam[n].x + x /\ q.y = oam[n].y + j + 1 /\ q.c = SpriteColour(n, x, line)
  BY <1>2, <1>6
<1>8. SpriteColour(n, x, line)
        = Patterns[switch.sprHalf][oam[n].tile]
            [IF oam[n].vflip THEN Tile - 1 - j ELSE j][IF oam[n].hflip THEN Tile - 1 - x ELSE x]
  BY DEF SpriteColour
<1> HIDE DEF j
<1>9. oam[n].x + x \in Column /\ oam[n].y + j + 1 \in 0 .. Height - 1
  <2> DEFINE a == oam[n].x
             b == oam[n].y
  <2>1. a + x < Width /\ b + j + 1 < Height
    BY <1>2, <1>6
  <2>2. a \in Nat /\ b \in Nat
    BY <1>1, <1>5
  <2> HIDE DEF a, b
  <2>3. a + x \in Column /\ b + j + 1 \in 0 .. Height - 1
    BY <1>1, <1>3, <2>1, <2>2
  <2> QED
    BY <2>3 DEF a, b
<1>10. q \in Pixel
  BY <1>2, <1>4, <1>6, <1>9 DEF Pixel
<1>11. q.x - oam[n].x = x /\ q.y - 1 - oam[n].y = j
  BY <1>1, <1>3, <1>5, <1>7
<1>12. q.c = Patterns[switch.sprHalf][oam[n].tile]
               [IF oam[n].vflip THEN Tile - 1 - (q.y - 1 - oam[n].y) ELSE q.y - 1 - oam[n].y]
               [IF oam[n].hflip THEN Tile - 1 - (q.x - oam[n].x) ELSE q.x - oam[n].x]
  BY <1>7, <1>8, <1>11
<1>13. /\ q.x - oam[n].x \in 0 .. Tile - 1 /\ q.y - 1 - oam[n].y \in 0 .. Tile - 1
       /\ q.c # 0
  BY <1>1, <1>3, <1>7, <1>11
<1> QED
  BY <1>10, <1>12, <1>13, ShapeIs

(* ... and each of its rows is drawn by one of the first Tile lines.        *)
LEMMA ShapeInPixels ==
  ASSUME Set, NEW n \in Sprites, NEW q \in Shape(n)
  PROVE  \E line \in oam[n].y .. oam[n].y + Tile - 1 :
           line \in Nat /\ Met(n, line) /\ q \in SpritePixels(n, line)
<1> DEFINE s == oam[n]
           j == q.y - 1 - s.y
           x == q.x - s.x
<1>1. /\ Tile \in Nat /\ Tile > 0 /\ s.x \in Nat /\ s.y \in Nat
      /\ SpriteHeight \in Nat /\ SpriteHeight >= Tile
  BY Sizes, SpriteFacts
<1>2. /\ j \in 0 .. Tile - 1 /\ x \in 0 .. Tile - 1 /\ q.c # 0 /\ q \in Pixel
      /\ q.c = Patterns[switch.sprHalf][s.tile]
                 [IF s.vflip THEN Tile - 1 - j ELSE j][IF s.hflip THEN Tile - 1 - x ELSE x]
  BY DEF Shape
<1>3. PICK line \in s.y .. s.y + Tile - 1 : line % Tile = j
  <2> DEFINE m == s.y % Tile
             k == s.y \div Tile
  <2>1. m \in 0 .. Tile - 1 /\ k \in Nat /\ s.y = Tile * k + m
    BY <1>1
  <2> HIDE DEF m, k, j, s
  <2>2. Tile * k \in Nat /\ Tile * (k + 1) = Tile * k + Tile
    BY <1>1, <2>1
  <2>3. CASE j >= m
    <3> DEFINE line == Tile * k + j
    <3>1. line \in s.y .. s.y + Tile - 1
      BY <1>1, <1>2, <2>1, <2>2, <2>3
    <3>2. line % Tile = j
      BY <1>1, <1>2, <2>1, Divided
    <3> QED
      BY <3>1, <3>2
  <2>4. CASE j < m
    <3> DEFINE line == Tile * (k + 1) + j
    <3>1. line \in s.y .. s.y + Tile - 1
      BY <1>1, <1>2, <2>1, <2>2, <2>4
    <3>2. line % Tile = j
      <4>1. k + 1 \in Nat
        BY <2>1
      <4> QED
        BY <1>1, <1>2, <4>1, Divided
    <3> QED
      BY <3>1, <3>2
  <2> QED
    BY <1>1, <1>2, <2>1, <2>3, <2>4
<1>4. line \in Nat /\ Met(n, line)
  BY <1>1, <1>3 DEF Met
<1>5. SpriteColour(n, x, line) = q.c
  BY <1>2, <1>3 DEF SpriteColour
<1>6. x \in Opaque(n, line)
  BY <1>2, <1>5 DEF Opaque
<1>7. /\ q.x \in Column /\ q.y \in 0 .. Height - 1 /\ Column = 0 .. Width - 1
      /\ Width \in Nat /\ Height \in Nat
      /\ q = [x |-> q.x, y |-> q.y, c |-> q.c]
  BY <1>2, Sizes DEF Pixel
<1>8. s.x + x = q.x /\ SpriteRow(n, line) + 1 = q.y
  <2>1. line % Tile = q.y - 1 - s.y /\ q.x \in Nat /\ q.y \in Nat
    BY <1>3, <1>7
  <2>2. s.x + x = q.x /\ s.y + (q.y - 1 - s.y) + 1 = q.y
    <3> HIDE DEF s
    <3> QED
      BY <1>1, <2>1
  <2> QED
    BY <2>1, <2>2 DEF SpriteRow
<1>9. q \in SpritePixels(n, line)
  <2>1. s.x + x < Width /\ SpriteRow(n, line) + 1 < Height
    BY <1>7, <1>8
  <2>2. q = [x |-> s.x + x, y |-> SpriteRow(n, line) + 1, c |-> SpriteColour(n, x, line)]
    BY <1>5, <1>7, <1>8
  <2> HIDE DEF x
  <2> QED
    BY <1>6, <2>1, <2>2 DEF SpritePixels
<1> QED
  BY <1>3, <1>4, <1>9

(* The sprites a scanline meets, and those that the first lines have met.   *)
MetAt(line) == {n \in Sprites : Met(n, line)}
MetSoFar(last) == {q \in Sprites \X (0 .. last) : Met(q[1], q[2])}

Drawing(l, line) == UNION {SpritePixels(n, line) : n \in MetIn(l, line)}
Adding(l, line) == UNION {{n} \X SpritePixels(n, line) : n \in MetIn(l, line)}

(* A scanline adds no more pixels than the sprites it meets have columns,   *)
(* and no fewer than it makes to be seen.                                   *)
LEMMA AddsFew ==
  ASSUME Set, NEW l \in Layer, NEW line \in 0 .. LastLine
  PROVE  /\ IsFiniteSet(MetAt(line)) /\ Cardinality(MetAt(line)) \in Nat
         /\ Cardinality(Adding(l, line)) \in Nat
         /\ Cardinality(Adding(l, line)) <= Cardinality(MetAt(line)) * Tile
         /\ IsFiniteSet(Drawing(l, line))
         /\ Cardinality(Drawing(l, line)) <= Cardinality(Adding(l, line))
<1> DEFINE Met_ == MetAt(line)
           Places == Met_ \X (0 .. Tile - 1)
           P == Adding(l, line)
           f == [q \in P |-> <<q[1], q[2].x - oam[q[1]].x>>]
           g == [q \in P |-> q[2]]
<1>1. IsFiniteSet(Met_) /\ Cardinality(Met_) \in Nat
  <2>1. Met_ \subseteq Sprites /\ IsFiniteSet(Sprites)
    BY RowsAssumption DEF MetAt
  <2> QED
    BY <2>1, FS_Subset, FS_CardinalityType
<1>2. Tile \in Nat /\ IsFiniteSet(0 .. Tile - 1) /\ Cardinality(0 .. Tile - 1) = Tile
  BY Sizes, FS_Interval
<1>3. IsFiniteSet(Places) /\ Cardinality(Places) = Cardinality(Met_) * Tile
  <2> HIDE DEF Met_
  <2> QED
    BY <1>1, <1>2, FS_Product
<1>4. \A q \in P : \E x \in 0 .. Tile - 1 :
        /\ q[1] \in Met_ /\ q[2] \in SpritePixels(q[1], line)
        /\ q = <<q[1], q[2]>>
        /\ q[2].x - oam[q[1]].x = x
        /\ q[2] = [x |-> oam[q[1]].x + x, y |-> SpriteRow(q[1], line) + 1,
                   c |-> SpriteColour(q[1], x, line)]
  <2> SUFFICES ASSUME NEW q \in P
               PROVE  \E x \in 0 .. Tile - 1 :
                        /\ q[1] \in Met_ /\ q[2] \in SpritePixels(q[1], line)
                        /\ q = <<q[1], q[2]>>
                        /\ q[2].x - oam[q[1]].x = x
                        /\ q[2] = [x |-> oam[q[1]].x + x, y |-> SpriteRow(q[1], line) + 1,
                                   c |-> SpriteColour(q[1], x, line)]
    OBVIOUS
  <2>1. PICK n \in MetIn(l, line) : q \in {n} \X SpritePixels(n, line)
    BY DEF Adding
  <2>2. q[1] = n /\ q[2] \in SpritePixels(n, line) /\ q = <<q[1], q[2]>>
    BY <2>1
  <2>3. n \in Sprites /\ n \in Met_
    BY DEF MetIn, MetAt
  <2>4. PICK x \in Opaque(n, line) :
          q[2] = [x |-> oam[n].x + x, y |-> SpriteRow(n, line) + 1,
                  c |-> SpriteColour(n, x, line)]
    BY <2>2 DEF SpritePixels
  <2>5. x \in 0 .. Tile - 1 /\ oam[n].x \in Nat
    BY <2>3, <2>4, SpriteFacts, Sizes DEF Opaque
  <2>6. q[2].x - oam[n].x = x
    BY <1>2, <2>4, <2>5
  <2> QED
    BY <2>2, <2>3, <2>4, <2>5, <2>6
<1>5. f \in Injection(P, Places)
  <2>1. \A q \in P : f[q] \in Places
    BY <1>4
  <2>2. \A q, r \in P : f[q] = f[r] => q = r
    <3> SUFFICES ASSUME NEW q \in P, NEW r \in P, f[q] = f[r] PROVE q = r
      OBVIOUS
    <3>1. q[1] = r[1] /\ q[2].x - oam[q[1]].x = r[2].x - oam[r[1]].x
      OBVIOUS
    <3> HIDE DEF P, f, Met_
    <3>2. q[2] = r[2]
      <4> DEFINE pixel(n, x) == [x |-> oam[n].x + x, y |-> SpriteRow(n, line) + 1,
                                 c |-> SpriteColour(n, x, line)]
      <4>1. q[2] = pixel(q[1], q[2].x - oam[q[1]].x)
        BY <1>4
      <4>2. r[2] = pixel(r[1], r[2].x - oam[r[1]].x)
        BY <1>4
      <4> HIDE DEF pixel
      <4> QED
        BY <3>1, <4>1, <4>2
    <3>3. q = <<q[1], q[2]>> /\ r = <<r[1], r[2]>>
      BY <1>4
    <3> QED
      BY <3>1, <3>2, <3>3
  <2> QED
    BY <2>1, <2>2 DEF Injection, IsInjective
<1>6. IsFiniteSet(P) /\ Cardinality(P) <= Cardinality(Places)
  <2> HIDE DEF f, P, Places
  <2> QED
    BY <1>3, <1>5, FS_Injection
<1>7. g \in Surjection(P, Drawing(l, line))
  <2>1. \A q \in P : g[q] \in Drawing(l, line)
    BY DEF Adding, Drawing
  <2>2. \A d \in Drawing(l, line) : \E q \in P : g[q] = d
    <3> SUFFICES ASSUME NEW d \in Drawing(l, line) PROVE \E q \in P : g[q] = d
      OBVIOUS
    <3>1. PICK n \in MetIn(l, line) : d \in SpritePixels(n, line)
      BY DEF Drawing
    <3>2. <<n, d>> \in P
      BY <3>1 DEF Adding
    <3>3. g[<<n, d>>] = d
      <4>1. \A q \in P : g[q] = q[2]
        OBVIOUS
      <4> HIDE DEF g, P
      <4> QED
        BY <3>2, <4>1
    <3> HIDE DEF g, P
    <3> QED
      BY <3>2, <3>3
  <2>3. g \in [P -> Drawing(l, line)]
    BY <2>1
  <2> HIDE DEF g, P
  <2> QED
    BY <2>2, <2>3 DEF Surjection
<1>8. /\ IsFiniteSet(Drawing(l, line))
      /\ Cardinality(Drawing(l, line)) <= Cardinality(P)
  <2> HIDE DEF g, P
  <2> QED
    BY <1>6, <1>7, FS_Surjection
<1>9. Cardinality(P) \in Nat
  BY <1>6, FS_CardinalityType
<1> QED
  BY <1>1, <1>3, <1>6, <1>8, <1>9

LEMMA MetGrows ==
  ASSUME NEW line \in Nat
  PROVE  /\ Cardinality(MetSoFar(line - 1)) \in Nat
         /\ Cardinality(MetSoFar(line))
              = Cardinality(MetSoFar(line - 1)) + Cardinality(MetAt(line))
<1> DEFINE Old == MetSoFar(line - 1)
           Now == MetAt(line) \X {line}
<1>1. IsFiniteSet(Sprites) /\ IsFiniteSet(0 .. line - 1) /\ IsFiniteSet({line})
  <2>1. 0 \in Int /\ line - 1 \in Int
    OBVIOUS
  <2>2. IsFiniteSet(0 .. line - 1)
    BY <2>1, FS_Interval
  <2> QED
    BY <2>2, RowsAssumption, FS_Singleton
<1>2. IsFiniteSet(Old)
  <2>1. IsFiniteSet(Sprites \X (0 .. line - 1))
    BY <1>1, FS_Product
  <2>2. Old \subseteq Sprites \X (0 .. line - 1)
    BY DEF MetSoFar
  <2> QED
    BY <2>1, <2>2, FS_Subset
<1>3. IsFiniteSet(Now) /\ Cardinality(Now) = Cardinality(MetAt(line))
  <2>1. IsFiniteSet(MetAt(line))
    BY <1>1, FS_Subset DEF MetAt
  <2>2. Cardinality({line}) = 1 /\ Cardinality(MetAt(line)) \in Nat
    BY <2>1, FS_Singleton, FS_CardinalityType
  <2> QED
    BY <1>1, <2>1, <2>2, FS_Product
<1>4. MetSoFar(line) = Old \cup Now /\ Old \cap Now = {}
  <2> DEFINE M == MetSoFar(line)
  <2>1. \A q \in M : q \in Old \/ q \in Now
    <3> SUFFICES ASSUME NEW q \in M PROVE q \in Old \/ q \in Now
      OBVIOUS
    <3>1. q = <<q[1], q[2]>> /\ q[1] \in Sprites /\ q[2] \in 0 .. line /\ Met(q[1], q[2])
      BY DEF MetSoFar
    <3>2. CASE q[2] = line
      BY <3>1, <3>2 DEF MetAt
    <3>3. CASE q[2] \in 0 .. line - 1
      BY <3>1, <3>3 DEF MetSoFar
    <3> QED
      BY <3>1, <3>2, <3>3
  <2>2. \A q \in Old : q \in M /\ q[2] # line
    <3> SUFFICES ASSUME NEW q \in Old PROVE q \in M /\ q[2] # line
      OBVIOUS
    <3>1. q = <<q[1], q[2]>> /\ q[1] \in Sprites /\ q[2] \in 0 .. line - 1 /\ Met(q[1], q[2])
      BY DEF MetSoFar
    <3>2. q[2] \in 0 .. line /\ q[2] # line
      BY <3>1
    <3> QED
      BY <3>1, <3>2 DEF MetSoFar
  <2>3. \A q \in Now : q \in M /\ q[2] = line
    <3> SUFFICES ASSUME NEW q \in Now PROVE q \in M /\ q[2] = line
      OBVIOUS
    <3>1. q = <<q[1], q[2]>> /\ q[1] \in Sprites /\ q[2] = line /\ Met(q[1], line)
      BY DEF MetAt
    <3> QED
      BY <3>1 DEF MetSoFar
  <2> HIDE DEF M, Old, Now
  <2>4. M = Old \cup Now /\ Old \cap Now = {}
    BY <2>1, <2>2, <2>3
  <2> QED
    BY <2>4 DEF M
<1>5. Cardinality(Old) \in Nat /\ Cardinality(Now) \in Nat
  BY <1>2, <1>3, FS_CardinalityType
<1>6. Cardinality(MetSoFar(line)) = Cardinality(Old) + Cardinality(Now)
  <2> HIDE DEF Old, Now
  <2>1. Cardinality(Old \cap Now) = 0
    BY <1>4, FS_EmptySet
  <2> QED
    BY <1>2, <1>3, <1>4, <1>5, <2>1, FS_Union
<1> QED
  BY <1>3, <1>5, <1>6

(* A sprite is met on as many lines as it has rows, and one.                *)
LEMMA MetFew ==
  ASSUME Set, NEW last \in -1 .. LastLine
  PROVE  /\ Cardinality(Sprites) \in Nat /\ Cardinality(MetSoFar(last)) \in Nat
         /\ Cardinality(MetSoFar(last)) <= Cardinality(Sprites) * (SpriteHeight + 1)
<1> DEFINE S == MetSoFar(last)
           T == Sprites \X (0 .. SpriteHeight)
           f == [q \in S |-> <<q[1], q[2] - oam[q[1]].y>>]
<1>1. SpriteHeight \in Nat
  BY Sizes DEF SpriteHeight
<1>2. IsFiniteSet(Sprites) /\ Cardinality(Sprites) \in Nat
  BY RowsAssumption, FS_CardinalityType
<1>3. IsFiniteSet(T) /\ Cardinality(T) = Cardinality(Sprites) * (SpriteHeight + 1)
  <2>1. /\ IsFiniteSet(0 .. SpriteHeight)
        /\ Cardinality(0 .. SpriteHeight) = SpriteHeight + 1
    BY <1>1, FS_Interval
  <2> QED
    BY <1>2, <2>1, FS_Product
<1>4. \A q \in S : /\ q[1] \in Sprites /\ q[2] \in Nat /\ q = <<q[1], q[2]>>
                   /\ oam[q[1]].y \in Nat
                   /\ q[2] - oam[q[1]].y \in 0 .. SpriteHeight
  <2> SUFFICES ASSUME NEW q \in S
               PROVE  /\ q[1] \in Sprites /\ q[2] \in Nat /\ q = <<q[1], q[2]>>
                      /\ oam[q[1]].y \in Nat
                      /\ q[2] - oam[q[1]].y \in 0 .. SpriteHeight
    OBVIOUS
  <2>1. q[1] \in Sprites /\ q[2] \in 0 .. last /\ q = <<q[1], q[2]>> /\ Met(q[1], q[2])
    BY DEF MetSoFar
  <2>2. oam[q[1]].y \in Nat
    BY <2>1, SpriteFacts, Sizes
  <2>3. oam[q[1]].y <= q[2] /\ q[2] <= oam[q[1]].y + SpriteHeight
    BY <2>1 DEF Met
  <2> DEFINE y == oam[q[1]].y
             line == q[2]
  <2>4. line \in Nat /\ y \in Nat /\ y <= line /\ line <= y + SpriteHeight
    BY <2>1, <2>2, <2>3, Sizes
  <2> HIDE DEF y, line
  <2>5. line - y \in 0 .. SpriteHeight
    BY <1>1, <2>4
  <2> QED
    BY <2>1, <2>4, <2>5 DEF y, line
<1>5. f \in Injection(S, T)
  <2>1. \A q \in S : f[q] \in T
    BY <1>4
  <2>2. \A q, r \in S : f[q] = f[r] => q = r
    <3> SUFFICES ASSUME NEW q \in S, NEW r \in S, f[q] = f[r] PROVE q = r
      OBVIOUS
    <3>1. q[1] = r[1] /\ q[2] - oam[q[1]].y = r[2] - oam[r[1]].y
      OBVIOUS
    <3> HIDE DEF S, f
    <3>2. q[2] = r[2]
      BY <1>4, <3>1
    <3> QED
      BY <1>4, <3>1, <3>2
  <2> QED
    BY <2>1, <2>2 DEF Injection, IsInjective
<1>6. IsFiniteSet(S) /\ Cardinality(S) <= Cardinality(T)
  <2> HIDE DEF S, T, f
  <2> QED
    BY <1>3, <1>5, FS_Injection
<1>7. Cardinality(S) \in Nat
  BY <1>6, FS_CardinalityType
<1> QED
  BY <1>2, <1>3, <1>6, <1>7

(* What the registers determine stays with them.                            *)
LEMMA Still ==
  ASSUME UNCHANGED registers
  PROVE  /\ Set <=> Set' /\ SpriteHeight' = SpriteHeight
         /\ switch' = switch
         /\ \A n : Shape(n)' = Shape(n)
         /\ \A n, line : /\ Met(n, line)' <=> Met(n, line)
                         /\ SpritePixels(n, line)' = SpritePixels(n, line)
         /\ \A n, l : In(l, n)' <=> In(l, n)
         /\ \A line : MetSoFar(line)' = MetSoFar(line)
<1>1. scroll' = scroll /\ switch' = switch /\ oam' = oam
  BY DEF registers
<1>2. (Set <=> Set') /\ SpriteHeight' = SpriteHeight
  BY <1>1 DEF Set, SpriteHeight
<1>3. \A n : Shape(n)' = Shape(n)
  BY <1>1 DEF Shape
<1>4. \A n, line : Met(n, line)' <=> Met(n, line)
  BY <1>1, <1>2 DEF Met
<1>5. \A n, line : SpritePixels(n, line)' = SpritePixels(n, line)
  BY <1>1 DEF SpritePixels, Opaque, SpriteRow, SpriteColour
<1>6. \A n, l : In(l, n)' <=> In(l, n)
  BY <1>1 DEF In
<1>7. \A line : MetSoFar(line)' = MetSoFar(line)
  BY <1>1, <1>2 DEF MetSoFar, Met
<1> QED
  BY <1>1, <1>2, <1>3, <1>4, <1>5, <1>6, <1>7

-----------------------------------------------------------------------------
(* The frame so far: its lines since the registers last changed have drawn  *)
(* what they meet, and if none changed in it, nothing but the sprites has   *)
(* been drawn, and no more of it than each line could add.                  *)

Shapes(l) == UNION {Shape(n) : n \in {k \in Sprites : In(l, k)}}

Buffers ==
  /\ drawn \in [Layer -> SUBSET Pixel] /\ drawnSize \in [Layer -> Nat]
  /\ scanline \in -1 .. LastLine - 1 /\ steady \in 0 .. scanline + 1
  /\ scanline = -1 => \A l \in Layer : drawn[l] = {} /\ drawnSize[l] = 0

DrawnSince ==
  switch.spr =>
    \A n \in Sprites, l \in Layer, line \in steady .. scanline :
      In(l, n) /\ Met(n, line) => SpritePixels(n, line) \subseteq drawn[l]

OnlySprites == steady = 0 => \A l \in Layer : drawn[l] \subseteq Shapes(l)

FewPixels ==
  steady = 0 => \A l \in Layer : drawnSize[l] <= Cardinality(MetSoFar(scanline)) * Tile

Sprited == Set /\ Buffers /\ DrawnSince /\ OnlySprites /\ FewPixels

LEMMA NoneMet == Cardinality(MetSoFar(-1)) = 0
<1>1. MetSoFar(-1) = {}
  BY DEF MetSoFar
<1> QED
  BY <1>1, FS_EmptySet

LEMMA SpritedStart == HInit => Sprited
<1> SUFFICES ASSUME HInit PROVE Sprited
  OBVIOUS
<1> USE DEF HInit, Init
<1>1. Set
  BY RowsAssumption DEF Set, Column
<1>2. Buffers
  BY Sizes DEF Buffers
<1>3. DrawnSince /\ OnlySprites
  BY DEF DrawnSince, OnlySprites
<1>4. FewPixels
  BY NoneMet, Sizes DEF FewPixels
<1> QED
  BY <1>1, <1>2, <1>3, <1>4 DEF Sprited

LEMMA SpritedStep == Sprited /\ [HNext]_historyVars => Sprited'
<1> SUFFICES ASSUME Sprited, [HNext]_historyVars PROVE Sprited'
  OBVIOUS
<1> USE DEF Sprited
<1>0. LastLine \in Nat /\ Tile \in Nat
  BY Sizes
<1>1. CASE DrawLine /\ UNCHANGED steady
  <2> DEFINE line == scanline + 1
  <2>1. /\ line \in 0 .. LastLine - 1 /\ line \in 0 .. LastLine /\ line \in Nat
        /\ scanline' = line /\ line - 1 = scanline
        /\ DrawSprites(line) /\ UNCHANGED registers /\ UNCHANGED steady
        /\ steady \in 0 .. line
    BY <1>0, <1>1 DEF DrawLine, Buffers
  <2> HIDE DEF line
  <2>2. Set'
    BY <2>1, Still
  <2>3. \A l \in Layer :
          /\ drawn'[l] = IF switch.spr THEN drawn[l] \cup Drawing(l, line) ELSE drawn[l]
          /\ drawnSize'[l] = IF switch.spr THEN drawnSize[l] + Cardinality(Adding(l, line))
                             ELSE drawnSize[l]
    BY <2>1 DEF DrawSprites, Drawing, Adding
  <2>4. \A l \in Layer : Drawing(l, line) \subseteq Pixel /\ Drawing(l, line) \subseteq Shapes(l)
    BY <2>1, PixelsInShape DEF Drawing, MetIn, Shapes
  <2>5. \A l \in Layer : /\ Cardinality(Adding(l, line)) \in Nat
                         /\ Cardinality(Adding(l, line)) <= Cardinality(MetAt(line)) * Tile
                         /\ Cardinality(MetAt(line)) \in Nat
    BY <2>1, AddsFew
  <2>6. Buffers'
    <3>1. DOMAIN drawn' = Layer /\ drawn' = [l \in Layer |-> drawn'[l]]
      BY <2>1 DEF DrawSprites, Buffers
    <3>2. drawnSize' = [l \in Layer |-> drawnSize'[l]]
      BY <2>1 DEF DrawSprites, Buffers
    <3>3. \A l \in Layer : drawn'[l] \in SUBSET Pixel /\ drawnSize'[l] \in Nat
      <4> SUFFICES ASSUME NEW l \in Layer
                   PROVE  drawn'[l] \in SUBSET Pixel /\ drawnSize'[l] \in Nat
        OBVIOUS
      <4>1. drawn[l] \subseteq Pixel /\ drawnSize[l] \in Nat
        BY DEF Buffers
      <4>2. drawn'[l] \subseteq Pixel
        <5>1. Drawing(l, line) \subseteq Pixel
          BY <2>4
        <5>2. drawn'[l] = drawn[l] \cup Drawing(l, line) \/ drawn'[l] = drawn[l]
          BY <2>3
        <5> QED
          BY <4>1, <5>1, <5>2
      <4>3. drawnSize'[l] \in Nat
        <5>1. Cardinality(Adding(l, line)) \in Nat
          BY <2>5
        <5>2. \/ drawnSize'[l] = drawnSize[l] + Cardinality(Adding(l, line))
              \/ drawnSize'[l] = drawnSize[l]
          BY <2>3
        <5> QED
          BY <4>1, <5>1, <5>2
      <4> QED
        BY <4>2, <4>3
    <3>4. drawn' \in [Layer -> SUBSET Pixel] /\ drawnSize' \in [Layer -> Nat]
      BY <3>1, <3>2, <3>3
    <3>5. scanline' \in -1 .. LastLine - 1 /\ steady' \in 0 .. scanline' + 1 /\ scanline' # -1
      BY <1>0, <2>1
    <3> QED
      BY <3>4, <3>5 DEF Buffers
  <2>7. DrawnSince'
    <3> SUFFICES ASSUME switch.spr, NEW n \in Sprites, NEW l \in Layer,
                        NEW k \in steady .. line, In(l, n), Met(n, k)
                 PROVE  SpritePixels(n, k) \subseteq drawn'[l]
      BY <2>1, Still DEF DrawnSince
    <3>1. CASE k = line
      <4>1. SpritePixels(n, k) \subseteq Drawing(l, line)
        BY <3>1 DEF Drawing, MetIn
      <4> QED
        BY <2>3, <4>1
    <3>2. CASE k \in steady .. scanline
      <4>1. SpritePixels(n, k) \subseteq drawn[l]
        BY <3>2 DEF DrawnSince
      <4> QED
        BY <2>3, <4>1
    <3>3. k = line \/ k \in steady .. scanline
      BY <2>1
    <3> QED
      BY <3>1, <3>2, <3>3
  <2>8. OnlySprites'
    <3> SUFFICES ASSUME steady = 0, NEW l \in Layer, NEW p \in drawn'[l]
                 PROVE  p \in Shapes(l)'
      BY <2>1 DEF OnlySprites
    <3>1. p \in Shapes(l)
      BY <2>3, <2>4 DEF OnlySprites
    <3>2. Shapes(l)' = Shapes(l)
      BY <2>1, Still DEF Shapes
    <3> QED
      BY <3>1, <3>2
  <2>9. FewPixels'
    <3> SUFFICES ASSUME steady = 0, NEW l \in Layer
                 PROVE  drawnSize'[l] <= Cardinality(MetSoFar(line)) * Tile
      BY <2>1, Still DEF FewPixels
    <3> DEFINE m == Cardinality(MetSoFar(scanline))
               a == Cardinality(MetAt(line))
               d == Cardinality(Adding(l, line))
    <3>1. m \in Nat /\ Cardinality(MetSoFar(line)) = m + a
      BY <2>1, MetGrows
    <3>2. a \in Nat /\ d \in Nat /\ d <= a * Tile
      BY <2>5
    <3>3. drawnSize[l] \in Nat /\ drawnSize[l] <= m * Tile
      BY DEF Buffers, FewPixels
    <3>4. drawnSize'[l] = drawnSize[l] + d \/ drawnSize'[l] = drawnSize[l]
      BY <2>3
    <3> HIDE DEF m, a, d
    <3>5. (m + a) * Tile = m * Tile + a * Tile /\ m * Tile \in Nat /\ a * Tile \in Nat
      BY <1>0, <3>1, <3>2
    <3> QED
      BY <3>1, <3>2, <3>3, <3>4, <3>5
  <2> QED
    BY <2>2, <2>6, <2>7, <2>8, <2>9
<1>2. CASE EndFrame /\ steady' = 0
  <2>1. /\ scanline' = -1 /\ UNCHANGED registers
        /\ drawn' = [l \in Layer |-> {}] /\ drawnSize' = [l \in Layer |-> 0]
    BY <1>2 DEF EndFrame
  <2>2. Set'
    BY <2>1, Still
  <2>3. Buffers'
    BY <1>0, <1>2, <2>1 DEF Buffers
  <2>4. DrawnSince' /\ OnlySprites'
    BY <1>2, <2>1 DEF DrawnSince, OnlySprites
  <2>5. FewPixels'
    <3>1. Cardinality(MetSoFar(-1))' = 0
      BY <2>1, Still, NoneMet
    <3> QED
      BY <1>0, <2>1, <3>1 DEF FewPixels
  <2> QED
    BY <2>2, <2>3, <2>4, <2>5
<1>3. CASE Program /\ steady' = scanline + 1
  <2>1. /\ UNCHANGED <<scanline, drawn, drawnSize>>
        /\ \/ \E s \in Scrolls : scroll' = s /\ UNCHANGED <<switch, oam>>
           \/ \E b \in Switches : switch' = b /\ UNCHANGED <<scroll, oam>>
           \/ \E n \in Sprites, v \in SpriteValues :
                oam' = [oam EXCEPT ![n] = v] /\ UNCHANGED <<scroll, switch>>
    BY <1>3 DEF Program, Write, WriteScroll, WriteMask, WriteCtrl, WriteSprite, canvas
  <2>2. Set'
    BY <2>1, RowsAssumption DEF Set, Column
  <2>3. Buffers'
    BY <1>0, <1>3, <2>1 DEF Buffers
  <2>4. DrawnSince'
    BY <1>3, <2>1 DEF DrawnSince, Buffers
  <2>5. steady' = 0 => scanline' = -1 /\ \A l \in Layer : drawn'[l] = {} /\ drawnSize'[l] = 0
    BY <1>3, <2>1 DEF Buffers
  <2>6. OnlySprites'
    BY <2>5 DEF OnlySprites
  <2>7. FewPixels'
    <3>1. MetSoFar(-1)' = {}
      BY DEF MetSoFar
    <3>2. Cardinality(MetSoFar(-1)') = 0
      BY <3>1, FS_EmptySet
    <3>3. steady' = 0 => MetSoFar(scanline)' = MetSoFar(-1)'
      BY <2>5 DEF MetSoFar
    <3> QED
      BY <1>0, <2>5, <3>2, <3>3 DEF FewPixels
  <2> QED
    BY <2>2, <2>3, <2>4, <2>6, <2>7
<1>4. CASE UNCHANGED historyVars
  <2>1. UNCHANGED registers /\ UNCHANGED <<scanline, drawn, drawnSize, steady>>
    BY <1>4 DEF historyVars, vars, registers, canvas
  <2>2. \A l : Shapes(l)' = Shapes(l)
    BY <2>1, Still DEF Shapes
  <2>3. Set' /\ Buffers'
    BY <2>1, Still DEF Buffers
  <2>4. DrawnSince'
    BY <2>1, Still DEF DrawnSince
  <2>5. OnlySprites' /\ FewPixels'
    BY <2>1, <2>2, Still DEF OnlySprites, FewPixels
  <2> QED
    BY <2>3, <2>4, <2>5
<1> QED
  BY <1>1, <1>2, <1>3, <1>4 DEF HNext

(* SpritesWhole: a sprite that stands still is drawn whole, and a frame in  *)
(* which nothing changes shows nothing but the sprites.                     *)
THEOREM SpritesComplete == HSpec => []SpritesWhole
<1>1. Sprited => SpritesWhole
  <2> SUFFICES ASSUME Sprited PROVE SpritesWhole
    OBVIOUS
  <2> USE DEF Sprited
  <2>1. ASSUME NEW n \in Sprites, NEW l \in Layer, switch.spr, In(l, n),
               steady <= oam[n].y, oam[n].y + Tile - 1 <= scanline
        PROVE  Shape(n) \subseteq drawn[l]
    <3> SUFFICES ASSUME NEW q \in Shape(n) PROVE q \in drawn[l]
      OBVIOUS
    <3>1. PICK line \in oam[n].y .. oam[n].y + Tile - 1 :
            line \in Nat /\ Met(n, line) /\ q \in SpritePixels(n, line)
      BY ShapeInPixels
    <3>2. line \in steady .. scanline
      <4>1. oam[n].y \in Nat /\ Tile \in Nat /\ steady \in Int /\ scanline \in Int
        BY Sizes, SpriteFacts DEF Buffers
      <4> QED
        BY <2>1, <3>1, <4>1
    <3> QED
      BY <2>1, <3>1, <3>2 DEF DrawnSince
  <2>2. steady = 0 => \A l \in Layer : drawn[l] \subseteq Shapes(l)
    BY DEF OnlySprites
  <2> QED
    BY <2>1, <2>2 DEF SpritesWhole, Shapes
<1> QED
  BY <1>1, SpritedStart, SpritedStep, PTL DEF HSpec

(* SpritesBounded: the sprite buffers, which no code bounds, grow in such a *)
(* frame by no more than each sprite's rows and one.                        *)
THEOREM SpritesFew == HSpec => []SpritesBounded
<1>1. Sprited => SpritesBounded
  <2> SUFFICES ASSUME Sprited, steady = 0, NEW l \in Layer
               PROVE  drawnSize[l] <= Cardinality(Sprites) * Tile * (SpriteHeight + 1)
    BY DEF SpritesBounded
  <2> USE DEF Sprited
  <2> DEFINE m == Cardinality(MetSoFar(scanline))
             s == Cardinality(Sprites)
             h == SpriteHeight + 1
  <2>1. scanline \in -1 .. LastLine /\ Tile \in Nat /\ h \in Nat
    BY Sizes DEF Buffers, SpriteHeight
  <2>2. s \in Nat /\ m \in Nat /\ m <= s * h
    BY <2>1, MetFew
  <2>3. drawnSize[l] \in Nat /\ drawnSize[l] <= m * Tile
    BY DEF Buffers, FewPixels
  <2> HIDE DEF m, s, h
  <2>4. Tile * m <= Tile * (s * h)
    <3>1. s * h \in Nat
      BY <2>1, <2>2
    <3> QED
      BY <2>1, <2>2, <3>1, Grows
  <2>5. Tile * (s * h) = s * Tile * h /\ Tile * m = m * Tile
    BY <2>1, <2>2
  <2>6. Tile * m \in Nat /\ Tile * (s * h) \in Nat
    BY <2>1, <2>2
  <2>7. drawnSize[l] <= s * Tile * h
    BY <2>3, <2>4, <2>5, <2>6
  <2> QED
    BY <2>7 DEF s, h
<1> QED
  BY <1>1, SpritedStart, SpritedStep, PTL DEF HSpec

-----------------------------------------------------------------------------
(* The palette of a place: an attribute byte has that of four blocks of     *)
(* 2 * 2 tiles, and the code finds the block by halves of the byte and of   *)
(* the half.                                                                *)

LEMMA DivUnder ==
  ASSUME NEW n \in Nat, n > 0, NEW m \in Nat, NEW top \in Nat, m <= top
  PROVE  m \div n \in 0 .. top \div n
<1> DEFINE q == m \div n
           r == m % n
           p == top \div n
           s == top % n
<1>1. q \in Nat /\ r \in 0 .. n - 1 /\ m = n * q + r
  OBVIOUS
<1>2. p \in Nat /\ s \in 0 .. n - 1 /\ top = n * p + s
  OBVIOUS
<1> HIDE DEF q, r, p, s
<1>3. q <= p
  <2> SUFFICES ASSUME p + 1 <= q PROVE FALSE
    BY <1>1, <1>2
  <2>1. n * (p + 1) <= n * q
    BY <1>1, <1>2, Grows
  <2>2. n * (p + 1) = n * p + n /\ n * p \in Nat /\ n * q \in Nat
    BY <1>1, <1>2
  <2> QED
    BY <1>1, <1>2, <2>1, <2>2
<1>4. q \in 0 .. p
  BY <1>1, <1>2, <1>3
<1> QED
  BY <1>4 DEF q, p

LEMMA HalfOfFour ==
  ASSUME NEW n \in Nat, n > 0, NEW m \in Nat
  PROVE  /\ m \div (4 * n) \in Nat
         /\ m \div (2 * n) = 2 * (m \div (4 * n)) + (IF m % (4 * n) < 2 * n THEN 0 ELSE 1)
<1> DEFINE w == 4 * n
           h == 2 * n
           q == m \div w
           r == m % w
<1>1. w \in Nat /\ w > 0 /\ h \in Nat /\ h > 0 /\ w = h + h
  OBVIOUS
<1>2. q \in Nat /\ r \in 0 .. w - 1 /\ m = w * q + r
  <2> HIDE DEF w
  <2> QED
    BY <1>1
<1> HIDE DEF w, h, q, r
<1>3. w * q = h * (2 * q) /\ h * (2 * q + 1) = h * (2 * q) + h
  BY <1>1, <1>2
<1>4. m \div h = 2 * q + (IF r < h THEN 0 ELSE 1)
  <2>1. CASE r < h
    <3>1. m = h * (2 * q) + r /\ r \in 0 .. h - 1 /\ 2 * q \in Nat
      BY <1>1, <1>2, <1>3, <2>1
    <3>2. m \div h = 2 * q
      BY <1>1, <3>1, Divided
    <3> QED
      BY <1>2, <2>1, <3>2
  <2>2. CASE ~(r < h)
    <3> DEFINE s == r - h
               k == 2 * q + 1
    <3>1. s \in 0 .. h - 1 /\ k \in Nat
      BY <1>1, <1>2, <2>2
    <3>2. m = h * k + s
      <4>1. h * (2 * q) \in Nat
        BY <1>1, <1>2
      <4> QED
        BY <1>1, <1>2, <1>3, <4>1
    <3> HIDE DEF s, k
    <3>3. m \div h = k
      BY <1>1, <3>1, <3>2, Divided
    <3> QED
      BY <1>2, <2>2, <3>3 DEF k
  <2> QED
    BY <2>1, <2>2
<1> QED
  BY <1>2, <1>4 DEF w, h, q, r

LEMMA HalfOfTiles ==
  ASSUME NEW n \in Nat, n > 0, NEW m \in Nat
  PROVE  m \div (2 * n) = 2 * ((m \div n) \div 4) + (IF (m \div n) % 4 < 2 THEN 0 ELSE 1)
<1> DEFINE h == 2 * n
           tile == m \div n
           k == m % n
           q == tile \div 4
           s == tile % 4
<1>1. tile \in Nat /\ k \in 0 .. n - 1 /\ m = n * tile + k /\ h \in Nat /\ h > 0
  OBVIOUS
<1> HIDE DEF tile, k
<1>2. q \in Nat /\ s \in 0 .. 3 /\ tile = 4 * q + s
  BY <1>1
<1> HIDE DEF q, s
<1>3. h = n + n
  OBVIOUS
<1> HIDE DEF h
<1>4. n * (4 * q + s) = h * (2 * q) + n * s /\ h * (2 * q + 1) = h * (2 * q) + h
      /\ h * (2 * q) \in Nat
  BY <1>1, <1>2, <1>3
<1>5. m \div h = 2 * q + (IF s < 2 THEN 0 ELSE 1)
  <2>1. CASE s < 2
    <3> DEFINE r == n * s + k
    <3>1. r \in 0 .. h - 1
      <4>1. CASE s = 0
        BY <1>1, <1>3, <4>1
      <4>2. CASE s = 1
        BY <1>1, <1>3, <4>2
      <4> QED
        BY <1>2, <2>1, <4>1, <4>2
    <3>2. m = h * (2 * q) + r
      <4>1. n * s \in Nat
        BY <1>2
      <4> QED
        BY <1>1, <1>2, <1>4, <4>1
    <3> HIDE DEF r
    <3>3. 2 * q \in Nat
      BY <1>2
    <3>4. m \div h = 2 * q
      BY <1>1, <3>1, <3>2, <3>3, Divided
    <3> QED
      BY <1>2, <2>1, <3>4
  <2>2. CASE s >= 2
    <3> DEFINE r == n * s + k - h
               j == 2 * q + 1
    <3>1. r \in 0 .. h - 1
      <4>1. CASE s = 2
        BY <1>1, <1>3, <4>1
      <4>2. CASE s = 3
        BY <1>1, <1>3, <4>2
      <4> QED
        BY <1>2, <2>2, <4>1, <4>2
    <3>2. m = h * j + r
      <4>1. n * s \in Nat
        BY <1>2
      <4> QED
        BY <1>1, <1>2, <1>4, <4>1
    <3> HIDE DEF r
    <3>3. j \in Nat
      BY <1>2
    <3> HIDE DEF j
    <3>4. m \div h = j
      BY <1>1, <3>1, <3>2, <3>3, Divided
    <3> QED
      BY <1>2, <2>2, <3>4 DEF j
  <2> QED
    BY <1>2, <2>1, <2>2
<1> QED
  BY <1>5 DEF h, tile, q, s

LEMMA Unpacked ==
  ASSUME NEW a \in 0 .. 3, NEW b \in 0 .. 3, NEW c \in 0 .. 3, NEW d \in 0 .. 3,
         NEW byte, byte = a + 4 * b + 16 * c + 64 * d
  PROVE  /\ ((byte \div 1) \div 1) % 4 = a /\ ((byte \div 1) \div 4) % 4 = b
         /\ ((byte \div 16) \div 1) % 4 = c /\ ((byte \div 16) \div 4) % 4 = d
OBVIOUS

LEMMA PaletteOf ==
  ASSUME Set, NEW t \in Table, NEW c \in Column, NEW line \in 0 .. LastLine
  PROVE  Palette(t, c, line)
           = Palettes[switch.base + t][line \div (2 * Tile)][c \div (2 * Tile)]
<1> DEFINE pal == Palettes[switch.base + t]
           tile_x == c \div Tile
           ax == tile_x \div 4
           ay == line \div (4 * Tile)
           top == line % (4 * Tile) < 2 * Tile
           left == tile_x % 4 < 2
           byte == Attribute(t, ax, ay)
<1>1. Tile \in Nat /\ Tile > 0 /\ LastLine \in Nat /\ line \in Nat /\ line <= LastLine
      /\ c \in Nat
  BY Sizes
<1>2. switch.base + t \in 0 .. 4
  <2>1. switch \in Switch
    BY RowsAssumption DEF Set
  <2>2. switch.base \in 0 .. 3
    BY <2>1 DEF Switch
  <2> QED
    BY <2>2 DEF Table
<1>3. pal \in [0 .. 2 * (LastLine \div (4 * Tile)) + 1 -> [0 .. Tiles \div 2 - 1 -> 0 .. 3]]
  BY <1>2, RowsAssumption
<1>4. ay \in 0 .. LastLine \div (4 * Tile)
  <2>1. 4 * Tile \in Nat /\ 4 * Tile > 0
    BY <1>1
  <2> QED
    BY <1>1, <2>1, DivUnder
<1>5. LastLine \div (4 * Tile) \in Nat
  BY <1>1, HalfOfFour
<1>6. tile_x \in 0 .. Tiles - 1 /\ Tiles \in Nat /\ Tiles % 4 = 0
  BY Columns, Sizes, RowsAssumption
<1>7. line \div (2 * Tile) = 2 * ay + (IF top THEN 0 ELSE 1)
  BY <1>1, HalfOfFour
<1>8. c \div (2 * Tile) = 2 * ax + (IF left THEN 0 ELSE 1)
  BY <1>1, HalfOfTiles
<1>9. /\ 2 * ax \in 0 .. Tiles \div 2 - 1 /\ 2 * ax + 1 \in 0 .. Tiles \div 2 - 1
  <2> HIDE DEF tile_x
  <2> QED
    BY <1>6
<1>10. /\ 2 * ay \in 0 .. 2 * (LastLine \div (4 * Tile)) + 1
       /\ 2 * ay + 1 \in 0 .. 2 * (LastLine \div (4 * Tile)) + 1
  <2> DEFINE last == LastLine \div (4 * Tile)
  <2> HIDE DEF ay, last
  <2>1. 2 * ay \in 0 .. 2 * last + 1 /\ 2 * ay + 1 \in 0 .. 2 * last + 1
    BY <1>4, <1>5 DEF last
  <2> QED
    BY <2>1 DEF last
<1> HIDE DEF pal, ax, ay, top, left, tile_x
<1> DEFINE p00 == pal[2 * ay][2 * ax]
           p10 == pal[2 * ay][2 * ax + 1]
           p01 == pal[2 * ay + 1][2 * ax]
           p11 == pal[2 * ay + 1][2 * ax + 1]
<1>11. p00 \in 0 .. 3 /\ p10 \in 0 .. 3 /\ p01 \in 0 .. 3 /\ p11 \in 0 .. 3
  <2>1. /\ pal[2 * ay] \in [0 .. Tiles \div 2 - 1 -> 0 .. 3]
        /\ pal[2 * ay + 1] \in [0 .. Tiles \div 2 - 1 -> 0 .. 3]
    BY <1>3, <1>10
  <2> QED
    BY <1>9, <2>1
<1>12. ax \in Nat /\ ay \in Nat
  <2>1. ax \in Nat
    BY <1>6 DEF ax
  <2>2. ay \in Nat
    BY <1>4, <1>5
  <2> QED
    BY <2>1, <2>2
<1>13. byte = p00 + 4 * p10 + 16 * p01 + 64 * p11
  <2>1. 2 * ax + 0 = 2 * ax /\ 2 * ay + 0 = 2 * ay
    BY <1>12
  <2> QED
    BY <2>1 DEF Attribute, pal
<1>14. Palette(t, c, line)
         = ((byte \div (IF top THEN 1 ELSE 16)) \div (IF left THEN 1 ELSE 4)) % 4
  BY DEF Palette, tile_x, top, left, ax, ay
<1> DEFINE py == 2 * ay + (IF top THEN 0 ELSE 1)
           px == 2 * ax + (IF left THEN 0 ELSE 1)
<1>15. Palette(t, c, line) = pal[py][px]
  <2>0. ((byte \div 1) \div 1) % 4 = p00 /\ ((byte \div 1) \div 4) % 4 = p10
        /\ ((byte \div 16) \div 1) % 4 = p01 /\ ((byte \div 16) \div 4) % 4 = p11
    <3> HIDE DEF byte, p00, p10, p01, p11
    <3> QED
      BY <1>11, <1>13, Unpacked
  <2>1. CASE top /\ left
    <3>1. py = 2 * ay /\ px = 2 * ax
      BY <1>12, <2>1
    <3> HIDE DEF byte
    <3> QED
      BY <1>14, <2>0, <2>1, <3>1
  <2>2. CASE top /\ ~left
    <3>1. py = 2 * ay /\ px = 2 * ax + 1
      BY <1>12, <2>2
    <3> HIDE DEF byte
    <3> QED
      BY <1>14, <2>0, <2>2, <3>1
  <2>3. CASE ~top /\ left
    <3>1. py = 2 * ay + 1 /\ px = 2 * ax
      BY <1>12, <2>3
    <3> HIDE DEF byte
    <3> QED
      BY <1>14, <2>0, <2>3, <3>1
  <2>4. CASE ~top /\ ~left
    <3>1. py = 2 * ay + 1 /\ px = 2 * ax + 1
      BY <1>12, <2>4
    <3> HIDE DEF byte
    <3> QED
      BY <1>14, <2>0, <2>4, <3>1
  <2> QED
    BY <2>1, <2>2, <2>3, <2>4
<1> QED
  BY <1>7, <1>8, <1>15 DEF pal

-----------------------------------------------------------------------------
(* The background                                                           *)

(* A column of the screen is of one column of one of the two tables, and    *)
(* what the passes take of it is what the program means there.              *)
LEMMA OnePlace ==
  ASSUME Set, NEW x \in Column
  PROVE  \E t \in Table, c \in Column : OnScreen(t, c) = x
<1>1. scroll \in Nat /\ scroll < Width /\ x \in Nat /\ x < Width /\ Width \in Nat
      /\ Column = 0 .. Width - 1
  BY Sizes DEF Set
<1>2. CASE x + scroll < Width
  <2>1. x + scroll \in Column /\ OnScreen(0, x + scroll) = x
    BY <1>1, <1>2 DEF OnScreen
  <2> QED
    BY <2>1 DEF Table
<1>3. CASE x + scroll >= Width
  <2>1. x + scroll - Width \in Column /\ OnScreen(1, x + scroll - Width) = x
    BY <1>1, <1>3 DEF OnScreen
  <2> QED
    BY <2>1 DEF Table
<1> QED
  BY <1>1, <1>2, <1>3

LEMMA SamePlace ==
  ASSUME Set, NEW t \in Table, NEW c \in Column, NEW u \in Table, NEW d \in Column,
         OnScreen(t, c) = OnScreen(u, d), OnScreen(t, c) \in Column
  PROVE  t = u /\ c = d
<1>1. scroll \in Nat /\ c \in Nat /\ c < Width /\ d \in Nat /\ d < Width /\ Width \in Nat
      /\ scroll < Width
  BY Sizes DEF Set
<1>2. (t = 0 \/ t = 1) /\ (u = 0 \/ u = 1)
  BY DEF Table
<1>3. c - scroll + t * Width = d - scroll + u * Width
  BY DEF OnScreen
<1>4. t * Width = (IF t = 0 THEN 0 ELSE Width) /\ u * Width = (IF u = 0 THEN 0 ELSE Width)
  BY <1>1, <1>2
<1> QED
  BY <1>1, <1>2, <1>3, <1>4

LEMMA Seam ==
  ASSUME Set, Seamless, NEW line \in 0 .. LastLine,
         NEW t \in Table, NEW c \in Column, OnScreen(t, c) \in Column
  PROVE  LET w == World(OnScreen(t, c) + scroll, line)
         IN  /\ w.c # 0 <=> c \in Scanned(t, line)
             /\ c \in Scanned(t, line) => w.c = Colour(t, c, line) /\ w.p = Palette(t, c, line)
<1> DEFINE x == OnScreen(t, c)
           first == c \div Tile
           b == switch.base
           w == World(x + scroll, line)
<1>1. /\ scroll \in Nat /\ scroll < Width /\ c \in Nat /\ c < Width /\ Width \in Nat
      /\ Tile \in Nat /\ Tile > 0 /\ x \in Nat /\ x < Width /\ b \in 0 .. 3
  <2>1. switch \in Switch
    BY RowsAssumption DEF Set
  <2> QED
    BY <2>1, Sizes DEF Set, Switch
<1>2. t = 0 \/ t = 1
  BY DEF Table
<1>3. x + scroll = (IF t = 0 THEN c ELSE c + Width)
  <2>1. t * Width = (IF t = 0 THEN 0 ELSE Width)
    BY <1>1, <1>2
  <2> QED
    BY <1>1, <2>1 DEF OnScreen
<1>4. (x + scroll) % Width = c /\ (x + scroll < Width <=> t = 0)
  <2>1. CASE t = 0
    BY <1>1, <1>3, <2>1
  <2>2. CASE t = 1
    <3>1. c \in 0 .. Width - 1 /\ Width * 1 = Width
      BY <1>1
    <3>2. (Width * 1 + c) % Width = c
      BY <1>1, <3>1, Divided
    <3>3. x + scroll = Width * 1 + c
      BY <1>1, <1>3, <2>2, <3>1
    <3> HIDE DEF x
    <3> QED
      BY <1>1, <2>2, <3>1, <3>2, <3>3
  <2> QED
    BY <1>2, <2>1, <2>2
<1>5. ColourIn(IF t = 0 THEN b ELSE Beside(b), c, line) = Colour(t, c, line)
  <2>1. CASE t = 0
    BY <1>1, <2>1 DEF Colour
  <2>2. CASE t = 1
    <3>1. scroll # 0
      BY <1>1, <1>3, <2>2
    <3>2. Names[b + 1] = Names[Beside(b)]
      BY <3>1 DEF Seamless
    <3> QED
      BY <2>2, <3>2 DEF Colour, ColourIn
  <2> QED
    BY <1>2, <2>1, <2>2
<1>6. Palettes[IF t = 0 THEN b ELSE Beside(b)] = Palettes[b + t]
  <2>1. CASE t = 0
    BY <1>1, <2>1
  <2>2. CASE t = 1
    <3>1. scroll # 0
      BY <1>1, <1>3, <2>2
    <3>2. Palettes[b + 1] = Palettes[Beside(b)]
      BY <3>1 DEF Seamless
    <3> QED
      BY <2>2, <3>2
  <2> QED
    BY <1>2, <2>1, <2>2
<1>7. /\ w.c = IF ~switch.left /\ c < Tile THEN 0 ELSE Colour(t, c, line)
      /\ w.p = Palette(t, c, line)
  <2> DEFINE table == IF x + scroll < Width THEN b ELSE Beside(b)
  <2>1. table = IF t = 0 THEN b ELSE Beside(b)
    BY <1>4
  <2>2. w = [c |-> IF ~switch.left /\ c < Tile THEN 0 ELSE ColourIn(table, c, line),
             p |-> Palettes[table][line \div (2 * Tile)][c \div (2 * Tile)]]
    BY <1>4 DEF World
  <2>3. Palettes[b + t][line \div (2 * Tile)][c \div (2 * Tile)] = Palette(t, c, line)
    BY PaletteOf
  <2> HIDE DEF x, w, table
  <2> QED
    BY <1>5, <1>6, <2>1, <2>2, <2>3
<1>8. first \in Nat /\ first * Tile \in Nat /\ first * Tile <= c /\ (first = 0 <=> c < Tile)
  <2> DEFINE r == c % Tile
  <2>1. first \in 0 .. Tiles - 1 /\ r \in 0 .. Tile - 1 /\ c = first * Tile + r
        /\ first * Tile \in Nat /\ (first = 0 <=> c < Tile)
    BY Columns
  <2> HIDE DEF first, r
  <2> QED
    BY <1>1, <2>1
<1>9. OnScreen(t, first * Tile) <= Width
  <2> DEFINE e == first * Tile
  <2>1. e \in Nat /\ e <= c
    BY <1>8
  <2> HIDE DEF e
  <2>2. OnScreen(t, e) <= OnScreen(t, c)
    <3>1. t * Width \in Nat
      BY <1>1, <1>2
    <3> QED
      BY <1>1, <2>1, <3>1 DEF OnScreen
  <2>3. OnScreen(t, e) \in Int
    <3>1. t * Width \in Nat
      BY <1>1, <1>2
    <3> QED
      BY <1>1, <2>1, <3>1 DEF OnScreen
  <2>4. OnScreen(t, e) <= Width
    BY <1>1, <2>2, <2>3
  <2> QED
    BY <2>4 DEF e
<1>10. c \in Scanned(t, line) <=>
         first >= (IF switch.left THEN 0 ELSE 1) /\ Colour(t, c, line) # 0
  <2> HIDE DEF x
  <2> QED
    BY <1>9 DEF Scanned
<1>11. first >= (IF switch.left THEN 0 ELSE 1) <=> ~(~switch.left /\ c < Tile)
  <2> HIDE DEF first
  <2> QED
    BY <1>8
<1> HIDE DEF x, first, w
<1>12. /\ w.c # 0 <=> c \in Scanned(t, line)
       /\ c \in Scanned(t, line) => w.c = Colour(t, c, line) /\ w.p = Palette(t, c, line)
  BY <1>7, <1>10, <1>11
<1> QED
  BY <1>12 DEF w, x

Shown(t, c, line) ==
  [x |-> OnScreen(t, c), y |-> line + 1, c |-> Colour(t, c, line), p |-> Palette(t, c, line)]

(* What a scanline adds is what is to be seen, and each column once.        *)
LEMMA RowIsWorld ==
  ASSUME Set, Seamless, NEW line \in 0 .. LastLine, line + 1 < Height
  PROVE  {Shown(a[1], a[2], line) : a \in Added(line)} =
           {[x |-> x, y |-> line + 1, c |-> World(x + scroll, line).c,
             p |-> World(x + scroll, line).p] :
               x \in {k \in Column : World(k + scroll, line).c # 0}}
<1> DEFINE Opaques == {k \in Column : World(k + scroll, line).c # 0}
           seen(x) == [x |-> x, y |-> line + 1, c |-> World(x + scroll, line).c,
                       p |-> World(x + scroll, line).p]
<1>1. ASSUME NEW a \in Added(line)
      PROVE  \E x \in Opaques : Shown(a[1], a[2], line) = seen(x)
  <2>1. a[1] \in Table /\ a[2] \in Column /\ a[2] \in Scanned(a[1], line)
        /\ OnScreen(a[1], a[2]) \in Column
    BY DEF Added
  <2> DEFINE x == OnScreen(a[1], a[2])
  <2>2. /\ World(x + scroll, line).c # 0
        /\ World(x + scroll, line).c = Colour(a[1], a[2], line)
        /\ World(x + scroll, line).p = Palette(a[1], a[2], line)
    BY <2>1, Seam
  <2>3. x \in Opaques /\ Shown(a[1], a[2], line) = seen(x)
    BY <2>1, <2>2 DEF Shown
  <2> QED
    BY <2>3
<1>2. ASSUME NEW x \in Opaques
      PROVE  \E a \in Added(line) : Shown(a[1], a[2], line) = seen(x)
  <2>1. PICK t \in Table, c \in Column : OnScreen(t, c) = x
    BY OnePlace
  <2>2. OnScreen(t, c) \in Column
    BY <2>1
  <2>3. World(OnScreen(t, c) + scroll, line).c # 0
    BY <2>1
  <2>4. /\ c \in Scanned(t, line)
        /\ World(x + scroll, line).c = Colour(t, c, line)
        /\ World(x + scroll, line).p = Palette(t, c, line)
    BY <2>1, <2>2, <2>3, Seam
  <2> DEFINE a == <<t, c>>
  <2>5. a[1] = t /\ a[2] = c /\ a \in Table \X Column
    OBVIOUS
  <2> HIDE DEF a
  <2>6. a \in Added(line)
    BY <2>2, <2>4, <2>5 DEF Added
  <2>7. Shown(a[1], a[2], line) = seen(x)
    BY <2>1, <2>4, <2>5 DEF Shown
  <2> QED
    BY <2>6, <2>7
<1> HIDE DEF seen, Opaques
<1>3. {Shown(a[1], a[2], line) : a \in Added(line)} = {seen(x) : x \in Opaques}
  BY <1>1, <1>2
<1> QED
  BY <1>3 DEF seen, Opaques

LEMMA RowOnce ==
  ASSUME Set, NEW line \in 0 .. LastLine
  PROVE  Cardinality({Shown(a[1], a[2], line) : a \in Added(line)}) = Cardinality(Added(line))
<1> DEFINE S == Added(line)
           T == {Shown(a[1], a[2], line) : a \in S}
           f == [a \in S |-> Shown(a[1], a[2], line)]
<1>1. IsFiniteSet(S)
  <2>1. IsFiniteSet(Table)
    <3>1. 0 \in Int /\ 1 \in Int /\ \A t \in Table : t \in 0 .. 1
      BY DEF Table
    <3>2. IsFiniteSet(0 .. 1) /\ Table \subseteq 0 .. 1
      BY <3>1, FS_Interval
    <3> QED
      BY <3>2, FS_Subset
  <2>2. IsFiniteSet(Column)
    BY Sizes, FS_Interval
  <2>3. IsFiniteSet(Table \X Column)
    BY <2>1, <2>2, FS_Product
  <2>4. S \subseteq Table \X Column
    BY DEF Added
  <2> QED
    BY <2>3, <2>4, FS_Subset
<1>2. \A a \in S : a = <<a[1], a[2]>> /\ a[1] \in Table /\ a[2] \in Column
                   /\ OnScreen(a[1], a[2]) \in Column
  BY DEF Added
<1>3. \A a \in S : f[a] = Shown(a[1], a[2], line) /\ f[a] \in T
  OBVIOUS
<1>4. \A a, b \in S : f[a] = f[b] => a = b
  <2> SUFFICES ASSUME NEW a \in S, NEW b \in S, f[a] = f[b] PROVE a = b
    OBVIOUS
  <2>1. Shown(a[1], a[2], line).x = Shown(b[1], b[2], line).x
    BY <1>3
  <2>2. OnScreen(a[1], a[2]) = OnScreen(b[1], b[2])
    BY <2>1 DEF Shown
  <2> HIDE DEF S, f
  <2>3. a[1] = b[1] /\ a[2] = b[2]
    BY <1>2, <2>2, SamePlace
  <2> QED
    BY <1>2, <2>3
<1>5. \A d \in T : \E a \in S : f[a] = d
  OBVIOUS
<1>6. f \in [S -> T]
  OBVIOUS
<1> HIDE DEF S, T, f
<1>7. f \in Injection(S, T) /\ f \in Surjection(S, T)
  BY <1>4, <1>5, <1>6 DEF Injection, IsInjective, Surjection
<1>8. Cardinality(T) = Cardinality(S)
  BY <1>1, <1>7, FS_Surjection
<1> QED
  BY <1>8 DEF S, T

Placed == Set /\ scanline \in -1 .. LastLine - 1 /\ writes \in Nat

LEMMA AlwaysPlaced == Spec => []Placed
<1>1. Init => Placed
  BY RowsAssumption, Sizes DEF Init, Placed, Set, Column
<1>2. Placed /\ [Next]_vars => Placed'
  <2> SUFFICES ASSUME Placed, [Next]_vars PROVE Placed'
    OBVIOUS
  <2>0. LastLine \in Nat /\ LastLine > 0
    BY Sizes
  <2>1. CASE DrawLine
    <3>1. UNCHANGED registers /\ UNCHANGED writes /\ scanline' \in -1 .. LastLine - 1
      BY <2>0, <2>1 DEF DrawLine, Placed
    <3> QED
      BY <3>1, Still DEF Placed
  <2>2. CASE EndFrame
    <3>1. UNCHANGED registers /\ UNCHANGED writes /\ scanline' \in -1 .. LastLine - 1
      BY <2>0, <2>2 DEF EndFrame, Placed
    <3> QED
      BY <3>1, Still DEF Placed
  <2>3. CASE Program
    <3>1. /\ UNCHANGED scanline /\ writes' = writes + 1
          /\ \/ \E s \in Scrolls : scroll' = s /\ UNCHANGED <<switch, oam>>
             \/ \E b \in Switches : switch' = b /\ UNCHANGED <<scroll, oam>>
             \/ \E n \in Sprites, v \in SpriteValues :
                  oam' = [oam EXCEPT ![n] = v] /\ UNCHANGED <<scroll, switch>>
      BY <2>3 DEF Program, Write, WriteScroll, WriteMask, WriteCtrl, WriteSprite
    <3>2. Set'
      BY <3>1, RowsAssumption DEF Placed, Set, Column
    <3>3. scanline' \in -1 .. LastLine - 1 /\ writes' \in Nat
      BY <3>1 DEF Placed
    <3> QED
      BY <3>2, <3>3 DEF Placed
  <2>4. CASE UNCHANGED vars
    <3>1. UNCHANGED registers /\ UNCHANGED <<scanline, writes>>
      BY <2>4 DEF vars
    <3> QED
      BY <3>1, Still DEF Placed
  <2> QED
    BY <2>1, <2>2, <2>3, <2>4 DEF Next
<1> QED
  BY <1>1, <1>2, PTL DEF Spec

(* RowShowsPicture: whatever the scroll, the two passes meet without a gap  *)
(* or an overlap, and a scanline's row is what the program means.           *)
THEOREM RowsMeet == Spec => RowShowsPicture
<1>1. Placed /\ [Next]_vars =>
        [Draws /\ Seamless =>
           /\ row' = IF switch.bg /\ Line + 1 < Height
                     THEN {[x |-> x, y |-> Line + 1, c |-> World(x + scroll, Line).c,
                            p |-> World(x + scroll, Line).p] :
                             x \in {k \in Column : World(k + scroll, Line).c # 0}}
                     ELSE {}
           /\ rowSize' = Cardinality(row')]_vars
  <2> SUFFICES ASSUME Placed, Next, Draws, Seamless
               PROVE  /\ row' = IF switch.bg /\ Line + 1 < Height
                         THEN {[x |-> x, y |-> Line + 1, c |-> World(x + scroll, Line).c,
                                p |-> World(x + scroll, Line).p] :
                                 x \in {k \in Column : World(k + scroll, Line).c # 0}}
                         ELSE {}
                      /\ rowSize' = Cardinality(row')
    OBVIOUS
  <2>1. DrawBackground(Line) /\ Set /\ Line \in 0 .. LastLine
    <3>1. ~Program
      BY DEF Program, Write, WriteScroll, WriteMask, WriteCtrl, WriteSprite, Draws
    <3>2. DrawBackground(Line)
      BY <3>1 DEF Next, DrawLine, EndFrame, Line
    <3>3. LastLine \in Nat /\ scanline \in -1 .. LastLine - 1 /\ Set
      BY Sizes DEF Placed
    <3> QED
      BY <3>2, <3>3 DEF Line
  <2>2. CASE ~switch.bg
    <3>1. row' = {} /\ rowSize' = 0
      BY <2>1, <2>2 DEF DrawBackground
    <3> QED
      BY <2>2, <3>1, FS_EmptySet
  <2>3. CASE switch.bg
    <3>1. /\ row' = {Shown(a[1], a[2], Line) : a \in Added(Line)}
          /\ rowSize' = Cardinality(Added(Line))
      BY <2>1, <2>3 DEF DrawBackground, Shown
    <3>2. rowSize' = Cardinality(row')
      BY <2>1, <3>1, RowOnce
    <3>3. CASE Line + 1 < Height
      BY <2>1, <2>3, <3>1, <3>2, <3>3, RowIsWorld
    <3>4. CASE ~(Line + 1 < Height)
      <4>1. Added(Line) = {}
        BY <3>4 DEF Added
      <4> QED
        BY <3>1, <3>2, <3>4, <4>1
    <3> QED
      BY <3>3, <3>4
  <2> QED
    BY <2>2, <2>3
<1> QED
  BY <1>1, AlwaysPlaced, PTL DEF Spec, RowShowsPicture

-----------------------------------------------------------------------------
(* The sprite-0 comparison                                                  *)

(* Where a program that does not scroll looks, right of the first column of *)
(* tiles, the second pass has drawn nothing.                                *)
LEMMA AtCell ==
  ASSUME Set, scroll = 0, NEW line \in 0 .. ScreenRows - 1,
         NEW c \in Tile .. Width + Tile - 1
  PROVE  /\ Cell(c, line) \in Cells
         /\ \A t \in Table : c \in Scanned(t, line) => t = 0
         /\ BackgroundAfter(line)[Cell(c, line)]
              = IF c \in Scanned(0, line) THEN Colour(0, c, line)
                ELSE background[Cell(c, line)]
<1> DEFINE i == Cell(c, line)
<1>1. /\ Tile \in Nat /\ Tile > 0 /\ Width \in Nat /\ ScreenRows \in Nat /\ ScreenRows > 0
      /\ c \in Nat /\ c >= Tile /\ c <= Width + Tile - 1 /\ line \in Nat /\ line < ScreenRows
  BY Sizes
<1>2. i \in Cells
  <2>1. ScreenRows * c <= ScreenRows * (Width + Tile - 1)
    BY <1>1, Grows
  <2>2. /\ ScreenRows * c = c * ScreenRows /\ c * ScreenRows \in Nat
        /\ (Width + Tile) * ScreenRows = ScreenRows * (Width + Tile - 1) + ScreenRows
        /\ ScreenRows * (Width + Tile - 1) \in Nat
    BY <1>1
  <2>3. c * ScreenRows + line \in 0 .. (Width + Tile) * ScreenRows - 1
    BY <1>1, <2>1, <2>2
  <2> QED
    BY <2>3 DEF Cell, Cells
<1>3. \A t \in Table : c \in Scanned(t, line) => t = 0
  <2> SUFFICES ASSUME NEW t \in Table, c \in Scanned(t, line), t # 0 PROVE FALSE
    OBVIOUS
  <2> DEFINE first == c \div Tile
             r == c % Tile
  <2>1. c \in Column /\ OnScreen(t, first * Tile) <= Width /\ t = 1
    BY DEF Scanned, Table
  <2>2. first \in Nat /\ (first = 0 <=> c < Tile) /\ first * Tile \in Nat
    <3>1. first \in 0 .. Tiles - 1 /\ (first = 0 <=> c < Tile) /\ first * Tile \in Nat
      BY <2>1, Columns
    <3> QED
      BY <3>1, Sizes
  <2> HIDE DEF first
  <2>3. first >= 1
    BY <1>1, <2>2
  <2>4. Tile * 1 <= Tile * first
    BY <1>1, <2>2, <2>3, Grows
  <2>5. first * Tile > 0
    BY <1>1, <2>2, <2>4
  <2>6. OnScreen(t, first * Tile) = first * Tile + Width
    <3> DEFINE e == first * Tile
    <3>1. e \in Nat
      BY <2>2
    <3> HIDE DEF e
    <3>2. OnScreen(1, e) = e + Width
      BY <1>1, <3>1 DEF OnScreen
    <3> QED
      BY <2>1, <3>2 DEF e
  <2> QED
    BY <1>1, <2>1, <2>2, <2>5, <2>6
<1>4. (i - line) \div ScreenRows = c
  <2>1. (ScreenRows * c + 0) \div ScreenRows = c
    <3>1. 0 \in 0 .. ScreenRows - 1
      BY <1>1
    <3> QED
      BY <1>1, <3>1, Divided
  <2>2. i - line = ScreenRows * c + 0
    <3>1. c * ScreenRows = ScreenRows * c /\ c * ScreenRows \in Nat
      BY <1>1
    <3> QED
      BY <1>1, <3>1 DEF Cell
  <2> HIDE DEF i
  <2> QED
    BY <2>1, <2>2
<1>5. c \notin Scanned(1, line)
  BY <1>3 DEF Table
<1>6. BackgroundAfter(line)[i] = IF c \in Scanned(0, line) THEN Colour(0, c, line)
                                 ELSE background[i]
  <2> DEFINE column(k) == (k - line) \div ScreenRows
             here(k, t) == k = Cell(column(k), line) /\ column(k) \in Scanned(t, line)
             after(k) == IF here(k, 1) THEN Colour(1, column(k), line)
                         ELSE IF here(k, 0) THEN Colour(0, column(k), line)
                         ELSE background[k]
  <2>1. BackgroundAfter(line) = [k \in Cells |-> after(k)]
    BY DEF BackgroundAfter
  <2>2. column(i) = c /\ i = Cell(column(i), line)
    BY <1>4
  <2>3. ~here(i, 1) /\ (here(i, 0) <=> c \in Scanned(0, line))
    BY <1>5, <2>2
  <2>4. after(i) = IF c \in Scanned(0, line) THEN Colour(0, c, line) ELSE background[i]
    BY <2>2, <2>3
  <2> HIDE DEF after
  <2> QED
    BY <1>2, <2>1, <2>4
<1> QED
  BY <1>2, <1>3, <1>6 DEF i

(* While the program has not changed its registers the bitmap has only what *)
(* the passes take of the picture as it is set.                             *)
FromPicture ==
  writes = 0 =>
    \A i \in Cells : background[i] # 0 =>
      \E t \in Table, c \in Column, l \in 0 .. LastLine : i = Cell(c, l) /\ c \in Scanned(t, l)

LEMMA AlwaysFromPicture == Spec => [](Placed /\ FromPicture)
<1>1. Init => FromPicture
  BY DEF Init, FromPicture
<1>2. Placed /\ FromPicture /\ [Next]_vars => FromPicture'
  <2> SUFFICES ASSUME Placed, FromPicture, [Next]_vars PROVE FromPicture'
    OBVIOUS
  <2>1. ASSUME UNCHANGED registers, NEW t, NEW l
        PROVE  Scanned(t, l)' = Scanned(t, l)
    <3>1. scroll' = scroll /\ switch' = switch
      BY <2>1 DEF registers
    <3> QED
      BY <3>1 DEF Scanned, OnScreen, Colour, ColourIn
  <2>2. ASSUME UNCHANGED registers, UNCHANGED writes, NEW line \in 0 .. LastLine,
               DrawBackground(line)
        PROVE  FromPicture'
    <3> SUFFICES ASSUME writes = 0, NEW i \in Cells, background'[i] # 0
                 PROVE  \E t \in Table, c \in Column, l \in 0 .. LastLine :
                          i = Cell(c, l) /\ c \in Scanned(t, l)
      BY <2>1, <2>2 DEF FromPicture
    <3>1. CASE background'[i] = background[i]
      BY <3>1 DEF FromPicture
    <3>2. CASE background'[i] # background[i]
      <4> DEFINE c == (i - line) \div ScreenRows
      <4>1. background' = BackgroundAfter(line)
        BY <2>2, <3>2 DEF DrawBackground
      <4>2. PICK t \in Table : i = Cell(c, line) /\ c \in Scanned(t, line)
        BY <3>2, <4>1 DEF BackgroundAfter, Table
      <4>3. c \in Column
        BY <4>2 DEF Scanned
      <4> HIDE DEF c
      <4> QED
        BY <4>2, <4>3
    <3> QED
      BY <3>1, <3>2
  <2>3. LastLine \in Nat /\ scanline \in -1 .. LastLine - 1
    BY Sizes DEF Placed
  <2>4. CASE DrawLine
    <3>1. scanline + 1 \in 0 .. LastLine /\ DrawBackground(scanline + 1)
          /\ UNCHANGED registers /\ UNCHANGED writes
      BY <2>3, <2>4 DEF DrawLine
    <3> QED
      BY <2>2, <3>1
  <2>5. CASE EndFrame
    <3>1. scanline + 1 \in 0 .. LastLine /\ DrawBackground(scanline + 1)
          /\ UNCHANGED registers /\ UNCHANGED writes
      BY <2>3, <2>5 DEF EndFrame
    <3> QED
      BY <2>2, <3>1
  <2>6. CASE Program
    <3>1. Write
      BY <2>6 DEF Program, WriteScroll, WriteMask, WriteCtrl, WriteSprite
    <3>2. writes' # 0
      BY <3>1 DEF Write, Placed
    <3> QED
      BY <3>2 DEF FromPicture
  <2>7. CASE UNCHANGED vars
    <3>1. UNCHANGED registers /\ UNCHANGED <<writes, background>>
      BY <2>7 DEF vars, canvas
    <3> QED
      BY <2>1, <3>1 DEF FromPicture
  <2> QED
    BY <2>4, <2>5, <2>6, <2>7 DEF Next
<1> QED
  BY <1>1, <1>2, AlwaysPlaced, PTL DEF Spec

(* HitAtOverlap: a program that waits for sprite 0, on a row of tiles and   *)
(* right of the first, gets its hit where the sprite covers its colour, and *)
(* if nothing changes nowhere else.                                         *)
THEOREM HitsWhereSeen == Spec => HitAtOverlap
<1>1. Placed /\ FromPicture /\ [Next]_vars =>
        [Draws /\ Splitting =>
           /\ Overlaps => hit'
           /\ hit' /\ writes = 0 /\ oam[0].y > LastLine - ScreenRows => hit \/ Overlaps]_vars
  <2> SUFFICES ASSUME Placed, FromPicture, Next, Draws, Splitting
               PROVE  /\ Overlaps => hit'
                      /\ hit' /\ writes = 0 /\ oam[0].y > LastLine - ScreenRows
                           => hit \/ Overlaps
    OBVIOUS
  <2> DEFINE s == oam[0]
  <2>1. /\ Set /\ scroll = 0 /\ switch.bg /\ switch.spr
        /\ s.y % Tile = 0 /\ s.x >= Tile /\ s.y <= Line /\ Line < s.y + Tile
        /\ Line < ScreenRows
    BY DEF Placed, Splitting
  <2>2. /\ Tile \in Nat /\ Tile > 0 /\ Width \in Nat /\ ScreenRows \in Nat /\ LastLine \in Nat
        /\ ScreenRows < LastLine /\ 0 \in Sprites /\ Column = 0 .. Width - 1
    BY Sizes, RowsAssumption
  <2>3. /\ s.x \in Nat /\ s.x < Width /\ s.y \in Nat
        /\ SpriteHeight \in Nat /\ SpriteHeight >= Tile
    <3>1. s.x \in Column /\ s.y \in Column /\ SpriteHeight \in Nat /\ SpriteHeight >= Tile
      BY <2>1, <2>2, SpriteFacts
    <3> QED
      BY <2>2, <3>1
  <2>4. Line \in 0 .. ScreenRows - 1 /\ Line \in 0 .. LastLine /\ Line # LastLine
    <3>1. Line \in Nat
      BY <2>2 DEF Placed, Line
    <3> QED
      BY <2>1, <2>2, <3>1
  <2>5. background' = BackgroundAfter(Line) /\ hit' = (hit \/ Hits(Line))
    <3>1. ~Program /\ ~EndFrame
      BY <2>4 DEF Program, Write, WriteScroll, WriteMask, WriteCtrl, WriteSprite, Draws,
                  EndFrame, Line
    <3> QED
      BY <2>1, <3>1 DEF Next, DrawLine, DrawBackground, Line
  <2>6. SpriteRow(0, Line) = Line
    <3> DEFINE k == s.y \div Tile
               j == Line - s.y
               y == s.y
    <3>1. k \in Nat /\ s.y = Tile * k
      <4> HIDE DEF y
      <4>1. y \in Nat /\ y % Tile = 0
        BY <2>1, <2>3 DEF y
      <4>2. y \div Tile \in Nat /\ y = Tile * (y \div Tile)
        BY <2>2, <4>1
      <4> QED
        BY <4>2 DEF y
    <3>2. j \in 0 .. Tile - 1 /\ Line = s.y + j
      BY <2>1, <2>2, <2>3, <2>4
    <3> HIDE DEF k, j
    <3>3. Line % Tile = j
      <4>1. Line = Tile * k + j
        BY <3>1, <3>2
      <4>2. (Tile * k + j) % Tile = j
        BY <2>2, <3>1, <3>2, Divided
      <4> QED
        BY <4>1, <4>2
    <3> QED
      BY <3>2, <3>3 DEF SpriteRow
  <2>7. Met(0, Line)
    BY <2>1, <2>2, <2>3, <2>4 DEF Met
  <2>8. Hits(Line) <=> \E x \in Opaque(0, Line) :
                         background'[Cell(s.x + x, Line)] = SpriteColour(0, x, Line)
    BY <2>1, <2>6, <2>7 DEF Hits
  <2>9. ASSUME NEW x \in Opaque(0, Line)
        PROVE  /\ x \in 0 .. Tile - 1 /\ s.x + x \in Tile .. Width + Tile - 1
               /\ SpriteColour(0, x, Line) # 0
    <3>1. x \in 0 .. Tile - 1 /\ SpriteColour(0, x, Line) # 0
      BY DEF Opaque
    <3> HIDE DEF s
    <3>2. s.x + x \in Tile .. Width + Tile - 1
      BY <2>1, <2>2, <2>3, <3>1
    <3> QED
      BY <3>1, <3>2
  <2>10. ASSUME NEW c \in Column
         PROVE  /\ World(c, Line).c # 0 <=> c \in Scanned(0, Line)
                /\ c \in Scanned(0, Line) => World(c, Line).c = Colour(0, c, Line)
    <3>1. c \in Nat /\ OnScreen(0, c) = c /\ c + scroll = c /\ Seamless /\ 0 \in Table
      BY <2>1, <2>2 DEF OnScreen, Seamless, Table
    <3>2. OnScreen(0, c) \in Column /\ OnScreen(0, c) + scroll = c
      BY <3>1
    <3> QED
      BY <2>1, <2>4, <3>1, <3>2, Seam
  <2>11. ASSUME Overlaps PROVE hit'
    <3>1. PICK x \in Opaque(0, Line) :
            /\ s.x + x \in Column
            /\ World(s.x + x, Line).c = SpriteColour(0, x, Line)
      BY <2>11 DEF Overlaps
    <3> DEFINE c == s.x + x
    <3>2. c \in Tile .. Width + Tile - 1 /\ SpriteColour(0, x, Line) # 0
      BY <2>9
    <3>3. c \in Scanned(0, Line) /\ Colour(0, c, Line) = SpriteColour(0, x, Line)
      BY <2>10, <3>1, <3>2
    <3>4. background'[Cell(c, Line)] = Colour(0, c, Line)
      <4> HIDE DEF c
      <4> QED
        BY <2>1, <2>4, <2>5, <3>2, <3>3, AtCell
    <3> QED
      BY <2>5, <2>8, <3>3, <3>4
  <2>12. ASSUME hit', writes = 0, s.y > LastLine - ScreenRows, ~hit
         PROVE  Overlaps
    <3>1. PICK x \in Opaque(0, Line) :
            background'[Cell(s.x + x, Line)] = SpriteColour(0, x, Line)
      BY <2>5, <2>8, <2>12
    <3> DEFINE c == s.x + x
               i == Cell(c, Line)
    <3>2. c \in Tile .. Width + Tile - 1 /\ SpriteColour(0, x, Line) # 0
      BY <2>9
    <3> HIDE DEF c
    <3>3. /\ i \in Cells
          /\ \A t \in Table : c \in Scanned(t, Line) => t = 0
          /\ background'[i] = IF c \in Scanned(0, Line) THEN Colour(0, c, Line)
                              ELSE background[i]
      BY <2>1, <2>4, <2>5, <3>2, AtCell
    <3>4. c \in Scanned(0, Line)
      <4> SUFFICES ASSUME c \notin Scanned(0, Line) PROVE FALSE
        OBVIOUS
      <4>1. background[i] # 0
        BY <3>1, <3>2, <3>3 DEF c
      <4>2. PICK t \in Table, d \in Column, l \in 0 .. LastLine :
              i = Cell(d, l) /\ d \in Scanned(t, l)
        BY <2>12, <3>3, <4>1 DEF FromPicture
      <4>3. d \in Nat /\ l \in Nat /\ l <= LastLine /\ c \in Nat
        BY <2>2, <3>2, <4>2
      <4>4. c * ScreenRows + Line = d * ScreenRows + l
        BY <4>2 DEF Cell
      <4>5. CASE c = d
        <5>1. l = Line
          BY <2>2, <2>4, <4>3, <4>4, <4>5
        <5> QED
          BY <3>3, <4>2, <4>5, <5>1
      <4>6. CASE c >= d + 1
        <5>1. ScreenRows * (d + 1) <= ScreenRows * c
          BY <2>2, <4>3, <4>6, Grows
        <5>2. /\ ScreenRows * (d + 1) = d * ScreenRows + ScreenRows
              /\ ScreenRows * c = c * ScreenRows
              /\ d * ScreenRows \in Nat /\ c * ScreenRows \in Nat
          BY <2>2, <4>3
        <5>3. l >= Line + ScreenRows
          BY <2>2, <2>4, <4>3, <4>4, <5>1, <5>2
        <5> HIDE DEF s
        <5> QED
          BY <2>1, <2>2, <2>3, <2>4, <2>12, <4>3, <5>3
      <4>7. CASE d >= c + 1
        <5>1. ScreenRows * (c + 1) <= ScreenRows * d
          BY <2>2, <4>3, <4>7, Grows
        <5>2. /\ ScreenRows * (c + 1) = c * ScreenRows + ScreenRows
              /\ ScreenRows * d = d * ScreenRows
              /\ d * ScreenRows \in Nat /\ c * ScreenRows \in Nat
          BY <2>2, <4>3
        <5>3. Line >= l + ScreenRows
          BY <2>2, <2>4, <4>3, <4>4, <5>1, <5>2
        <5> QED
          BY <2>2, <2>4, <4>3, <5>3
      <4> QED
        BY <4>3, <4>5, <4>6, <4>7
    <3>5. c \in Column
      BY <3>4 DEF Scanned
    <3>6. World(c, Line).c = SpriteColour(0, x, Line)
      BY <2>10, <3>1, <3>3, <3>4, <3>5 DEF c
    <3> QED
      BY <3>5, <3>6 DEF Overlaps, c
  <2> QED
    BY <2>11, <2>12
<1> QED
  BY <1>1, AlwaysFromPicture, PTL DEF Spec, HitAtOverlap

-----------------------------------------------------------------------------
(* Types                                                                    *)

LEMMA ColourTyped ==
  ASSUME Set, NEW t \in Table, NEW c \in Column, NEW line \in 0 .. LastLine
  PROVE  Colour(t, c, line) \in 0 .. 3 /\ Palette(t, c, line) \in 0 .. 3
<1>1. switch.base + t \in 0 .. 4 /\ switch.bgHalf \in Half
  <2>1. switch \in Switch
    BY RowsAssumption DEF Set
  <2>2. switch.base \in 0 .. 3 /\ switch.bgHalf \in Half
    BY <2>1 DEF Switch
  <2> QED
    BY <2>2 DEF Table
<1> DEFINE table == switch.base + t
<1>2. /\ c \div Tile \in 0 .. Tiles - 1 /\ c % Tile \in 0 .. Tile - 1
      /\ line \div Tile \in 0 .. LastLine \div Tile /\ line % Tile \in 0 .. Tile - 1
  BY Columns, Lines
<1> HIDE DEF table
<1>3. Names[table][line \div Tile][c \div Tile] \in Pictures
  <2>1. Names[table] \in [0 .. LastLine \div Tile -> [0 .. Tiles - 1 -> Pictures]]
    BY <1>1, RowsAssumption DEF table
  <2> QED
    BY <1>2, <2>1
<1>4. Colour(t, c, line) \in 0 .. 3
  <2>1. Patterns[switch.bgHalf][Names[table][line \div Tile][c \div Tile]]
          \in [0 .. Tile - 1 -> [0 .. Tile - 1 -> 0 .. 3]]
    BY <1>1, <1>3, RowsAssumption
  <2> QED
    BY <1>2, <2>1 DEF Colour, ColourIn, table
<1>5. Palette(t, c, line) \in 0 .. 3
  <2> DEFINE byte == Attribute(t, (c \div Tile) \div 4, line \div (4 * Tile))
             i == Palettes[table][line \div (2 * Tile)][c \div (2 * Tile)]
  <2>1. Palette(t, c, line) = i
    BY PaletteOf DEF table
  <2>2. /\ Tile \in Nat /\ Tile > 0 /\ LastLine \in Nat /\ line \in Nat /\ line <= LastLine
        /\ c \in Nat
    BY Sizes
  <2> DEFINE ay == line \div (4 * Tile)
             ax == (c \div Tile) \div 4
             last == LastLine \div (4 * Tile)
  <2>3. ay \in 0 .. last /\ last \in Nat
    <3>1. 4 * Tile \in Nat /\ 4 * Tile > 0
      BY <2>2
    <3>2. ay \in 0 .. last
      BY <2>2, <3>1, DivUnder
    <3>3. last \in Nat
      BY <2>2, HalfOfFour
    <3> QED
      BY <3>2, <3>3
  <2>4. line \div (2 * Tile) = 2 * ay \/ line \div (2 * Tile) = 2 * ay + 1
    <3>1. /\ line \div (2 * Tile) = 2 * ay + (IF line % (4 * Tile) < 2 * Tile THEN 0 ELSE 1)
          /\ ay \in Nat
      BY <2>2, HalfOfFour
    <3> HIDE DEF ay
    <3> QED
      BY <3>1
  <2>5. c \div (2 * Tile) = 2 * ax \/ c \div (2 * Tile) = 2 * ax + 1
    BY <2>2, HalfOfTiles
  <2>6. 2 * ax \in 0 .. Tiles \div 2 - 1 /\ 2 * ax + 1 \in 0 .. Tiles \div 2 - 1
    <3> DEFINE tile_x == c \div Tile
    <3>1. tile_x \in 0 .. Tiles - 1 /\ Tiles \in Nat /\ Tiles % 4 = 0
      BY <1>2, Sizes, RowsAssumption
    <3> HIDE DEF tile_x
    <3>2. /\ 2 * (tile_x \div 4) \in 0 .. Tiles \div 2 - 1
          /\ 2 * (tile_x \div 4) + 1 \in 0 .. Tiles \div 2 - 1
      BY <3>1
    <3> QED
      BY <3>2 DEF tile_x
  <2>7. line \div (2 * Tile) \in 0 .. 2 * last + 1
    <3> HIDE DEF ay, last
    <3> QED
      BY <2>3, <2>4
  <2>8. c \div (2 * Tile) \in 0 .. Tiles \div 2 - 1
    BY <2>5, <2>6
  <2>9. Palettes[table] \in [0 .. 2 * last + 1 -> [0 .. Tiles \div 2 - 1 -> 0 .. 3]]
    BY <1>1, RowsAssumption DEF table
  <2> HIDE DEF last
  <2>10. i \in 0 .. 3
    BY <2>7, <2>8, <2>9
  <2> QED
    BY <2>1, <2>10
<1> QED
  BY <1>4, <1>5

Typed ==
  /\ TypeOK /\ drawn \in [Layer -> SUBSET Pixel] /\ drawnSize \in [Layer -> Nat]
  /\ \A l \in Layer : IsFiniteSet(drawn[l])

LEMMA BackgroundTyped ==
  ASSUME Typed, NEW line \in 0 .. LastLine, DrawBackground(line)
  PROVE  /\ background' \in [Cells -> 0 .. 3]
         /\ row' \subseteq [x : Column, y : 0 .. Height - 1, c : 0 .. 3, p : 0 .. 3]
<1>0. Set /\ background \in [Cells -> 0 .. 3]
  BY DEF Typed, TypeOK, Set
<1>1. CASE ~switch.bg
  BY <1>0, <1>1 DEF DrawBackground
<1>2. CASE switch.bg
  <2>1. background' = BackgroundAfter(line)
        /\ row' = {Shown(a[1], a[2], line) : a \in Added(line)}
    BY <1>2 DEF DrawBackground, Shown
  <2>2. ASSUME NEW i \in Cells
        PROVE  background'[i] \in 0 .. 3
    <3> DEFINE c == (i - line) \div ScreenRows
    <3>1. \/ \E t \in Table : c \in Scanned(t, line) /\ background'[i] = Colour(t, c, line)
          \/ background'[i] = background[i]
      BY <2>1 DEF BackgroundAfter, Table
    <3> HIDE DEF c
    <3>2. \A t : c \in Scanned(t, line) => c \in Column
      BY DEF Scanned
    <3> QED
      BY <1>0, <3>1, <3>2, ColourTyped
  <2>3. background' \in [Cells -> 0 .. 3]
    <3>1. background' = [i \in Cells |-> background'[i]]
      BY <2>1 DEF BackgroundAfter
    <3> QED
      BY <2>2, <3>1
  <2>4. ASSUME NEW a \in Added(line)
        PROVE  Shown(a[1], a[2], line) \in
                 [x : Column, y : 0 .. Height - 1, c : 0 .. 3, p : 0 .. 3]
    <3>1. a[1] \in Table /\ a[2] \in Column /\ OnScreen(a[1], a[2]) \in Column
          /\ line + 1 < Height
      BY DEF Added
    <3>2. line + 1 \in 0 .. Height - 1
      BY <3>1, Sizes
    <3>3. Colour(a[1], a[2], line) \in 0 .. 3 /\ Palette(a[1], a[2], line) \in 0 .. 3
      BY <1>0, <3>1, ColourTyped
    <3> QED
      BY <3>1, <3>2, <3>3 DEF Shown
  <2> QED
    BY <2>1, <2>3, <2>4
<1> QED
  BY <1>1, <1>2

(* A buffer's size counts the pixels it was given, those that others cover  *)
(* too.                                                                     *)
LEMMA SpritesTyped ==
  ASSUME Typed, NEW line \in 0 .. LastLine, DrawSprites(line)
  PROVE  /\ drawn' \in [Layer -> SUBSET Pixel] /\ drawnSize' \in [Layer -> Nat]
         /\ \A l \in Layer : /\ IsFiniteSet(drawn'[l])
                             /\ drawnSize'[l] >= Cardinality(drawn'[l])
<1>0. Set
  BY DEF Typed, TypeOK, Set
<1>1. CASE ~switch.spr
  BY <1>1 DEF DrawSprites, Typed, TypeOK
<1>2. CASE switch.spr
  <2>1. /\ drawn' = [l \in Layer |-> drawn[l] \cup Drawing(l, line)]
        /\ drawnSize' = [l \in Layer |-> drawnSize[l] + Cardinality(Adding(l, line))]
    BY <1>2 DEF DrawSprites, Drawing, Adding
  <2>2. ASSUME NEW l \in Layer
        PROVE  /\ drawn'[l] \subseteq Pixel /\ drawnSize'[l] \in Nat
               /\ IsFiniteSet(drawn'[l]) /\ drawnSize'[l] >= Cardinality(drawn'[l])
    <3> DEFINE old == drawn[l]
               new == Drawing(l, line)
               both == old \cap new
               adds == Cardinality(Adding(l, line))
               size == drawnSize[l]
    <3>1. /\ IsFiniteSet(old) /\ old \subseteq Pixel /\ size \in Nat /\ size >= Cardinality(old)
      BY DEF Typed, TypeOK
    <3>2. /\ IsFiniteSet(new) /\ adds \in Nat /\ Cardinality(new) <= adds
      BY <1>0, AddsFew
    <3>3. new \subseteq Pixel
      BY <1>0, PixelsInShape DEF Drawing, MetIn
    <3>4. drawn'[l] = old \cup new /\ drawnSize'[l] = size + adds
      BY <2>1
    <3> HIDE DEF old, new, adds, size
    <3>5. IsFiniteSet(both) /\ Cardinality(both) \in Nat
      BY <3>1, FS_Subset, FS_CardinalityType
    <3> HIDE DEF both
    <3>6. /\ IsFiniteSet(old \cup new)
          /\ Cardinality(old \cup new) = Cardinality(old) + Cardinality(new) - Cardinality(both)
      BY <3>1, <3>2, FS_Union DEF both
    <3>7. Cardinality(old) \in Nat /\ Cardinality(new) \in Nat
      BY <3>1, <3>2, FS_CardinalityType
    <3>8. size + adds >= Cardinality(old \cup new) /\ size + adds \in Nat
      BY <3>1, <3>2, <3>5, <3>6, <3>7
    <3> QED
      BY <3>1, <3>3, <3>4, <3>6, <3>8
  <2>3. drawn' = [l \in Layer |-> drawn'[l]] /\ drawnSize' = [l \in Layer |-> drawnSize'[l]]
    BY <2>1
  <2>4. drawn' \in [Layer -> SUBSET Pixel] /\ drawnSize' \in [Layer -> Nat]
    BY <2>2, <2>3
  <2> QED
    BY <2>2, <2>4
<1> QED
  BY <1>1, <1>2

(* TypeOK.                                                                  *)
THEOREM TypeCorrect == Spec => []TypeOK
<1>0. LastLine \in Nat /\ LastLine > 0
  BY Sizes
<1>1. Init => Typed
  <2> SUFFICES ASSUME Init PROVE Typed
    OBVIOUS
  <2>1. /\ scroll \in Column /\ switch \in Switches /\ oam \in [Sprites -> SpriteValues]
        /\ background \in [Cells -> 0 .. 3] /\ row = {} /\ hit \in BOOLEAN
        /\ scanline \in -1 .. LastLine - 1
    <3>1. background = [i \in Cells |-> 0] /\ 0 \in 0 .. 3
      BY DEF Init
    <3>2. background \in [Cells -> 0 .. 3]
      BY <3>1
    <3>3. scroll \in Column
      BY RowsAssumption DEF Init, Column
    <3> QED
      <4>1. scanline = -1 /\ -1 \in -1 .. LastLine - 1
        BY <1>0 DEF Init
      <4>2. switch \in Switches /\ oam \in [Sprites -> SpriteValues] /\ row = {}
            /\ hit \in BOOLEAN
        BY DEF Init
      <4> QED
        BY <3>2, <3>3, <4>1, <4>2
  <2>2. \A l \in Layer : drawn[l] = {} /\ drawnSize[l] = 0
    BY DEF Init
  <2>3. drawn \in [Layer -> SUBSET Pixel] /\ drawnSize \in [Layer -> Nat]
    BY DEF Init
  <2>4. IsFiniteSet({}) /\ Cardinality({}) = 0
    BY FS_EmptySet
  <2>5. \A l \in Layer : /\ IsFiniteSet(drawn[l]) /\ drawn[l] \subseteq Pixel
                         /\ drawnSize[l] >= Cardinality(drawn[l])
    BY <2>2, <2>4
  <2> QED
    BY <2>1, <2>3, <2>5 DEF Typed, TypeOK
<1>2. Typed /\ [Next]_vars => Typed'
  <2> SUFFICES ASSUME Typed, [Next]_vars PROVE Typed'
    OBVIOUS
  <2>0. Set /\ scanline \in -1 .. LastLine - 1
    BY DEF Typed, TypeOK, Set
  <2>1. CASE DrawLine
    <3> DEFINE line == scanline + 1
    <3>1. /\ line \in 0 .. LastLine /\ scanline' \in -1 .. LastLine - 1
          /\ DrawBackground(line) /\ DrawSprites(line) /\ UNCHANGED registers
          /\ hit' = (hit \/ Hits(line))
      BY <1>0, <2>0, <2>1 DEF DrawLine
    <3> HIDE DEF line
    <3>2. /\ background' \in [Cells -> 0 .. 3]
          /\ row' \subseteq [x : Column, y : 0 .. Height - 1, c : 0 .. 3, p : 0 .. 3]
      BY <3>1, BackgroundTyped
    <3>3. /\ drawn' \in [Layer -> SUBSET Pixel] /\ drawnSize' \in [Layer -> Nat]
          /\ \A l \in Layer : /\ IsFiniteSet(drawn'[l])
                              /\ drawnSize'[l] >= Cardinality(drawn'[l])
      BY <3>1, SpritesTyped
    <3>4. scroll' \in Column /\ switch' \in Switches /\ oam' \in [Sprites -> SpriteValues]
      BY <2>0, <3>1, Still DEF Set
    <3>5. hit' \in BOOLEAN
      BY <3>1
    <3>6. \A l \in Layer : drawn'[l] \subseteq Pixel
      BY <3>3
    <3> QED
      BY <3>1, <3>2, <3>3, <3>4, <3>5, <3>6 DEF Typed, TypeOK
  <2>2. CASE EndFrame
    <3> DEFINE line == scanline + 1
    <3>1. /\ line \in 0 .. LastLine /\ scanline' \in -1 .. LastLine - 1
          /\ DrawBackground(line) /\ UNCHANGED registers /\ hit' = FALSE
          /\ drawn' = [l \in Layer |-> {}] /\ drawnSize' = [l \in Layer |-> 0]
      BY <1>0, <2>0, <2>2 DEF EndFrame
    <3> HIDE DEF line
    <3>2. /\ background' \in [Cells -> 0 .. 3]
          /\ row' \subseteq [x : Column, y : 0 .. Height - 1, c : 0 .. 3, p : 0 .. 3]
      BY <3>1, BackgroundTyped
    <3>3. IsFiniteSet({}) /\ Cardinality({}) = 0
      BY FS_EmptySet
    <3>4. /\ drawn' \in [Layer -> SUBSET Pixel] /\ drawnSize' \in [Layer -> Nat]
          /\ \A l \in Layer : /\ IsFiniteSet(drawn'[l]) /\ drawn'[l] \subseteq Pixel
                              /\ drawnSize'[l] >= Cardinality(drawn'[l])
      BY <3>1, <3>3
    <3>5. scroll' \in Column /\ switch' \in Switches /\ oam' \in [Sprites -> SpriteValues]
      BY <2>0, <3>1, Still DEF Set
    <3>6. hit' \in BOOLEAN
      BY <3>1
    <3> QED
      BY <3>1, <3>2, <3>4, <3>5, <3>6 DEF Typed, TypeOK
  <2>3. CASE Program
    <3>1. /\ UNCHANGED <<scanline, canvas>>
          /\ \/ \E s \in Scrolls : scroll' = s /\ UNCHANGED <<switch, oam>>
             \/ \E b \in Switches : switch' = b /\ UNCHANGED <<scroll, oam>>
             \/ \E n \in Sprites, v \in SpriteValues :
                  oam' = [oam EXCEPT ![n] = v] /\ UNCHANGED <<scroll, switch>>
      BY <2>3 DEF Program, Write, WriteScroll, WriteMask, WriteCtrl, WriteSprite
    <3>2. scroll' \in Column /\ switch' \in Switches /\ oam' \in [Sprites -> SpriteValues]
      BY <2>0, <3>1, RowsAssumption DEF Set, Column
    <3>3. UNCHANGED <<background, row, drawn, drawnSize, hit>>
      BY <3>1 DEF canvas
    <3> QED
      BY <3>1, <3>2, <3>3 DEF Typed, TypeOK
  <2>4. CASE UNCHANGED vars
    BY <2>4 DEF vars, registers, canvas, Typed, TypeOK
  <2> QED
    BY <2>1, <2>2, <2>3, <2>4 DEF Next
<1>3. Typed => TypeOK
  BY DEF Typed
<1> QED
  BY <1>1, <1>2, <1>3, PTL DEF Spec

=============================================================================
