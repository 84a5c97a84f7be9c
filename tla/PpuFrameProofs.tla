---------------------------- MODULE PpuFrameProofs ----------------------------
(***************************************************************************)
(* For every frame geometry: PpuFrame's types, the freshness of the pixel  *)
(* buffers and the bound on the background's; and of PpuFrameHistory, that *)
(* the console shows what was drawn and that sprite 0 hits once a frame.   *)
(***************************************************************************)
EXTENDS PpuFrameHistory, TLAPS

-----------------------------------------------------------------------------
(* The framebuffer device.                                                  *)

LEMMA FbInitType == FbInit \in FbState
BY DEF FbInit, FbState, NoPointer, Empty, PixelBuf, Layer, Pointer

LEMMA FlushType ==
  ASSUME NEW f \in FbState, NEW l \in Layer,
         NEW host \in [{Pointer(k) : k \in Layer} -> PixelBuf]
  PROVE  /\ Flush(f, l, host) \in FbState
         /\ ~Flush(f, l, host).write_addr
         /\ Flush(f, l, host).inited = f.inited
<1>1. SetLow(f, Pointer(l).low) \in FbState
  BY DEF SetLow, FbState, Pointer
<1> DEFINE g == SetHigh(SetLow(f, Pointer(l).low), Pointer(l).high)
<1>2. /\ g \in FbState
      /\ g.write_addr /\ g.inited = f.inited
      /\ g.addr = Pointer(l)
  BY <1>1 DEF SetHigh, SetLow, FbState, Pointer
<1>3. host[g.addr] \in PixelBuf
  BY <1>2
<1> QED
  BY <1>2, <1>3 DEF Flush, TakeLayer, FbState

LEMMA FlipType ==
  ASSUME NEW f \in FbState
  PROVE  /\ Flip(f) \in FbState
         /\ Flip(f).layers = [l \in Layer |-> Empty]
         /\ Flip(f).inited
         /\ Flip(f).write_addr = f.write_addr
<1>1. Empty \in PixelBuf
  BY DEF Empty, PixelBuf
<1>2. [l \in Layer |-> f.layers[l].lines] \in [Layer -> SUBSET Nat]
  BY DEF FbState, PixelBuf
<1> QED
  BY <1>1, <1>2 DEF Flip, FbState

LEMMA BackdropType ==
  ASSUME NEW f \in FbState, NEW v \in Nat
  PROVE  /\ SetBackdrop(f, v) \in FbState
         /\ SetBackdrop(f, v).write_addr = f.write_addr
BY ColourAssumption DEF SetBackdrop, FbState

-----------------------------------------------------------------------------
(* One call of ppu_cycle.                                                   *)

LEMMA DrawnType ==
  ASSUME TypeOK, NEW line \in 0 .. LastLine, NEW w \in BgWidths, NEW px \in SpritePixels
  PROVE  /\ Drawn(line, w, px) \in [Layer -> PixelBuf]
         /\ \A l \in Layer :
              Drawn(line, w, px)[l].lines \subseteq buffers[l].lines \cup {line}
<1>1. ASSUME NEW b \in PixelBuf, NEW n \in Nat
      PROVE  /\ Add(b, line, n) \in PixelBuf
             /\ Add(b, line, n).lines \subseteq b.lines \cup {line}
  BY FrameAssumption DEF Add, PixelBuf
<1> DEFINE n(l) == CASE l = "bg" /\ mask.bg /\ line + 1 < Height -> w
                     [] l # "bg" /\ mask.spr -> px[l]
                     [] OTHER -> 0
<1>2. \A l \in Layer : n(l) \in Nat
  <2>1. w \in Nat /\ px["bbg"] \in Nat /\ px["fg"] \in Nat
    BY FrameAssumption
  <2> QED
    BY <2>1 DEF Layer
<1>3. \A l \in Layer : buffers[l] \in PixelBuf
  BY DEF TypeOK
<1>4. Drawn(line, w, px) = [l \in Layer |-> Add(buffers[l], line, n(l))]
  BY DEF Drawn
<1> HIDE DEF n
<1> QED
  BY <1>1, <1>2, <1>3, <1>4

LEMMA UpdateScreenType ==
  ASSUME TypeOK, NEW bufs \in [Layer -> PixelBuf], NEW backdrop \in Backdrops,
         UpdateScreen(bufs, backdrop)
  PROVE  /\ fb' \in FbState
         /\ fb'.layers = [l \in Layer |-> Empty]
         /\ fb'.inited
         /\ ~fb.write_addr => ~fb'.write_addr
         /\ buffers' = [l \in Layer |-> Empty]
<1> DEFINE host == [p \in {Pointer(l) : l \in Layer} |-> bufs[p.low]]
           f1 == SetBackdrop(fb, backdrop)
           f2 == IF mask.spr THEN Flush(f1, "bbg", host) ELSE f1
           f3 == IF mask.bg THEN Flush(f2, "bg", host) ELSE f2
           f4 == IF mask.spr THEN Flush(f3, "fg", host) ELSE f3
<1>1. host \in [{Pointer(l) : l \in Layer} -> PixelBuf]
  BY DEF Pointer
<1>2. backdrop \in Nat /\ fb \in FbState
  BY FrameAssumption DEF TypeOK
<1>3. f1 \in FbState /\ f1.write_addr = fb.write_addr
  BY <1>2, BackdropType
<1>4. f2 \in FbState /\ (~f1.write_addr => ~f2.write_addr)
  BY <1>1, <1>3, FlushType DEF Layer
<1>5. f3 \in FbState /\ (~f2.write_addr => ~f3.write_addr)
  BY <1>1, <1>4, FlushType DEF Layer
<1>6. f4 \in FbState /\ (~f3.write_addr => ~f4.write_addr)
  BY <1>1, <1>5, FlushType DEF Layer
<1>7. fb' = Flip(f4) /\ buffers' = [l \in Layer |-> Empty]
  BY DEF UpdateScreen
<1> QED
  BY <1>3, <1>4, <1>5, <1>6, <1>7, FlipType

-----------------------------------------------------------------------------
(* The inductive invariant: the four properties of the runs, with the bound *)
(* on the background strengthened to the rows drawn so far.                 *)

RowsBounded == buffers["bg"].size <= Width * (scanline + 1)

FrameInv ==
  /\ TypeOK
  /\ NoStaleLines
  /\ RowsBounded
  /\ BackgroundBounded
  /\ VblankWindow
  /\ HandshakeDone

(* The background of one more scanline.                                     *)
LEMMA RowFits ==
  ASSUME FrameInv, NEW w \in BgWidths, NEW px \in SpritePixels
  PROVE  LET line == scanline + 1
         IN  /\ Drawn(line, w, px)["bg"].size <= Width * (line + 1)
             /\ Drawn(line, w, px)["bg"].size <= Width * (Height - 1)
<1> DEFINE line == scanline + 1
           old == buffers["bg"].size
           new == Drawn(line, w, px)["bg"].size
<1>1. /\ Width \in Nat /\ Height \in Nat /\ line \in Nat
      /\ w \in Nat /\ w <= Width /\ old \in Nat
  BY FrameAssumption DEF FrameInv, TypeOK, PixelBuf, Layer
<1>2. old <= Width * line /\ old <= Width * (Height - 1)
  BY DEF FrameInv, RowsBounded, BackgroundBounded
<1>3. Width * (line + 1) = Width * line + Width
  BY <1>1
<1>4. CASE mask.bg /\ line + 1 < Height
  <2>1. new = old \/ new = old + w
    BY <1>4 DEF Drawn, Add, Layer
  <2>2. Width * (line + 1) <= Width * (Height - 1)
    BY <1>1, <1>4
  <2>3. Width * line \in Nat /\ Width * (Height - 1) \in Int
    BY <1>1
  <2> QED
    BY <1>1, <1>2, <1>3, <2>1, <2>2, <2>3
<1>5. CASE ~(mask.bg /\ line + 1 < Height)
  <2>1. new = old
    BY <1>5 DEF Drawn, Add, Layer
  <2>2. Width * line \in Nat /\ Width * (Height - 1) \in Int
    BY <1>1
  <2> QED
    BY <1>1, <1>2, <1>3, <2>1, <2>2
<1> QED
  BY <1>4, <1>5

(* The types and the freshness of the buffers after a scanline is drawn.    *)
LEMMA DrawFits ==
  ASSUME FrameInv, NEW w \in BgWidths, NEW px \in SpritePixels
  PROVE  LET line == scanline + 1
         IN  /\ line \in 0 .. LastLine
             /\ Drawn(line, w, px) \in [Layer -> PixelBuf]
             /\ \A l \in Layer : Drawn(line, w, px)[l].lines \subseteq 0 .. line
<1> DEFINE line == scanline + 1
<1>1. line \in 0 .. LastLine /\ LastLine \in Nat
  BY FrameAssumption DEF FrameInv, TypeOK
<1>2. \A l \in Layer : buffers[l].lines \subseteq 0 .. scanline
  BY DEF FrameInv, NoStaleLines
<1>3. (0 .. scanline) \cup {line} \subseteq 0 .. line
  <2>1. scanline \in Int
    BY FrameAssumption DEF FrameInv, TypeOK
  <2>2. ASSUME NEW x \in 0 .. scanline PROVE x \in 0 .. line
    BY <2>1
  <2>3. line \in 0 .. line
    BY <1>1
  <2> QED
    BY <2>2, <2>3
<1>4. /\ Drawn(line, w, px) \in [Layer -> PixelBuf]
      /\ \A l \in Layer :
           Drawn(line, w, px)[l].lines \subseteq buffers[l].lines \cup {line}
  BY <1>1, DrawnType DEF FrameInv
<1> HIDE DEF line
<1> QED
  BY <1>1, <1>2, <1>3, <1>4 DEF line

(* ppu_cycle on a scanline that neither starts vertical blank nor ends the  *)
(* frame.                                                                   *)
LEMMA DrawLineKeeps ==
  ASSUME FrameInv, NEW w \in BgWidths, NEW px \in SpritePixels,
         NEW match \in Matches, DrawLine(w, px, match)
  PROVE  FrameInv'
<1> DEFINE line == scanline + 1
<1>1. /\ line \in 0 .. LastLine /\ line # LastLine /\ scanline' = line
      /\ buffers' = Drawn(line, w, px)
      /\ UNCHANGED <<generates_nmi, mask, in_vblank, fb, nmi>>
  BY DrawFits DEF DrawLine
<1>2. TypeOK'
  <2>1. scanline' \in -1 .. LastLine - 1
    BY <1>1, FrameAssumption
  <2>2. buffers' \in [Layer -> PixelBuf] /\ fb' \in FbState
    BY <1>1, DrawFits DEF FrameInv, TypeOK
  <2>3. sprite_0_hit' \in BOOLEAN /\ ppu_sprite_hit_occured' \in BOOLEAN
        /\ ready' \in BOOLEAN
    BY DEF DrawLine
  <2> QED
    BY <1>1, <2>1, <2>2, <2>3 DEF FrameInv, TypeOK
<1>3. NoStaleLines'
  BY <1>1, DrawFits DEF FrameInv, NoStaleLines
<1>4. RowsBounded' /\ BackgroundBounded'
  BY <1>1, RowFits DEF RowsBounded, BackgroundBounded
<1>5. VblankWindow' /\ HandshakeDone'
  <2>1. scanline \in Int /\ VBlankLine \in Int
    BY FrameAssumption DEF FrameInv, TypeOK
  <2> QED
    BY <1>1, <2>1 DEF FrameInv, VblankWindow, HandshakeDone
<1> QED
  BY <1>2, <1>3, <1>4, <1>5 DEF FrameInv

(* ppu_cycle on the scanline that starts vertical blank.                    *)
LEMMA StartVblankKeeps ==
  ASSUME FrameInv, NEW w \in BgWidths, NEW px \in SpritePixels,
         NEW match \in Matches, StartVblank(w, px, match)
  PROVE  FrameInv'
<1> DEFINE line == scanline + 1
<1>1. /\ line \in 0 .. LastLine /\ line = VBlankLine /\ scanline' = line
      /\ buffers' = Drawn(line, w, px)
      /\ UNCHANGED <<generates_nmi, mask, fb>>
  BY DrawFits DEF StartVblank
<1>2. TypeOK'
  <2>1. scanline' \in -1 .. LastLine - 1
    BY <1>1, FrameAssumption
  <2>2. buffers' \in [Layer -> PixelBuf] /\ fb' \in FbState
    BY <1>1, DrawFits DEF FrameInv, TypeOK
  <2>3. /\ sprite_0_hit' \in BOOLEAN /\ ppu_sprite_hit_occured' \in BOOLEAN
        /\ ready' \in BOOLEAN /\ in_vblank' \in BOOLEAN /\ nmi' \in BOOLEAN
    BY DEF StartVblank
  <2> QED
    BY <1>1, <2>1, <2>2, <2>3 DEF FrameInv, TypeOK
<1>3. NoStaleLines'
  BY <1>1, DrawFits DEF FrameInv, NoStaleLines
<1>4. RowsBounded' /\ BackgroundBounded'
  BY <1>1, RowFits DEF RowsBounded, BackgroundBounded
<1>5. VblankWindow' /\ HandshakeDone'
  BY <1>1, FrameAssumption DEF FrameInv, VblankWindow, HandshakeDone
<1> QED
  BY <1>2, <1>3, <1>4, <1>5 DEF FrameInv

(* ppu_cycle on the scanline that ends the frame.                           *)
LEMMA EndFrameKeeps ==
  ASSUME FrameInv, NEW w \in BgWidths, NEW px \in SpritePixels,
         NEW match \in Matches, NEW backdrop \in Backdrops,
         EndFrame(w, px, match, backdrop)
  PROVE  FrameInv'
<1> DEFINE bufs == Drawn(scanline + 1, w, px)
<1>1. bufs \in [Layer -> PixelBuf]
  BY DrawFits
<1>2. UpdateScreen(bufs, backdrop) /\ scanline' = -1 /\ ~in_vblank'
      /\ UNCHANGED <<generates_nmi, mask, nmi>>
  BY DEF EndFrame
<1> HIDE DEF bufs
<1>3. /\ fb' \in FbState
      /\ fb'.layers = [l \in Layer |-> Empty]
      /\ ~fb.write_addr => ~fb'.write_addr
      /\ buffers' = [l \in Layer |-> Empty]
  BY <1>1, <1>2, UpdateScreenType DEF FrameInv
<1>4. TypeOK'
  <2>1. buffers' \in [Layer -> PixelBuf]
    BY <1>3 DEF Empty, PixelBuf
  <2>2. scanline' \in -1 .. LastLine - 1
    BY <1>2, FrameAssumption
  <2>3. /\ sprite_0_hit' \in BOOLEAN /\ ppu_sprite_hit_occured' \in BOOLEAN
        /\ ready' \in BOOLEAN /\ in_vblank' \in BOOLEAN
    BY DEF EndFrame
  <2> QED
    BY <1>2, <1>3, <2>1, <2>2, <2>3 DEF FrameInv, TypeOK
<1>5. NoStaleLines'
  BY <1>3 DEF NoStaleLines, Empty
<1>6. RowsBounded' /\ BackgroundBounded'
  <2>1. buffers'["bg"].size = 0
    BY <1>3 DEF Empty, Layer
  <2>2. Width * (scanline' + 1) = 0 /\ 0 <= Width * (Height - 1)
    BY <1>2, FrameAssumption
  <2> QED
    BY <2>1, <2>2 DEF RowsBounded, BackgroundBounded
<1>7. VblankWindow' /\ HandshakeDone'
  BY <1>2, <1>3 DEF FrameInv, VblankWindow, HandshakeDone
<1> QED
  BY <1>4, <1>5, <1>6, <1>7 DEF FrameInv

(* The program's registers and the interrupt leave the frame alone.         *)
LEMMA OthersKeep ==
  ASSUME FrameInv, Program \/ TakeNmi \/ UNCHANGED vars
  PROVE  FrameInv'
<1> USE DEF FrameInv, TypeOK, NoStaleLines, RowsBounded, BackgroundBounded,
            VblankWindow, HandshakeDone, status
<1>1. ASSUME NEW b \in CtrlValues, WriteCtrl(b) PROVE FrameInv'
  BY <1>1, FrameAssumption DEF WriteCtrl
<1>2. ASSUME NEW m \in MaskValues, WriteMask(m) PROVE FrameInv'
  BY <1>2, FrameAssumption DEF WriteMask
<1>3. CASE ReadStatus
  BY <1>3 DEF ReadStatus
<1>4. CASE TakeNmi
  BY <1>4 DEF TakeNmi
<1>5. CASE UNCHANGED vars
  BY <1>5 DEF vars
<1> QED
  BY <1>1, <1>2, <1>3, <1>4, <1>5 DEF Program

LEMMA FrameInit ==
  ASSUME Init
  PROVE  FrameInv
<1>1. Empty \in PixelBuf /\ Empty.size = 0 /\ Empty.lines = {}
  BY DEF Empty, PixelBuf
<1>2. /\ buffers \in [Layer -> PixelBuf] /\ buffers["bg"].size = 0
      /\ \A l \in Layer : buffers[l].lines \subseteq 0 .. scanline
  BY <1>1 DEF Init, Layer
<1>3. fb \in FbState /\ fb.layers = [l \in Layer |-> Empty] /\ ~fb.write_addr
      /\ ~fb.inited
  BY FbInitType DEF Init, FbInit
<1>4. scanline \in -1 .. LastLine - 1
  BY FrameAssumption DEF Init
<1>5. TypeOK
  BY <1>2, <1>3, <1>4 DEF Init, TypeOK
<1>6. 0 <= Width * (scanline + 1) /\ 0 <= Width * (Height - 1)
  BY FrameAssumption DEF Init
<1>7. RowsBounded /\ BackgroundBounded
  BY <1>2, <1>6 DEF RowsBounded, BackgroundBounded
<1> QED
  BY <1>2, <1>3, <1>5, <1>7
     DEF FrameInv, NoStaleLines, VblankWindow, HandshakeDone

LEMMA FrameInvariant == Spec => []FrameInv
<1>1. Init => FrameInv
  BY FrameInit
<1>2. FrameInv /\ [Next]_vars => FrameInv'
  BY DrawLineKeeps, StartVblankKeeps, EndFrameKeeps, OthersKeep DEF Next, Cycle
<1> QED
  BY <1>1, <1>2, PTL DEF Spec

(* Whatever the program switches on and off, and whenever, the frame's      *)
(* state keeps its types.                                                   *)
THEOREM TypeCorrect == Spec => []TypeOK
<1>1. FrameInv => TypeOK
  BY DEF FrameInv
<1> QED
  BY <1>1, FrameInvariant, PTL

(* No pixel buffer of either side ever holds a scanline of an earlier       *)
(* frame.                                                                   *)
THEOREM BuffersFresh == Spec => []NoStaleLines
<1>1. FrameInv => NoStaleLines
  BY DEF FrameInv
<1> QED
  BY <1>1, FrameInvariant, PTL

(* The background's buffer never grows past the visible rows below the      *)
(* first: 256 * 239 of its 264 * 264 entries.                               *)
THEOREM BackgroundFits == Spec => []BackgroundBounded
<1>1. FrameInv => BackgroundBounded
  BY DEF FrameInv
<1> QED
  BY <1>1, FrameInvariant, PTL

(* The vertical-blank flag is up only between its scanline and the end of   *)
(* the frame, once the first frame has ended; and no pointer handed to the  *)
(* framebuffer is left over.                                                *)
THEOREM FrameProtocol == Spec => [](VblankWindow /\ HandshakeDone)
<1>1. FrameInv => VblankWindow /\ HandshakeDone
  BY DEF FrameInv
<1> QED
  BY <1>1, FrameInvariant, PTL

-----------------------------------------------------------------------------
(* What reaches the console.                                                *)

(* nes_flush_buf hands over the buffer it names, and no other layer.        *)
LEMMA FlushLayer ==
  ASSUME NEW f \in FbState, NEW l \in Layer,
         NEW host \in [{Pointer(k) : k \in Layer} -> PixelBuf]
  PROVE  /\ Flush(f, l, host).layers = [f.layers EXCEPT ![l] = host[Pointer(l)]]
         /\ Flush(f, l, host).inited = f.inited
         /\ Flush(f, l, host).console = f.console
<1> DEFINE g == SetHigh(SetLow(f, Pointer(l).low), Pointer(l).high)
<1>1. SetLow(f, Pointer(l).low) \in FbState
  BY DEF SetLow, FbState, Pointer
<1>2. /\ g.write_addr /\ g.inited = f.inited /\ g.layers = f.layers
      /\ g.console = f.console /\ g.addr = Pointer(l) /\ g \in FbState
  BY <1>1 DEF SetHigh, SetLow, FbState, Pointer
<1>3. Flush(f, l, host) =
        [g EXCEPT !.layers[l] = host[Pointer(l)], !.write_addr = FALSE]
  BY <1>2 DEF Flush, TakeLayer
<1> HIDE DEF g
<1> QED
  BY <1>2, <1>3 DEF FbState

(* The layers a flip finds switched on.                                     *)
On(l) == IF l = "bg" THEN mask.bg ELSE mask.spr

(* fce_update_screen puts exactly the buffers of the layers that are on     *)
(* before the player, unless the flip is the first.                         *)
LEMMA UpdateShows ==
  ASSUME FrameInv, NEW bufs \in [Layer -> PixelBuf], NEW backdrop \in Backdrops,
         UpdateScreen(bufs, backdrop)
  PROVE  /\ fb'.inited
         /\ fb'.console.layers =
              IF fb.inited
              THEN [l \in Layer |-> IF On(l) THEN bufs[l].lines ELSE {}]
              ELSE fb.console.layers
<1> DEFINE host == [p \in {Pointer(l) : l \in Layer} |-> bufs[p.low]]
           f1 == SetBackdrop(fb, backdrop)
           f2 == IF mask.spr THEN Flush(f1, "bbg", host) ELSE f1
           f3 == IF mask.bg THEN Flush(f2, "bg", host) ELSE f2
           f4 == IF mask.spr THEN Flush(f3, "fg", host) ELSE f3
           Given(f, ls) ==
             /\ f \in FbState /\ f.inited = fb.inited
             /\ f.console.layers = fb.console.layers
             /\ f.layers = [l \in Layer |->
                              IF l \in ls /\ On(l) THEN bufs[l] ELSE Empty]
<1>1. /\ host \in [{Pointer(l) : l \in Layer} -> PixelBuf]
      /\ \A l \in Layer : host[Pointer(l)] = bufs[l]
  <2>1. \A l \in Layer : Pointer(l).low = l
    BY DEF Pointer
  <2> QED
    BY <2>1
<1>2. /\ backdrop \in Nat /\ fb \in FbState
      /\ fb.layers = [l \in Layer |-> Empty]
  <2>1. backdrop \in Nat /\ fb \in FbState
    BY FrameAssumption DEF FrameInv, TypeOK
  <2>2. fb.layers \in [Layer -> PixelBuf] /\ \A l \in Layer : fb.layers[l] = Empty
    BY <2>1 DEF FrameInv, NoStaleLines, FbState
  <2> QED
    BY <2>1, <2>2
<1>3. Given(f1, {})
  <2>1. f1 \in FbState
    BY <1>2, BackdropType
  <2>2. f1.inited = fb.inited /\ f1.console = fb.console /\ f1.layers = fb.layers
    BY <1>2 DEF SetBackdrop, FbState
  <2> HIDE DEF f1
  <2> QED
    BY <1>2, <2>1, <2>2
<1>4. ASSUME NEW f, NEW ls, Given(f, ls), NEW l \in Layer, On(l)
      PROVE  Given(Flush(f, l, host), ls \cup {l})
  <2> DEFINE g == Flush(f, l, host)
  <2>1. /\ f \in FbState /\ f.inited = fb.inited
        /\ f.console.layers = fb.console.layers
        /\ f.layers = [k \in Layer |-> IF k \in ls /\ On(k) THEN bufs[k] ELSE Empty]
    BY <1>4
  <2>2. host[Pointer(l)] = bufs[l]
    BY <1>1
  <2> HIDE DEF host
  <2>3. g \in FbState
    BY <1>1, <2>1, FlushType
  <2>4. /\ g.layers = [f.layers EXCEPT ![l] = host[Pointer(l)]]
        /\ g.inited = f.inited /\ g.console = f.console
    BY <1>1, <2>1, FlushLayer
  <2> HIDE DEF g
  <2>5. g.layers = [k \in Layer |-> IF k \in ls \cup {l} /\ On(k) THEN bufs[k]
                                                              ELSE Empty]
    BY <1>4, <2>1, <2>2, <2>4
  <2>6. Given(g, ls \cup {l})
    BY <2>1, <2>3, <2>4, <2>5
  <2> QED
    BY <2>6 DEF g
<1>5. ASSUME NEW f, NEW ls, Given(f, ls), NEW l \in Layer, ~On(l)
      PROVE  Given(f, ls \cup {l})
  BY <1>5
<1> HIDE DEF host, Given, f1
<1>6. Given(f2, {"bbg"})
  <2>1. "bbg" \in Layer /\ On("bbg") = mask.spr
    BY DEF Layer, On
  <2> QED
    BY <1>3, <1>4, <1>5, <2>1, {} \cup {"bbg"} = {"bbg"} DEF f2
<1> HIDE DEF f2
<1>7. Given(f3, {"bbg", "bg"})
  <2>1. "bg" \in Layer /\ On("bg") = mask.bg
    BY DEF Layer, On
  <2> QED
    BY <1>4, <1>5, <1>6, <2>1, {"bbg"} \cup {"bg"} = {"bbg", "bg"} DEF f3
<1> HIDE DEF f3
<1>8. Given(f4, {"bbg", "bg", "fg"})
  <2>1. "fg" \in Layer /\ On("fg") = mask.spr
    BY DEF Layer, On
  <2> QED
    BY <1>4, <1>5, <1>7, <2>1,
       {"bbg", "bg"} \cup {"fg"} = {"bbg", "bg", "fg"} DEF f4
<1>9. fb' = Flip(f4)
  BY DEF UpdateScreen, f1, f2, f3, host
<1> HIDE DEF f4
<1>10. /\ fb'.inited
       /\ fb'.console.layers = IF f4.inited
                               THEN [l \in Layer |-> f4.layers[l].lines]
                               ELSE f4.console.layers
  BY <1>8, <1>9 DEF Flip, FbState, Given
<1>11. [l \in Layer |-> f4.layers[l].lines]
         = [l \in Layer |-> IF On(l) THEN bufs[l].lines ELSE {}]
  BY <1>8 DEF Given, Layer, Empty
<1> QED
  BY <1>8, <1>10, <1>11 DEF Given

-----------------------------------------------------------------------------
(* The inductive invariant of the histories: the scanlines painted are      *)
(* those of the buffers, and a flag that has risen has used up the frame's  *)
(* hit, even when the program has read it away since.                       *)

Painted == painted = [l \in Layer |-> buffers[l].lines]

HitUsed == rises \in Nat /\ (rises > 0 => ppu_sprite_hit_occured)

PictureInv ==
  /\ FrameInv
  /\ Painted /\ ShowsPicture
  /\ ~fb.inited => picture = Blank
  /\ HitUsed

LEMMA PaintedIsDrawn ==
  ASSUME PictureInv, NEW w \in BgWidths, NEW px \in SpritePixels
  PROVE  LET line == scanline + 1
         IN  NowPainted(line, w, px)
               = [l \in Layer |-> Drawn(line, w, px)[l].lines]
<1> DEFINE line == scanline + 1
<1>1. /\ w \in Nat /\ px.bbg \in Nat /\ px.fg \in Nat
      /\ line \in Int /\ Height \in Int
  BY FrameAssumption DEF PictureInv, FrameInv, TypeOK
<1>2. line < Height - 1 <=> line + 1 < Height
  BY <1>1
<1>3. ASSUME NEW b, NEW n \in Nat
      PROVE  Add(b, line, n).lines = b.lines \cup (IF n > 0 THEN {line} ELSE {})
  BY DEF Add
<1>4. /\ painted["bg"] = buffers["bg"].lines
      /\ painted["bbg"] = buffers["bbg"].lines
      /\ painted["fg"] = buffers["fg"].lines
  BY DEF PictureInv, Painted, Layer
<1> HIDE DEF line
<1>5. Drawn(line, w, px)["bg"].lines = NowPainted(line, w, px)["bg"]
  BY <1>1, <1>2, <1>3, <1>4 DEF Drawn, NowPainted, Layer
<1>6. Drawn(line, w, px)["bbg"].lines = NowPainted(line, w, px)["bbg"]
  BY <1>1, <1>3, <1>4 DEF Drawn, NowPainted, Layer
<1>7. Drawn(line, w, px)["fg"].lines = NowPainted(line, w, px)["fg"]
  BY <1>1, <1>3, <1>4 DEF Drawn, NowPainted, Layer
<1>8. NowPainted(line, w, px) = [l \in Layer |-> NowPainted(line, w, px)[l]]
  BY DEF NowPainted, Layer
<1> QED
  BY <1>5, <1>6, <1>7, <1>8 DEF line, Layer

(* A call of ppu_cycle that does not end the frame.                         *)
LEMMA PictureDraws ==
  ASSUME PictureInv, NEW w \in BgWidths, NEW px \in SpritePixels,
         NEW match \in Matches,
         DrawLine(w, px, match) \/ StartVblank(w, px, match),
         painted' = NowPainted(scanline + 1, w, px),
         rises' = IF Rose THEN rises + 1 ELSE rises,
         UNCHANGED picture
  PROVE  PictureInv' /\ (Rose => rises = 0)
<1>1. FrameInv'
  BY DrawLineKeeps, StartVblankKeeps DEF PictureInv
<1>2. /\ buffers' = Drawn(scanline + 1, w, px) /\ fb' = fb
      /\ sprite_0_hit' => sprite_0_hit \/ Hits(match)
      /\ ppu_sprite_hit_occured \/ Hits(match) => ppu_sprite_hit_occured'
  BY DEF DrawLine, StartVblank
<1>3. Painted'
  BY <1>2, PaintedIsDrawn DEF Painted
<1>4. ShowsPicture' /\ (~fb'.inited => picture' = Blank)
  BY <1>2 DEF PictureInv, ShowsPicture
<1>5. Rose => ~ppu_sprite_hit_occured /\ ppu_sprite_hit_occured'
  BY <1>2 DEF Rose, Hits
<1>6. Rose => rises = 0
  BY <1>5 DEF PictureInv, HitUsed
<1>7. HitUsed'
  <2>1. rises' \in Nat /\ (rises' > 0 => Rose \/ rises > 0)
    BY DEF PictureInv, HitUsed
  <2> QED
    BY <1>2, <1>5, <2>1 DEF PictureInv, HitUsed
<1>8. (~fb.inited => picture = Blank)'
  BY <1>4 DEF Blank
<1> QED
  BY <1>1, <1>3, <1>4, <1>6, <1>7, <1>8 DEF PictureInv

(* The call that ends the frame.                                            *)
LEMMA PictureFlips ==
  ASSUME PictureInv, NEW w \in BgWidths, NEW px \in SpritePixels,
         NEW match \in Matches, NEW backdrop \in Backdrops,
         EndFrame(w, px, match, backdrop),
         picture' = LET now == NowPainted(LastLine, w, px)
                    IN  IF ~fb.inited THEN Blank
                        ELSE [bg  |-> IF mask.bg THEN now.bg ELSE {},
                              bbg |-> IF mask.spr THEN now.bbg ELSE {},
                              fg  |-> IF mask.spr THEN now.fg ELSE {}],
         painted' = Blank, rises' = 0
  PROVE  PictureInv' /\ (Rose => rises = 0)
<1> DEFINE bufs == Drawn(scanline + 1, w, px)
           now == NowPainted(LastLine, w, px)
<1>1. FrameInv'
  BY EndFrameKeeps DEF PictureInv
<1>2. /\ UpdateScreen(bufs, backdrop) /\ scanline + 1 = LastLine
      /\ sprite_0_hit' => sprite_0_hit \/ Hits(match)
  BY DEF EndFrame
<1>3. bufs \in [Layer -> PixelBuf]
  BY DrawFits DEF PictureInv
<1>4. now = [l \in Layer |-> bufs[l].lines]
  BY <1>2, PaintedIsDrawn
<1>5. /\ buffers' = [l \in Layer |-> Empty]
      /\ fb'.inited
      /\ fb'.console.layers =
           IF fb.inited
           THEN [l \in Layer |-> IF On(l) THEN bufs[l].lines ELSE {}]
           ELSE fb.console.layers
  <2> HIDE DEF bufs
  <2> QED
    BY <1>2, <1>3, UpdateShows, UpdateScreenType DEF PictureInv, FrameInv
<1>6. Painted'
  BY <1>5 DEF Painted, Blank, Empty
<1>7. ShowsPicture'
  <2> HIDE DEF bufs, now
  <2>1. CASE ~fb.inited
    BY <2>1, <1>5 DEF PictureInv, ShowsPicture
  <2>2. CASE fb.inited
    <3>1. picture' = [bg  |-> IF mask.bg THEN now.bg ELSE {},
                      bbg |-> IF mask.spr THEN now.bbg ELSE {},
                      fg  |-> IF mask.spr THEN now.fg ELSE {}]
      BY <2>2 DEF now
    <3>2. picture' = [l \in Layer |-> IF On(l) THEN bufs[l].lines ELSE {}]
      BY <3>1, <1>4 DEF Layer, On
    <3> QED
      BY <2>2, <3>2, <1>5 DEF ShowsPicture
  <2> QED
    BY <2>1, <2>2
<1>8. Rose => rises = 0
  BY <1>2 DEF Rose, Hits, PictureInv, HitUsed
<1>9. HitUsed' /\ (~fb.inited => picture = Blank)'
  BY <1>5 DEF HitUsed
<1> QED
  BY <1>1, <1>6, <1>7, <1>8, <1>9 DEF PictureInv

(* The program and the interrupt.                                           *)
LEMMA PictureStays ==
  ASSUME PictureInv, Program \/ TakeNmi \/ UNCHANGED vars,
         UNCHANGED <<painted, picture, rises>>
  PROVE  PictureInv' /\ ~Rose
<1>1. FrameInv'
  BY OthersKeep DEF PictureInv
<1>2. /\ UNCHANGED <<buffers, fb, ppu_sprite_hit_occured>>
      /\ sprite_0_hit' => sprite_0_hit
  BY DEF Program, WriteCtrl, WriteMask, ReadStatus, TakeNmi, vars, status
<1>3. Painted' /\ HitUsed' /\ ShowsPicture' /\ (~fb.inited => picture = Blank)'
  BY <1>2 DEF PictureInv, Painted, HitUsed, ShowsPicture, Blank
<1> QED
  BY <1>1, <1>2, <1>3 DEF PictureInv, Rose

LEMMA PictureStep ==
  ASSUME PictureInv, [HNext]_historyVars
  PROVE  PictureInv' /\ (Rose => rises = 0)
<1>1. CASE HCycle
  BY <1>1, PictureDraws, PictureFlips DEF HCycle
<1>2. CASE (Program \/ TakeNmi) /\ UNCHANGED <<painted, picture, rises>>
  BY <1>2, PictureStays
<1>3. CASE UNCHANGED historyVars
  BY <1>3, PictureStays DEF historyVars
<1> QED
  BY <1>1, <1>2, <1>3 DEF HNext

LEMMA PictureInvariant == HSpec => []PictureInv
<1>1. HInit => PictureInv
  <2> SUFFICES ASSUME HInit PROVE PictureInv
    OBVIOUS
  <2>1. FrameInv
    BY FrameInit DEF HInit
  <2>2. Painted
    BY DEF HInit, Init, Painted, Blank, Empty
  <2>3. ShowsPicture /\ HitUsed
    <3>1. FbInit.console = [colour |-> 15, layers |-> Blank]
      BY DEF FbInit, Blank
    <3>2. fb.console.layers = Blank /\ picture = Blank /\ rises = 0
      BY <3>1 DEF HInit, Init
    <3> QED
      BY <3>2 DEF ShowsPicture, HitUsed
  <2> QED
    BY <2>1, <2>2, <2>3 DEF PictureInv, HInit
<1>2. PictureInv /\ [HNext]_historyVars => PictureInv'
  BY PictureStep
<1> QED
  BY <1>1, <1>2, PTL DEF HSpec

(* Whatever the program switches on and off, and whenever, the console      *)
(* shows exactly the scanlines drawn before the flip, in each layer that    *)
(* the flip found on: nothing is lost, doubled or put in another layer      *)
(* between ppu_cycle and the console.                                       *)
THEOREM ConsoleShows == HSpec => []ShowsPicture
<1>1. PictureInv => ShowsPicture
  BY DEF PictureInv
<1> QED
  BY <1>1, PictureInvariant, PTL

(* However often the program reads $2002, the sprite-0 flag rises once      *)
(* between two ends of frame at most.                                       *)
THEOREM HitOnce == HSpec => OneHitPerFrame
<1>1. PictureInv /\ [HNext]_historyVars => [Rose => rises = 0]_historyVars
  BY PictureStep
<1> QED
  BY <1>1, PictureInvariant, PTL DEF HSpec, OneHitPerFrame

=============================================================================
