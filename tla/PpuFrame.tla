------------------------------- MODULE PpuFrame -------------------------------
(***************************************************************************)
(* The PPU's frame: the scanline timer ppu_cycle of nesppu.c, the pixel    *)
(* buffers it fills, the status bits and the interrupt it raises, and the  *)
(* framebuffer it drives at the end of each frame.  The timer's handler    *)
(* runs under QEMU's global lock, so it is one step; between two of them   *)
(* the program may write $2000 and $2001, read $2002 and take the          *)
(* interrupt.                                                              *)
(***************************************************************************)
EXTENDS Integers, NesFb

CONSTANTS
  Height,        (* visible rows: 240                                       *)
  VBlankLine,    (* the scanline that starts vertical blank: 241            *)
  LastLine,      (* the scanline that ends the frame: 262                   *)
  Width,         (* pixels of a row: 256                                    *)
  BgWidths,      (* how many opaque background pixels a scanline can have   *)
  SpritePixels,  (* [bbg, fg]: pixels the sprites of a scanline can have    *)
  Matches,       (* can sprite 0 meet the background on a scanline?         *)
  Backdrops,     (* bytes the program can leave at $3F00                    *)
  CtrlValues,    (* what the program writes to PPUCTRL bit 7                *)
  MaskValues     (* [bg, spr]: what it writes to PPUMASK bits 3 and 4       *)

ASSUME FrameAssumption ==
  /\ Height \in Nat \ {0} /\ VBlankLine \in Nat /\ LastLine \in Nat
  /\ Height <= VBlankLine /\ VBlankLine < LastLine
  /\ Width \in Nat
  /\ BgWidths \subseteq 0 .. Width
  /\ SpritePixels \subseteq [bbg : Nat, fg : Nat]
  /\ Matches \subseteq BOOLEAN
  /\ Backdrops \subseteq Nat
  /\ CtrlValues \subseteq BOOLEAN
  /\ MaskValues \subseteq [bg : BOOLEAN, spr : BOOLEAN]

VARIABLES
  ready,                   (* $2000 and $2001 are writable                  *)
  scanline,
  generates_nmi,           (* PPUCTRL bit 7                                 *)
  mask,                    (* PPUMASK bits 3 and 4                          *)
  in_vblank,               (* PPUSTATUS bit 7                               *)
  sprite_0_hit,            (* PPUSTATUS bit 6                               *)
  ppu_sprite_hit_occured,
  buffers,                 (* the PPU's pixel buffers                       *)
  fb,                      (* the framebuffer device                        *)
  nmi                      (* the CPU's pending CPU_INTERRUPT_NMI           *)

status == <<in_vblank, sprite_0_hit>>
vars == <<ready, scanline, generates_nmi, mask, status,
          ppu_sprite_hit_occured, buffers, fb, nmi>>

TypeOK ==
  /\ ready \in BOOLEAN
  /\ scanline \in -1 .. LastLine - 1
  /\ generates_nmi \in BOOLEAN
  /\ mask \in [bg : BOOLEAN, spr : BOOLEAN]
  /\ in_vblank \in BOOLEAN /\ sprite_0_hit \in BOOLEAN
  /\ ppu_sprite_hit_occured \in BOOLEAN
  /\ buffers \in [Layer -> PixelBuf]
  /\ fb \in FbState
  /\ nmi \in BOOLEAN

(* ppu_realize leaves vertical blank set and the scanline at 0, so the      *)
(* first frame has no scanline 0.                                           *)
Init ==
  /\ ready = FALSE
  /\ scanline = 0
  /\ generates_nmi = FALSE
  /\ mask = [bg |-> FALSE, spr |-> FALSE]
  /\ in_vblank = TRUE
  /\ sprite_0_hit = FALSE
  /\ ppu_sprite_hit_occured = FALSE
  /\ buffers = [l \in Layer |-> Empty]
  /\ fb = FbInit
  /\ nmi = FALSE

-----------------------------------------------------------------------------
(* What one call of ppu_cycle draws.                                        *)

(* pixbuf_add, for n pixels of a scanline.                                  *)
Add(buf, line, n) ==
  IF n = 0 THEN buf
  ELSE [size |-> buf.size + n, lines |-> buf.lines \cup {line}]

(* Slip: the row one below the last visible one is drawn too.               *)
DrawnToEdge(line, w, px) ==
  [l \in Layer |->
     Add(buffers[l], line,
         CASE l = "bg" /\ mask.bg /\ line < Height -> w
           [] l # "bg" /\ mask.spr -> px[l]
           [] OTHER -> 0)]

(* Both passes over the background put its row one below the scanline, and  *)
(* drop the rows past the screen; sprite rows depend on the sprite's own y, *)
(* so any scanline may draw some.                                           *)
Drawn(line, w, px) ==
  [l \in Layer |->
     Add(buffers[l], line,
         CASE l = "bg" /\ mask.bg /\ line + 1 < Height -> w
           [] l # "bg" /\ mask.spr -> px[l]
           [] OTHER -> 0)]

(* Sprite 0 hits where one of its opaque pixels has the colour last drawn   *)
(* there by the background (match), once until the frame ends.              *)
Hits(match) == mask.spr /\ mask.bg /\ ~ppu_sprite_hit_occured /\ match

(* Slip: the sprites in front are not cleaned.                              *)
UpdateScreenKeepsFg(bufs, backdrop) ==
  LET host == [p \in {Pointer(l) : l \in Layer} |-> bufs[p.low]]
      f1 == SetBackdrop(fb, backdrop)
      f2 == IF mask.spr THEN Flush(f1, "bbg", host) ELSE f1
      f3 == IF mask.bg THEN Flush(f2, "bg", host) ELSE f2
      f4 == IF mask.spr THEN Flush(f3, "fg", host) ELSE f3
  IN  /\ fb' = Flip(f4)
      /\ buffers' = [l \in Layer |-> IF l = "fg" THEN bufs[l] ELSE Empty]

(* fce_update_screen: the sprites' layers and the background's are handed   *)
(* over only if they are shown now, and all three buffers are cleaned.      *)
UpdateScreen(bufs, backdrop) ==
  LET host == [p \in {Pointer(l) : l \in Layer} |-> bufs[p.low]]
      f1 == SetBackdrop(fb, backdrop)
      f2 == IF mask.spr THEN Flush(f1, "bbg", host) ELSE f1
      f3 == IF mask.bg THEN Flush(f2, "bg", host) ELSE f2
      f4 == IF mask.spr THEN Flush(f3, "fg", host) ELSE f3
  IN  /\ fb' = Flip(f4)
      /\ buffers' = [l \in Layer |-> Empty]

-----------------------------------------------------------------------------
(* ppu_cycle, by the scanline it draws                                      *)

DrawLine(w, px, match) ==
  LET line == scanline + 1
  IN  /\ line \notin {VBlankLine, LastLine}
      /\ scanline' = line
      /\ buffers' = Drawn(line, w, px)
      /\ ppu_sprite_hit_occured' = (ppu_sprite_hit_occured \/ Hits(match))
      /\ sprite_0_hit' = (sprite_0_hit \/ Hits(match))
      /\ ready' = TRUE
      /\ UNCHANGED <<generates_nmi, mask, in_vblank, fb, nmi>>

(* Slip: vertical blank re-arms the sprite-0 hit.                           *)
StartVblankRearms(w, px, match) ==
  LET line == scanline + 1
  IN  /\ line = VBlankLine
      /\ scanline' = line
      /\ buffers' = Drawn(line, w, px)
      /\ ppu_sprite_hit_occured' = FALSE
      /\ in_vblank' = TRUE
      /\ sprite_0_hit' = FALSE
      /\ nmi' = (nmi \/ generates_nmi)
      /\ ready' = TRUE
      /\ UNCHANGED <<generates_nmi, mask, fb>>

(* Slip: the flag is left as ppu_realize set it.                            *)
StartVblankUnseen(w, px, match) ==
  LET line == scanline + 1
  IN  /\ line = VBlankLine
      /\ scanline' = line
      /\ buffers' = Drawn(line, w, px)
      /\ ppu_sprite_hit_occured' = (ppu_sprite_hit_occured \/ Hits(match))
      /\ sprite_0_hit' = FALSE
      /\ nmi' = (nmi \/ generates_nmi)
      /\ ready' = TRUE
      /\ UNCHANGED <<generates_nmi, mask, in_vblank, fb>>

StartVblank(w, px, match) ==
  LET line == scanline + 1
  IN  /\ line = VBlankLine
      /\ scanline' = line
      /\ buffers' = Drawn(line, w, px)
      /\ ppu_sprite_hit_occured' = (ppu_sprite_hit_occured \/ Hits(match))
      /\ in_vblank' = TRUE
      /\ sprite_0_hit' = FALSE
      /\ nmi' = (nmi \/ generates_nmi)
      /\ ready' = TRUE
      /\ UNCHANGED <<generates_nmi, mask, fb>>

(* Slip: the frame ends without restarting the count.                       *)
EndFrameGoesOn(w, px, match, backdrop) ==
  LET line == scanline + 1
  IN  /\ line = LastLine
      /\ scanline' = line
      /\ UpdateScreen(Drawn(line, w, px), backdrop)
      /\ sprite_0_hit' = (sprite_0_hit \/ Hits(match))
      /\ ppu_sprite_hit_occured' = FALSE
      /\ in_vblank' = FALSE
      /\ ready' = TRUE
      /\ UNCHANGED <<generates_nmi, mask, nmi>>

(* Slip: the frame ends in vertical blank.                                  *)
EndFrameInVblank(w, px, match, backdrop) ==
  LET line == scanline + 1
  IN  /\ line = LastLine
      /\ scanline' = -1
      /\ UpdateScreen(Drawn(line, w, px), backdrop)
      /\ sprite_0_hit' = (sprite_0_hit \/ Hits(match))
      /\ ppu_sprite_hit_occured' = FALSE
      /\ ready' = TRUE
      /\ UNCHANGED <<generates_nmi, mask, in_vblank, nmi>>

EndFrame(w, px, match, backdrop) ==
  LET line == scanline + 1
  IN  /\ line = LastLine
      /\ scanline' = -1
      /\ UpdateScreen(Drawn(line, w, px), backdrop)
      /\ sprite_0_hit' = (sprite_0_hit \/ Hits(match))
      /\ ppu_sprite_hit_occured' = FALSE
      /\ in_vblank' = FALSE
      /\ ready' = TRUE
      /\ UNCHANGED <<generates_nmi, mask, nmi>>

Cycle ==
  \E w \in BgWidths, px \in SpritePixels, match \in Matches :
    \/ DrawLine(w, px, match)
    \/ StartVblank(w, px, match)
    \/ \E backdrop \in Backdrops : EndFrame(w, px, match, backdrop)

-----------------------------------------------------------------------------
(* The program, between two calls                                           *)

WriteCtrl(b) ==
  /\ ready
  /\ generates_nmi' = b
  /\ UNCHANGED <<ready, scanline, mask, status, ppu_sprite_hit_occured,
                 buffers, fb, nmi>>

WriteMask(m) ==
  /\ ready
  /\ mask' = m
  /\ UNCHANGED <<ready, scanline, generates_nmi, status,
                 ppu_sprite_hit_occured, buffers, fb, nmi>>

(* Slip: the flag of vertical blank survives the read of $2002.             *)
ReadStatusKeepsFlag ==
  /\ sprite_0_hit' = FALSE
  /\ UNCHANGED <<ready, scanline, generates_nmi, mask, in_vblank,
                 ppu_sprite_hit_occured, buffers, fb, nmi>>

ReadStatus ==
  /\ in_vblank' = FALSE
  /\ sprite_0_hit' = FALSE
  /\ UNCHANGED <<ready, scanline, generates_nmi, mask,
                 ppu_sprite_hit_occured, buffers, fb, nmi>>

(* The CPU looks for the interrupt between translation blocks; next_irq     *)
(* latches it whatever the level of the line, and the latch is one bit.     *)
TakeNmi ==
  /\ nmi
  /\ nmi' = FALSE
  /\ UNCHANGED <<ready, scanline, generates_nmi, mask, status,
                 ppu_sprite_hit_occured, buffers, fb>>

Program ==
  \/ \E b \in CtrlValues : WriteCtrl(b)
  \/ \E m \in MaskValues : WriteMask(m)
  \/ ReadStatus

Next == Cycle \/ Program \/ TakeNmi

Spec == Init /\ [][Next]_vars

-----------------------------------------------------------------------------
(* A pixel buffer never holds a scanline the current frame has not drawn,   *)
(* on the PPU's side or the framebuffer's: both sides clean theirs at the   *)
(* flip, so no picture shows a row of an earlier one.                       *)
NoStaleLines ==
  /\ \A l \in Layer : buffers[l].lines \subseteq 0 .. scanline
  /\ \A l \in Layer : fb.layers[l] = Empty

(* The background never asks for more pixels than the rows it can fill, so  *)
(* pixbuf_add, which has no bound of its own, stays within its buffer.      *)
BackgroundBounded == buffers["bg"].size <= Width * (Height - 1)

(* Vertical blank reads as set only between the scanline that starts it and *)
(* the end of the frame, and before the first frame ends, when ppu_realize  *)
(* has set it.                                                              *)
VblankWindow == in_vblank => scanline >= VBlankLine \/ ~fb.inited

(* Each pointer handed to the framebuffer is used by one layer: no half or  *)
(* whole pointer is left over for the next frame's first layer.             *)
HandshakeDone == ~fb.write_addr

(* A program that leaves the interrupt enabled is interrupted again and     *)
(* again: next_irq latches it and the CPU takes it.                         *)
NmiKeepsComing ==
  []<>~generates_nmi \/ (([]<>nmi) /\ ([]<>~nmi))

=============================================================================
