-------------------------------- MODULE NesFb --------------------------------
(***************************************************************************)
(* The framebuffer device of nesfb.c: its registers as functions on the    *)
(* device's state, and its display.  The PPU hands over a pixel buffer by  *)
(* writing the two halves of its address and then naming the layer it      *)
(* belongs to; it shows the three layers with a write to the flip          *)
(* register.  A pixel buffer is its size and the scanlines it has pixels   *)
(* of; pixels past the size do not count, so cleaning sets it to Empty.    *)
(***************************************************************************)
EXTENDS Naturals

CONSTANT NumColours   (* entries of the palette table: 64                  *)

ASSUME ColourAssumption == NumColours \in Nat \ {0}

Layer == {"bbg", "bg", "fg"}

PixelBuf == [size : Nat, lines : SUBSET Nat]

Empty == [size |-> 0, lines |-> {}]

(* The host address of the PPU's buffer for a layer, as nes_flush_buf       *)
(* splits it.                                                               *)
Pointer(layer) == [low |-> layer, high |-> 1]
NoPointer == [low |-> "none", high |-> 0]

(* The device: the colour behind everything, the halves of the pointer, the *)
(* layers handed over, whether the first flip is past, and the console.     *)
FbInit ==
  [colour |-> 15, buf_addr |-> NoPointer.low, addr |-> NoPointer,
   write_addr |-> FALSE, layers |-> [l \in Layer |-> Empty],
   inited |-> FALSE, console |-> [colour |-> 15, layers |-> [l \in Layer |-> {}]]]

FbState ==
  [colour : Nat,
   buf_addr : {Pointer(l).low : l \in Layer} \cup {NoPointer.low},
   addr : [low : {Pointer(l).low : l \in Layer} \cup {NoPointer.low}, high : {0, 1}],
   write_addr : BOOLEAN,
   layers : [Layer -> PixelBuf],
   inited : BOOLEAN,
   console : [colour : Nat, layers : [Layer -> SUBSET Nat]]]

-----------------------------------------------------------------------------
(* nesfb_write, one function per register                                   *)

SetBackdrop(fb, v) ==
  [fb EXCEPT !.colour = IF v >= NumColours THEN NumColours - 1 ELSE v]

SetLow(fb, v) == [fb EXCEPT !.buf_addr = v]

SetHigh(fb, v) ==
  [fb EXCEPT !.addr = [low |-> fb.buf_addr, high |-> v], !.write_addr = TRUE]

(* host[p] is the pixel buffer at host address p; it is copied only for a   *)
(* pointer no layer has used yet.                                           *)
TakeLayer(fb, layer, host) ==
  IF fb.write_addr
  THEN [fb EXCEPT !.layers[layer] = host[fb.addr], !.write_addr = FALSE]
  ELSE fb

(* Slip: a layer stays until another takes its place.                       *)
FlipKeepsLayers(fb) ==
  [fb EXCEPT !.console =
               IF fb.inited
               THEN [colour |-> fb.colour,
                     layers |-> [l \in Layer |-> fb.layers[l].lines]]
               ELSE @,
             !.inited = TRUE]

(* The first flip only paints the console's blank surface; each one drops   *)
(* the layers it was handed.                                                *)
Flip(fb) ==
  [fb EXCEPT !.console =
               IF fb.inited
               THEN [colour |-> fb.colour,
                     layers |-> [l \in Layer |-> fb.layers[l].lines]]
               ELSE @,
             !.inited = TRUE,
             !.layers = [l \in Layer |-> Empty]]

-----------------------------------------------------------------------------
(* nes_flush_buf of nesppu.c: the three writes that hand one layer over.    *)
Flush(fb, layer, host) ==
  TakeLayer(SetHigh(SetLow(fb, Pointer(layer).low), Pointer(layer).high),
            layer, host)

=============================================================================
