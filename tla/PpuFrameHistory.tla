--------------------------- MODULE PpuFrameHistory ---------------------------
(***************************************************************************)
(* PpuFrame with history variables: what each layer should show, kept      *)
(* apart from the buffers, and the times the sprite-0 flag rose.           *)
(***************************************************************************)
EXTENDS PpuFrame

VARIABLES
  painted,     (* per layer, the scanlines drawn since the last flip        *)
  picture,     (* what the last flip should have put on the console         *)
  rises        (* rises of the sprite-0 flag since the last flip            *)

historyVars == <<vars, painted, picture, rises>>

Blank == [l \in Layer |-> {}]

HInit ==
  /\ Init
  /\ painted = Blank
  /\ picture = Blank
  /\ rises = 0

(* The scanlines of each layer once a call of ppu_cycle has drawn its own.  *)
NowPainted(line, w, px) ==
  LET new(n, shown) == IF shown /\ n > 0 THEN {line} ELSE {}
  IN  [bg  |-> painted["bg"] \cup new(w, mask.bg /\ line < Height - 1),
       bbg |-> painted["bbg"] \cup new(px.bbg, mask.spr),
       fg  |-> painted["fg"] \cup new(px.fg, mask.spr)]

Rose == ~sprite_0_hit /\ sprite_0_hit'

HCycle ==
  \E w \in BgWidths, px \in SpritePixels, match \in Matches :
    \/ /\ DrawLine(w, px, match) \/ StartVblank(w, px, match)
       /\ painted' = NowPainted(scanline + 1, w, px)
       /\ rises' = IF Rose THEN rises + 1 ELSE rises
       /\ UNCHANGED picture
    \/ /\ \E backdrop \in Backdrops : EndFrame(w, px, match, backdrop)
       /\ picture' =
            LET now == NowPainted(LastLine, w, px)
            IN  IF ~fb.inited THEN Blank
                ELSE [bg  |-> IF mask.bg THEN now.bg ELSE {},
                      bbg |-> IF mask.spr THEN now.bbg ELSE {},
                      fg  |-> IF mask.spr THEN now.fg ELSE {}]
       /\ painted' = Blank
       /\ rises' = 0

HNext ==
  \/ HCycle
  \/ (Program \/ TakeNmi) /\ UNCHANGED <<painted, picture, rises>>

HSpec == HInit /\ [][HNext]_historyVars

-----------------------------------------------------------------------------
(* The console shows exactly the scanlines drawn since the flip before the  *)
(* last one, in each layer that was switched on at the last flip, and       *)
(* nothing in the others; the very first frame is lost to the console's     *)
(* initialisation.  Six writes of nes_flush_buf and two cleanings, one on   *)
(* each side, stand between the drawing and the console.                    *)
ShowsPicture == fb.console.layers = picture

(* A program that polls $2002 sees at most one hit of sprite 0 between two  *)
(* ends of frame, however often it reads it: the flag never rises again,    *)
(* not even on the scanline that ends the frame.                            *)
OneHitPerFrame == [][Rose => rises = 0]_historyVars

=============================================================================
