-------------------------------- MODULE Machine --------------------------------
(***************************************************************************)
(* The processor and the picture unit: the scanline timer's interrupt on   *)
(* its way from ppu_cycle through next_irq to the handler, past the        *)
(* translation blocks, and the program's accesses to $2000, $2001 and $2002*)
(* from inside them.                                                       *)
(***************************************************************************)
EXTENDS Blocks6502

CONSTANTS
  NumColours, Height, VBlankLine, LastLine, Width,
  BgWidths, SpritePixels, Matches, Backdrops, CtrlValues, MaskValues

VARIABLES
  ready, scanline, generates_nmi, mask, in_vblank, sprite_0_hit,
  ppu_sprite_hit_occured, buffers, fb

Ppu == INSTANCE PpuFrame

ppuVars == <<ready, scanline, generates_nmi, mask, in_vblank, sprite_0_hit,
             ppu_sprite_hit_occured, buffers, fb>>
machineVars == <<vars, ppuVars>>

MachineInit == Init /\ Ppu!Init

-----------------------------------------------------------------------------
(* Slip: the start of vertical blank returns before the timer is re-armed.  *)
LineUntilVblank ==
  /\ where # "stopped" /\ scanline < VBlankLine
  /\ Ppu!Cycle
  /\ nmi' # nmi => Len(stack) < MaxDepth
  /\ UNCHANGED <<pc_w, where, first, at, stack>>

(* ppu_cycle on the main thread, its interrupt through next_irq; the timer's*)
(* clock stands still when the machine has stopped.  Bound: no interrupt is *)
(* requested under MaxDepth words.                                          *)
Line ==
  /\ where # "stopped"
  /\ Ppu!Cycle
  /\ nmi' # nmi => Len(stack) < MaxDepth
  /\ UNCHANGED <<pc_w, where, first, at, stack>>

(* An instruction may make an access to the picture unit's registers.       *)
Instruct ==
  /\ RunInstruction
  /\ \/ UNCHANGED ppuVars
     \/ Text[at].kind = "plain" /\ Ppu!Program

Interrupt == TakeNmi /\ Ppu!TakeNmi

BetweenBlocks ==
  /\ FindBlock \/ EnterBlock \/ LeaveBlock \/ TooMany
  /\ UNCHANGED ppuVars

Thread == Instruct \/ Interrupt \/ BetweenBlocks

MachineNext == Line \/ Thread

(* The timer re-arms itself and the CPU's thread runs on: nothing is said of*)
(* when it looks for the interrupt.                                         *)
MachineSpec ==
  /\ MachineInit /\ [][MachineNext]_machineVars
  /\ WF_machineVars(Line) /\ WF_machineVars(Thread)

-----------------------------------------------------------------------------
(* A program that leaves the interrupt enabled is interrupted again and     *)
(* again though it may wait in a loop of one block that jumps to itself,    *)
(* unless it runs into an opcode that is none.                              *)
NmiKeepsComing == <>(where = "stopped") \/ Ppu!NmiKeepsComing

=============================================================================
