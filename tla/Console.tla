------------------------------- MODULE Console -------------------------------
(***************************************************************************)
(* The machine with a cartridge in it, from power on: the loader, and then *)
(* a game that lives by everything the devices offer.  It waits for two    *)
(* vertical blanks, switches the sprites and the interrupt on and idles;   *)
(* its handler copies the sprites, writes one cell of a nametable and      *)
(* polls the controller, whose button moves the world on.                  *)
(*                                                                         *)
(*  reset: TXS ; STA $2000 ; STA $2001          nmi: STA $4014             *)
(*  wait1: LDA $2002 ; BPL wait1                     LDA $2002             *)
(*  wait2: LDA $2002 ; BPL wait2                     STA $2006 ; STA $2006 *)
(*         STA $2001 ; STA $2000                     LDA world ; STA $2007 *)
(*  main:  JMP main                                  STA $4016 ; STA $4016 *)
(*                                                   LDA $4016 ; tally ; RTI *)
(*                                                                         *)
(* Every access goes over the bus of MemoryMap; the scanline timer, the    *)
(* keyboard and the reset button come between any two of them, and the     *)
(* interrupt between any two instructions, into its own handler too.       *)
(* Instructions that touch registers and RAM only are joined with the      *)
(* access before them.                                                     *)
(***************************************************************************)
EXTENDS BootLoader, FiniteSetsExt

Bus == INSTANCE MemoryMap

CONSTANTS
  Game,          (* the block that holds the game                           *)
  Height, VBlankLine, LastLine,                       (* as in PpuFrame     *)
  AddrSpace, Unit, PalBase, PalSize, PalGroup,        (* as in PpuMemory    *)
  PageSize, BigStep,                                  (* as in PpuPort      *)
  OamSize, RamPages,                                  (* as in SpriteMemory *)
  Lasting,                                            (* as in NesPad       *)
  SpritePage,    (* the page of RAM with the sprites                        *)
  Place,         (* the nametable's cell                                    *)
  MaxPresses,    (* bound                                                   *)
  Upsets         (* bounds: [handlers, resets, presses], the handlers under *)
                 (* way at a time, the resets and the presses of one        *)
                 (* behaviour                                               *)

ASSUME GameAssumption ==
  /\ Game \in Blocks /\ MaxPresses \in Nat
  /\ Upsets \subseteq
       [handlers : Nat \ {0}, resets : Nat, presses : 0 .. MaxPresses]
  /\ SpritePage \in 0 .. RamPages - 1
  /\ PageSize \in Nat \ {0} /\ PageSize % 16 = 0   (* a byte has the bits below *)
  /\ Unit \in Nat \ {0} /\ AddrSpace = 16 * Unit
  /\ PalBase \in Nat /\ PalBase >= 12 * Unit
  (* of the nametables, and not their last *)
  /\ Place \in Nat /\ Place >= 8 * Unit /\ Place + 1 < 12 * Unit
  /\ OamSize \in Nat \ {0} /\ RamPages \in Nat

VARIABLES
  ready, PPUADDR, ppu_addr_latch, addr_received_high_byte, ppu_2007_first_read,
  step, ppu_ram,
  scanline, generates_nmi, mask, in_vblank, sprite_0_hit,
  ppu_sprite_hit_occured, buffers, fb, nmi,
  ram, oam, OAMADDR,
  p, key, count, prev_write,
  pc,            (* the next instruction, by its label                      *)
  halfway,       (* its store has read and not written yet                  *)
  A,             (* the register, where the game keeps something in it      *)
  stack,         (* what the interrupts have pushed: [pc, A]                *)
  presses,
  left,          (* of its bounds                                           *)
  rows,          (* history: the sprite each line was last drawn with       *)
  shown, newest, (* history: the worlds on the screen, the latest ever      *)
  unsplit,       (* history: no other instructions have come in between     *)
                 (* since the handler's read of $2002                       *)
  counted        (* history: the world has moved on since the last press,   *)
                 (* or the game still takes it for the one before           *)

Port == INSTANCE PpuPort WITH
  ram <- ppu_ram, op_value <- 0, bus <- [reg |-> 15, data |-> 0],
  StoreData <- [reg \in {0, 2, 3, 6, 7, 8} |-> {}]
Frame == INSTANCE PpuFrame WITH
  NumColours <- 64, Width <- 1, BgWidths <- {0}, SpritePixels <- {},
  Matches <- {FALSE}, Backdrops <- {15}, CtrlValues <- {}, MaskValues <- {}
Sprites == INSTANCE SpriteMemory WITH
  Stored <- {}, Pages <- {SpritePage}, Cells <- {},
  bus <- [reg |-> "none", data |-> 0]
Pad == INSTANCE NesPad WITH Buttons <- 1

dataVars == <<PPUADDR, ppu_addr_latch, addr_received_high_byte,
              ppu_2007_first_read, step, ppu_ram>>
portVars == <<dataVars, mirroring>>
frameVars == <<ready, scanline, generates_nmi, mask, in_vblank, sprite_0_hit,
               ppu_sprite_hit_occured, buffers, fb, nmi>>
spriteVars == <<oam, OAMADDR>>
padVars == <<p, key, count, prev_write>>
deviceVars == <<portVars, frameVars, spriteVars, padVars>>
cpuVars == <<pc, halfway, A, stack, ram>>
loaderVars == <<image, held, off, loading, memory, chr, patterns, started,
                stores>>
pictures == <<rows, shown, newest>>
historyVars == <<pictures, unsplit, counted>>
consoleVars == <<loaderVars, deviceVars, cpuVars, presses, left, historyVars>>

-----------------------------------------------------------------------------
(* The listing: the address a load or a store of the game names, and the    *)
(* byte a store of a constant stores.                                       *)

PPUCTRL == \h2000
PPUMASK == \h2001
PPUSTATUS == \h2002
PPUADDRESS == \h2006
PPUDATA == \h2007
OAMDMA == \h4014
PAD == \h4016
World == OamSize * SpritePage       (* two cells of RAM                     *)
Last == 0

NmiBit == PageSize \div 2           (* PPUCTRL bit 7                        *)
SpriteBit == PageSize \div 16       (* PPUMASK bit 4                        *)

STA(at, data, next) == [at |-> at, data |-> data, next |-> next]
LDA(at, next) == [at |-> at, next |-> next]

Stores ==
  [nmi_off   |-> STA(PPUCTRL, 0, "spr_off"),
   spr_off   |-> STA(PPUMASK, 0, "wait1"),
   spr_on    |-> STA(PPUMASK, SpriteBit, "nmi_on"),
   nmi_on    |-> STA(PPUCTRL, NmiBit, "main"),
   copy      |-> STA(OAMDMA, SpritePage, "status"),
   high      |-> STA(PPUADDRESS, Place \div PageSize, "low"),
   low       |-> STA(PPUADDRESS, Place % PageSize, "put"),
   put       |-> STA(PPUDATA, A, "strobe1"),
   strobe1   |-> STA(PAD, 1, "strobe0"),
   strobe0   |-> STA(PAD, 0, "poll")]

Loads ==
  [wait1     |-> LDA(PPUSTATUS, IF in_vblank THEN "wait2" ELSE "wait1"),
   wait2     |-> LDA(PPUSTATUS, IF in_vblank THEN "spr_on" ELSE "wait2"),
   status    |-> LDA(PPUSTATUS, "high"),
   poll      |-> LDA(PAD, "tally")]

-----------------------------------------------------------------------------
(* The bus: what an access does to the devices behind it.                   *)

PpuRead(reg) ==
  /\ Port!PpuRead(reg)
  /\ IF reg = Port!STATUS THEN Frame!ReadStatus ELSE UNCHANGED frameVars

(* psg_read answers at this offset only; see ReadMatters for the rest.      *)
PsgRead(reg) == reg = \h16 /\ Pad!Read

Read(a) ==
  \/ Bus!RegionOf(a) = "ppu" /\ PpuRead(Bus!PpuReads(a))
     /\ UNCHANGED <<spriteVars, padVars>>
  \/ Bus!RegionOf(a) = "psg" /\ PsgRead(Bus!PsgRegister(a))
     /\ UNCHANGED <<portVars, frameVars, spriteVars>>

PpuWrite(reg, d) ==
  /\ Port!PpuWrite(IF reg = 1 THEN Port!MISC ELSE reg, d)
  /\ CASE reg = 0 /\ ready -> Frame!WriteCtrl((d \div NmiBit) % 2 = 1)
       [] reg = 1 /\ ready ->
            Frame!WriteMask([mask EXCEPT !.spr = (d \div SpriteBit) % 2 = 1])
       [] OTHER -> UNCHANGED frameVars

PsgWrite(reg, d) ==
  \/ reg = \h14
     /\ oam' = Sprites!Copied(d).oam /\ OAMADDR' = Sprites!Copied(d).addr
     /\ UNCHANGED padVars
  \/ reg = \h16 /\ Pad!WritePad(d) /\ UNCHANGED spriteVars

Write(a, d) ==
  \/ Bus!RegionOf(a) = "ppu" /\ PpuWrite(Bus!PpuWrites(a), d)
     /\ UNCHANGED <<spriteVars, padVars>>
  \/ Bus!RegionOf(a) = "psg" /\ PsgWrite(Bus!PsgRegister(a), d)
     /\ UNCHANGED <<portVars, frameVars>>

-----------------------------------------------------------------------------
(* Power on                                                                 *)

ConsoleInit ==
  /\ Init
  /\ Port!Init /\ Frame!Init /\ Sprites!Init /\ Pad!PadInit
  /\ pc = "off" /\ halfway = FALSE /\ A = 0 /\ stack = <<>>
  /\ presses = 0 /\ left \in Upsets
  /\ rows = [l \in 0 .. Height - 1 |-> 0] /\ shown = {} /\ newest = 0
  /\ unsplit = FALSE /\ counted = FALSE

(* The loader sets the mirroring with a store of its own to $2008.          *)
LoadCartridge ==
  /\ \/ /\ OpenFile \/ ReadHeader \/ ReadProgram \/ AppendPage \/ Overrun
        /\ UNCHANGED portVars
     \/ SetMirroring /\ Port!WriteMirroring(image.mirroring)
  /\ UNCHANGED <<frameVars, spriteVars, padVars, cpuVars, presses, left,
                 historyVars>>

(* Bound: of a program that is not the game nothing is known but that it    *)
(* may store, and the devices stand still.                                  *)
OtherProgram ==
  /\ started \notin {Off, Game}
  /\ Store
  /\ UNCHANGED <<dataVars, frameVars, spriteVars, padVars, cpuVars, presses,
                 left, historyVars>>

-----------------------------------------------------------------------------
(* The game                                                                 *)

Playing == started = Game

LoadStep ==
  /\ pc \in DOMAIN Loads
  /\ Read(Loads[pc].at)
  /\ A' = IF Loads[pc].at = PAD THEN Pad!Answer ELSE A
  /\ pc' = Loads[pc].next
  /\ unsplit' = (unsplit \/ pc = "status")
  /\ UNCHANGED <<halfway, stack, ram, pictures, counted>>

(* A read that changes nothing which the write after it would not change    *)
(* (ReadOther of PpuPort, psg_read of $4014) is joined with that write.     *)
ReadMatters(a) == a \in {PPUSTATUS, PPUDATA, PAD}

StoreRead ==
  /\ pc \in DOMAIN Stores /\ ~halfway /\ ReadMatters(Stores[pc].at)
  /\ Read(Stores[pc].at)
  /\ halfway' = TRUE
  /\ UNCHANGED <<pc, A, stack, ram, historyVars>>

StoreWrite ==
  /\ pc \in DOMAIN Stores /\ halfway = ReadMatters(Stores[pc].at)
  /\ Write(Stores[pc].at, Stores[pc].data)
  /\ halfway' = FALSE
  /\ pc' = Stores[pc].next
  /\ A' = IF pc = "low" THEN ram[World] ELSE A
  /\ UNCHANGED <<stack, ram, historyVars>>

(* AND #1 ; LDX last ; STA last ; BNE over ; CLC ; ADC world ; STA world:   *)
(* the world moves on when the button goes down.                            *)
Tally ==
  /\ pc = "tally" /\ pc' = "rti"
  /\ LET down == IF ram[Last] = 0 THEN A ELSE 0
     IN  /\ ram' = [ram EXCEPT ![World] = @ + down, ![Last] = A]
         /\ counted' = (counted \/ down = 1)
  /\ UNCHANGED <<deviceVars, halfway, A, stack, pictures, unsplit>>

(* PLA ; RTI                                                                *)
ReturnFromNmi ==
  /\ pc = "rti"
  /\ LET top == stack[Len(stack)] IN pc' = top.pc /\ A' = top.A
  /\ stack' = SubSeq(stack, 1, Len(stack) - 1)
  /\ unsplit' = FALSE
  /\ UNCHANGED <<deviceVars, halfway, ram, pictures, counted>>

(* The interrupt's entry, and the handler's PHA.                            *)
TakeNmi ==
  /\ ~halfway
  /\ Frame!TakeNmi
  /\ stack' = Append(stack, [pc |-> pc, A |-> A])
  /\ pc' = "copy"
  /\ unsplit' = FALSE
  /\ UNCHANGED <<portVars, spriteVars, padVars, halfway, A, ram, pictures,
                 counted>>

Instruction ==
  /\ Playing
  /\ LoadStep \/ StoreRead \/ StoreWrite \/ Tally \/ ReturnFromNmi
  /\ UNCHANGED <<loaderVars, presses, left>>

Interrupt == Playing /\ TakeNmi /\ UNCHANGED <<loaderVars, presses, left>>

-----------------------------------------------------------------------------
(* The main thread                                                          *)

(* The sprite stands on every visible line.                                 *)
Line ==
  /\ Playing
  /\ LET line == scanline + 1
         px == [bbg |-> 0, fg |-> IF line < Height THEN 1 ELSE 0]
     IN  /\ \/ Frame!DrawLine(0, px, FALSE) \/ Frame!StartVblank(0, px, FALSE)
            \/ Frame!EndFrame(0, px, FALSE, 15)
         /\ rows' = [l \in DOMAIN rows |->
                       IF mask.spr /\ l = line THEN oam[0] ELSE rows[l]]
  /\ nmi' # nmi => Len(stack) < left.handlers
  /\ shown' = IF scanline + 1 = LastLine
              THEN {rows[l] : l \in fb'.console.layers["fg"]} ELSE shown
  /\ newest' = Max({newest} \cup shown')
  /\ UNCHANGED <<loaderVars, portVars, spriteVars, padVars, cpuVars, presses,
                 left, unsplit, counted>>

Keyboard ==
  /\ Playing /\ 1 \notin key
  /\ presses < left.presses /\ presses' = presses + 1
  /\ Pad!Press(1)
  /\ counted' = (ram[Last] = 1)
  /\ UNCHANGED <<loaderVars, portVars, frameVars, spriteVars, cpuVars, left,
                 pictures, unsplit>>

(* The reset button, and the reset that starts the machine: do_cpu_reset    *)
(* sets the program counter and nothing else.                               *)
ResetButton ==
  /\ Reset
  /\ IF Playing THEN left.resets > 0 /\ left' = [left EXCEPT !.resets = @ - 1]
                ELSE UNCHANGED left
  /\ IF started' = Game
     THEN ~halfway /\ pc' = "nmi_off" /\ stack' = <<>> /\ unsplit' = FALSE
     ELSE UNCHANGED <<pc, stack, unsplit>>
  /\ UNCHANGED <<deviceVars, halfway, A, ram, presses, pictures, counted>>

ConsoleNext ==
  \/ LoadCartridge \/ OtherProgram
  \/ Instruction \/ Interrupt
  \/ Line \/ Keyboard \/ ResetButton

(* The timer re-arms itself on every path of ppu_cycle, so that its         *)
(* scanline moves on.                                                       *)
Ticks ==
  Playing /\ scanline' = IF scanline + 1 = LastLine THEN -1 ELSE scanline + 1

(* The CPU runs on in a thread of its own, some milliseconds to a frame.    *)
(* That is enough for the program outside the handler: of the moments at    *)
(* which it can get on, past its wait for a vertical blank too, it is given *)
(* some.                                                                    *)
Outside == stack = <<>> /\ Instruction

ConsoleSpec ==
  /\ ConsoleInit /\ [][ConsoleNext]_consoleVars
  /\ WF_scanline(Ticks)
  /\ WF_<<pc, halfway, stack>>(Instruction \/ Interrupt)
  /\ SF_<<pc, halfway>>(Outside)

-----------------------------------------------------------------------------
(* The program the handlers have interrupted.                               *)
Base == IF stack = <<>> THEN pc ELSE stack[1].pc

(* A game that has come to its main loop has its sprites and its interrupt  *)
(* on: the two stores that the picture unit drops before the first line are *)
(* never dropped then, though the first of the two vertical blanks the game *)
(* waits for is the one ppu_realize pretends, and whatever a reset left.    *)
Listening == Base = "main" => generates_nmi /\ mask.spr

(* What a handler that ran from its read of $2002 to its store to $2007     *)
(* without another coming in between writes goes where it meant, whatever a *)
(* reset or another handler left of the address registers; and while one    *)
(* handler at most interrupts another, none ever writes outside the         *)
(* nametables: a third one can leave a whole address behind, between the    *)
(* two halves of another, and under a mirroring no header asks for the      *)
(* image of the cell is elsewhere.                                          *)
NametableHeals ==
  [][/\ pc = "put" /\ halfway /\ ~halfway' /\ unsplit => ppu_ram'[Place] = A
     /\ left.handlers <= 2 /\ mirroring \in Port!HeaderMirroring =>
          \A a \in Port!Address \ Port!Nametables :
            ppu_ram'[a] = ppu_ram[a]]_consoleVars

(* A press moves the world on before the button is forgotten, even if       *)
(* resets and handlers inside handlers spend some of its reports on the     *)
(* reads that come with stores, as long as those are fewer than the         *)
(* reports; a press that comes before the game has seen the button up again *)
(* is one with the press before it.                                         *)
PressCounts ==
  [][1 \in key /\ 1 \notin key' /\ left.handlers <= Lasting
       => counted]_consoleVars

Slides ==
  INSTANCE Slideshow WITH world <- ram[World], End <- MaxPresses * Lasting

(* The screen follows the game: no picture goes back in time, whatever the  *)
(* moment the copy, the lines, the interrupt and the reset come in; and the *)
(* game gets going, after any reset and whatever its handler was doing, so  *)
(* that a world that stands still is shown.                                 *)
ImplementsSlideshow ==
  /\ Slides!SlideInit
  /\ [][Slides!SlideNext]_<<ram[World], shown, newest>>
  /\ <>Playing => Slides!Shows

=============================================================================
