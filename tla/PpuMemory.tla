------------------------------ MODULE PpuMemory ------------------------------
(***************************************************************************)
(* The PPU's 16 KiB address space as the data port of nesppu.c sees it:    *)
(* which cell of PPU RAM an address stands for, and which cells one store  *)
(* through $2007 changes.  The layout is scaled by constants; the code's   *)
(* values are given beside each of them.                                   *)
(***************************************************************************)
EXTENDS Naturals

CONSTANTS
  AddrSpace,   (* cells the port addresses: 0x4000                          *)
  Unit,        (* size of one nametable: 0x400                              *)
  PalBase,     (* first palette address: 0x3F00                             *)
  PalSize,     (* palette cells behind their mirrors: 0x20                  *)
  PalGroup     (* colours per palette: 4                                    *)

ASSUME MemoryAssumption ==
  /\ Unit \in Nat \ {0}
  /\ AddrSpace = 16 * Unit
  /\ PalSize \in Nat \ {0}
  /\ PalGroup \in Nat \ {0}
  /\ PalBase \in Nat /\ PalBase >= 12 * Unit
  /\ PalBase + PalSize <= AddrSpace

Address == 0 .. AddrSpace - 1

(* The byte stored to $2008.  A cartridge's header asks for horizontal (0)  *)
(* or vertical (1) mirroring; a program may store any byte, and 6 stands    *)
(* for those whose bit is beyond the 16 bits of an address.                 *)
HeaderMirroring == {0, 1}
Mirroring == 0 .. 6

(* The bytes whose bit is beyond the address space but not beyond 16 bits:  *)
(* the mirror image of every cell fails the assertion of line 73.           *)
OutOfSpace == {4, 5}

(* The four nametables, below the unused copy that starts at 12 * Unit.     *)
NametableBase == 8 * Unit
Nametables == NametableBase .. NametableBase + 4 * Unit - 1

(* The cell of PPU RAM behind an address: the palette repeats every PalSize *)
(* cells, and colour 0 of each sprite palette is colour 0 of the background *)
(* palette of the same number.                                              *)
RealAddr(a) ==
  IF a < PalBase
  THEN a
  ELSE LET off == (a - PalBase) % PalSize
       IN  IF off >= PalSize \div 2 /\ off % PalGroup = 0
           THEN PalBase + off - PalSize \div 2
           ELSE PalBase + off

(* Slip: the mirroring bit counted from the block of four nametables.       *)
ToggleBlock(a, m) ==
  LET bit == 4 * Unit * (m + 1)
  IN  CASE m \notin HeaderMirroring -> a
        [] m \in HeaderMirroring /\ (a \div bit) % 2 = 0 -> a + bit
        [] m \in HeaderMirroring /\ (a \div bit) % 2 = 1 -> a - bit

(* a ^ mirroring_xor, where mirroring_xor is the single bit Unit << m, for  *)
(* the images inside the space: a bit beyond the 16 of an address is lost.  *)
Toggle(a, m) ==
  LET bit == Unit * (CASE m = 0 -> 1 [] m = 1 -> 2 [] m = 2 -> 4 [] OTHER -> 8)
  IN  IF m > 3 THEN a
      ELSE IF (a \div bit) % 2 = 0 THEN a + bit ELSE a - bit

Peek(ram, a) == ram[RealAddr(a)]

(* Slip: the test of line 224 taken to be false of every address.           *)
PokeOnce(ram, a, m, d) == [ram EXCEPT ![RealAddr(a)] = d]

(* A store through the port: the test that was meant to keep the second     *)
(* cell to the nametables is true of every address, so each store writes    *)
(* the cell's mirror image first and then the cell.  The assertion that an  *)
(* image outside the space fails comes before both.                         *)
Poke(ram, a, m, d) ==
  IF m \in OutOfSpace
  THEN ram
  ELSE [ram EXCEPT ![RealAddr(Toggle(a, m))] = d, ![RealAddr(a)] = d]

=============================================================================
