------------------------------- MODULE PpuPort -------------------------------
(***************************************************************************)
(* The PPU's register file behind the CPU's bus: ppu_read and ppu_write of *)
(* nesppu.c on $2000, $2002, $2006, $2007 and the mirroring register,      *)
(* driven by the loads and stores translate.c generates.  $2001 and $2005  *)
(* belong to the renderer (PpuFrame) and $2003, $2004 to sprite memory;    *)
(* here they are one register whose accesses only mask the address.        *)
(*                                                                         *)
(* Every addressing mode of translate.c loads its operand, for a store     *)
(* too, so one store instruction is two bus accesses: a read of the        *)
(* register and then the write.  Each access takes QEMU's global lock by   *)
(* itself, and the scanline timer may run between the two.                 *)
(***************************************************************************)
EXTENDS PpuMemory

CONSTANTS
  PageSize,    (* values of one byte: 0x100                                 *)
  BigStep,     (* the increment of PPUCTRL bit 2: 32                        *)
  StoreData    (* StoreData[reg]: the bytes the program stores to reg       *)

Byte == 0 .. PageSize - 1

(* The registers, by the low bits of the offset; $2008 sets the mirroring.  *)
CTRL == 0
STATUS == 2
MISC == 3
ADDR == 6
DATA == 7
MIRROR == 8

Register == {CTRL, STATUS, MISC, ADDR, DATA, MIRROR}

(* PPUADDR is a word of two bytes, and holds one increment above a masked   *)
(* address.                                                                 *)
ASSUME PortAssumption ==
  /\ PageSize \in Nat \ {0}
  /\ BigStep \in Nat \ {0}
  /\ AddrSpace + BigStep <= PageSize * PageSize
  /\ StoreData \in [Register -> SUBSET Byte]

Word == 0 .. PageSize * PageSize - 1

VARIABLES
  ready,             (* the first scanline has started                       *)
  PPUADDR,           (* masked to AddrSpace only when next used              *)
  ppu_addr_latch,    (* the first byte written to $2006                      *)
  addr_received_high_byte,
  ppu_2007_first_read,
  step,              (* what PPUCTRL bit 2 selects                           *)
  mirroring,
  ram,               (* PPU RAM                                              *)
  op_value,          (* what the CPU's last access to $2007 by a load gave   *)
  bus                (* the store whose write is still to come, or Idle      *)

pair == <<ppu_addr_latch, addr_received_high_byte>>
latches == <<pair, ppu_2007_first_read>>
vars == <<ready, PPUADDR, latches, step, mirroring, ram, op_value, bus>>

Idle == [reg |-> 15, data |-> 0]
Pending == UNION {[reg : {r}, data : StoreData[r]] : r \in Register}

TypeOK ==
  /\ ready \in BOOLEAN
  /\ PPUADDR \in Word
  /\ ppu_addr_latch \in Byte
  /\ addr_received_high_byte \in BOOLEAN
  /\ ppu_2007_first_read \in BOOLEAN
  /\ step \in {1, BigStep}
  /\ mirroring \in Mirroring
  /\ ram \in [Address -> Byte]
  /\ op_value \in Byte
  /\ bus \in Pending \cup {Idle}

(* Power on: the loader has copied a CHR page and chosen the mirroring; the *)
(* scanline timer has not fired yet.                                        *)
Init ==
  /\ ready = FALSE
  /\ PPUADDR = 0
  /\ ppu_addr_latch = 0
  /\ addr_received_high_byte = FALSE
  /\ ppu_2007_first_read = TRUE
  /\ step = 1
  /\ mirroring \in HeaderMirroring
  /\ ram = [a \in Address |-> 0]
  /\ op_value = 0
  /\ bus = Idle

Masked == PPUADDR % AddrSpace

-----------------------------------------------------------------------------
(* ppu_read: every access masks PPUADDR first.                              *)

(* Slip: the half-written address survives the read of $2002.               *)
ReadStatusKeepsPair ==
  /\ PPUADDR' = Masked
  /\ ppu_2007_first_read' = TRUE
  /\ UNCHANGED <<ready, step, mirroring, ram, pair>>

ReadStatus ==
  /\ PPUADDR' = Masked
  /\ ppu_addr_latch' = 0
  /\ addr_received_high_byte' = FALSE
  /\ ppu_2007_first_read' = TRUE
  /\ UNCHANGED <<ready, step, mirroring, ram>>

(* Slip: the address is not masked before the increment.                    *)
ReadDataUnmasked ==
  /\ PPUADDR' = IF ppu_2007_first_read THEN PPUADDR ELSE PPUADDR + step
  /\ ppu_2007_first_read' = FALSE
  /\ UNCHANGED <<ready, step, mirroring, ram, pair>>

ReadData ==
  /\ PPUADDR' = IF ppu_2007_first_read THEN Masked ELSE Masked + step
  /\ ppu_2007_first_read' = FALSE
  /\ UNCHANGED <<ready, step, mirroring, ram, pair>>

ReadOther ==
  /\ PPUADDR' = Masked
  /\ UNCHANGED <<ready, step, mirroring, ram, latches>>

PpuRead(reg) ==
  \/ reg = STATUS /\ ReadStatus
  \/ reg = DATA /\ ReadData
  \/ reg \notin {STATUS, DATA} /\ ReadOther

-----------------------------------------------------------------------------
(* ppu_write                                                                *)

WriteCtrl(d) ==
  /\ step' = IF (d \div 4) % 2 = 1 THEN BigStep ELSE 1
  /\ PPUADDR' = Masked
  /\ UNCHANGED <<ready, mirroring, ram, latches>>

(* Slip: a new address does not make the next access a first one.           *)
WriteAddrMidRun(d) ==
  /\ IF addr_received_high_byte
     THEN /\ PPUADDR' = ppu_addr_latch * PageSize + d
          /\ UNCHANGED ppu_addr_latch
     ELSE /\ ppu_addr_latch' = d
          /\ PPUADDR' = Masked
  /\ addr_received_high_byte' = ~addr_received_high_byte
  /\ UNCHANGED <<ready, ppu_2007_first_read, step, mirroring, ram>>

WriteAddr(d) ==
  /\ IF addr_received_high_byte
     THEN /\ PPUADDR' = ppu_addr_latch * PageSize + d
          /\ UNCHANGED ppu_addr_latch
     ELSE /\ ppu_addr_latch' = d
          /\ PPUADDR' = Masked
  /\ addr_received_high_byte' = ~addr_received_high_byte
  /\ ppu_2007_first_read' = TRUE
  /\ UNCHANGED <<ready, step, mirroring, ram>>

(* An image outside the address space fails an assertion, which ends the    *)
(* process: the write is a step that is not taken.                          *)
WriteData(d) ==
  /\ mirroring \notin OutOfSpace
  /\ ram' = Poke(ram, Masked, mirroring, d)
  /\ PPUADDR' = Masked
  /\ UNCHANGED <<ready, step, mirroring, latches>>

(* 0x400 << d: a shift of an int by 32 or more is undefined.                *)
Shifted(d) == IF d < 32 THEN {IF d < 6 THEN d ELSE 6} ELSE Mirroring

WriteMirroring(d) ==
  /\ mirroring' \in Shifted(d)
  /\ PPUADDR' = Masked
  /\ UNCHANGED <<ready, step, ram, latches>>

(* A write to $2002 has no case, one to $2000 or $2006 before the first     *)
(* scanline is dropped, and the other registers' state is elsewhere.        *)
WriteIgnored ==
  /\ PPUADDR' = Masked
  /\ UNCHANGED <<ready, step, mirroring, ram, latches>>

PpuWrite(reg, d) ==
  \/ reg = CTRL /\ ready /\ WriteCtrl(d)
  \/ reg = ADDR /\ ready /\ WriteAddr(d)
  \/ reg = DATA /\ WriteData(d)
  \/ reg = MIRROR /\ WriteMirroring(d)
  \/ (reg \in {STATUS, MISC} \/ (reg \in {CTRL, ADDR} /\ ~ready)) /\ WriteIgnored

-----------------------------------------------------------------------------
(* The bus: an instruction's accesses, and the scanline timer between them. *)

Load(reg) ==
  /\ bus = Idle
  /\ PpuRead(reg)
  /\ op_value' = IF reg = DATA THEN Peek(ram, Masked) ELSE op_value
  /\ UNCHANGED bus

(* The read that precedes a store's write.  The mask of ppu_read maps       *)
(* $2008 to $2000, whose read has no effect.                                *)
StoreRead(reg, d) ==
  /\ bus = Idle
  /\ PpuRead(reg)
  /\ bus' = [reg |-> reg, data |-> d]
  /\ UNCHANGED op_value

StoreWrite ==
  /\ bus # Idle
  /\ PpuWrite(bus.reg, bus.data)
  /\ bus' = Idle
  /\ UNCHANGED op_value

(* ppu_cycle, as far as this register file sees it.                         *)
Cycle ==
  /\ ready' = TRUE
  /\ UNCHANGED <<PPUADDR, latches, step, mirroring, ram, op_value, bus>>

Next ==
  \/ \E reg \in {STATUS, DATA, MISC} : Load(reg)
  \/ \E reg \in Register : \E d \in StoreData[reg] : StoreRead(reg, d)
  \/ StoreWrite
  \/ Cycle

Spec == Init /\ [][Next]_vars

-----------------------------------------------------------------------------
(* A store through $2007 takes effect, for the promise, when its read moves *)
(* the address: nothing but the timer can run before its write.             *)

DataPending == bus.reg = DATA

Promise == INSTANCE DataPort WITH
  NoByte <- PageSize,
  awake <- ready,
  cursor <- Masked,
  fresh <- ppu_2007_first_read,
  half <- IF addr_received_high_byte THEN ppu_addr_latch ELSE PageSize,
  stride <- step,
  pairing <- mirroring,
  mem <- IF DataPending THEN Poke(ram, Masked, mirroring, bus.data) ELSE ram,
  answer <- op_value

(* Whatever a program does, and wherever the scanline timer runs between    *)
(* the two accesses of a store, the register file does what DataPort        *)
(* promises: ppu_read and ppu_write under every store instruction.          *)
ImplementsDataPort == Promise!DPSpec

=============================================================================
