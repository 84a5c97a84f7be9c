---------------------------- MODULE PpuPortProofs ----------------------------
(***************************************************************************)
(* For every size of the address space, of a byte and of the increment:    *)
(* PpuPort keeps its types and implements DataPort; a run of accesses uses *)
(* consecutive cells, paired nametables stay equal and, whatever byte is   *)
(* stored to $2008, only the addresses that reach the palette's block      *)
(* change a colour.                                                        *)
(***************************************************************************)
EXTENDS PpuPortHistory, TLAPS

(* Division with remainder, and that the remainder is the only one.        *)
LEMMA Division ==
  ASSUME NEW n \in Nat \ {0}, NEW x \in Nat
  PROVE  x \div n \in Nat /\ x % n \in 0 .. n - 1 /\ x = (x \div n) * n + (x % n)
OBVIOUS

LEMMA Remainder ==
  ASSUME NEW n \in Nat \ {0}, NEW q \in Nat, NEW r \in 0 .. n - 1
  PROVE  (q * n + r) % n = r
<1> DEFINE x == q * n + r
<1>0. x \in Nat
  OBVIOUS
<1>1. x \div n = q
  <2>1. q * n <= x /\ x < (q + 1) * n
    OBVIOUS
  <2> QED BY <1>0, <2>1
<1>2. x = (x \div n) * n + (x % n)
  BY <1>0, Division
<1>3. x % n \in 0 .. n - 1
  BY <1>0, Division
<1> HIDE DEF x
<1>4. q * n \in Nat
  OBVIOUS
<1>5. x % n = x - q * n 
  BY <1>0, <1>1, <1>2, <1>3, <1>4
<1> QED BY <1>4, <1>5 DEF x

(* Masking an address before adding to it makes no difference: what lets    *)
(* ppu_read mask PPUADDR at the next access and not at the increment.       *)
LEMMA MaskThenAdd ==
  ASSUME NEW n \in Nat \ {0}, NEW x \in Nat, NEW y \in Nat
  PROVE  ((x % n) + y) % n = (x + y) % n
<1> DEFINE q == x \div n
           z == (x % n) + y
           p == z \div n
<1>1. q \in Nat /\ x % n \in 0 .. n - 1 /\ x = q * n + (x % n)
  BY Division
<1>2. z \in Nat
  BY <1>1
<1>3. p \in Nat /\ z % n \in 0 .. n - 1 /\ z = p * n + (z % n)
  BY <1>2, Division
<1> HIDE DEF q, p
<1>4. q * n \in Nat /\ p * n \in Nat /\ q * n + p * n = (q + p) * n
  BY <1>1, <1>3
<1>5. x + y = (q + p) * n + (z % n)
  BY <1>1, <1>3, <1>4
<1>6. q + p \in Nat
  BY <1>1, <1>3
<1> HIDE DEF z
<1>7. (x + y) % n = z % n
  BY <1>3, <1>5, <1>6, Remainder
<1> QED BY <1>7 DEF z

-----------------------------------------------------------------------------
USE MemoryAssumption, PortAssumption

(* Masking: the address in use is always a cell, and masking twice is       *)
(* masking once.                                                            *)
LEMMA MaskInRange ==
  ASSUME NEW n \in Nat
  PROVE  n % AddrSpace \in Address
BY DEF Address

LEMMA MaskTwice ==
  ASSUME NEW n \in Nat
  PROVE  (n % AddrSpace) % AddrSpace = n % AddrSpace
BY DEF Address

(* The address register holds its increments and both bytes of an address.  *)
LEMMA IncrementFits ==
  ASSUME NEW c \in Address, NEW s \in {0, 1, BigStep}
  PROVE  c + s \in Word
<1> DEFINE w == PageSize * PageSize
<1>1. w \in Nat /\ AddrSpace + BigStep <= w
  OBVIOUS
<1>2. BigStep \in Nat \ {0} /\ AddrSpace \in Nat /\ c \in Nat /\ c < AddrSpace
  BY DEF Address
<1> HIDE DEF w
<1>3. c + s \in 0 .. w - 1
  BY <1>1, <1>2
<1> QED
  BY <1>3 DEF Word, w

LEMMA TwoBytesFit ==
  ASSUME NEW h \in Byte, NEW l \in Byte
  PROVE  h * PageSize + l \in Word
<1>1. PICK e \in Nat : PageSize = h + 1 + e
  BY DEF Byte
<1>2. h * PageSize \in Nat /\ e * PageSize \in Nat
  BY <1>1 DEF Byte
<1>3. PageSize * PageSize = h * PageSize + PageSize + e * PageSize
  BY <1>1 DEF Byte
<1> QED
  BY <1>2, <1>3 DEF Byte, Word

(* A store keeps PPU RAM a function from cells to bytes, wherever its       *)
(* mirror image falls.                                                      *)
LEMMA PokeType ==
  ASSUME NEW r \in [Address -> Byte], NEW a, NEW m, NEW d \in Byte
  PROVE  Poke(r, a, m, d) \in [Address -> Byte]
BY DEF Poke

(* Every byte stored to $2008 selects one of the mirrorings.                *)
LEMMA ShiftType ==
  ASSUME NEW d \in Byte
  PROVE  Shifted(d) \subseteq Mirroring
BY DEF Shifted, Byte, Mirroring

-----------------------------------------------------------------------------
(* Type correctness.                                                        *)

LEMMA MaskedFits ==
  ASSUME TypeOK
  PROVE  Masked \in Word /\ Masked + step \in Word
<1>1. PPUADDR \in Nat /\ step \in {1, BigStep}
  BY DEF TypeOK, Word
<1>2. Masked \in Address
  BY <1>1, MaskInRange DEF Masked
<1>3. Masked + 0 = Masked
  BY <1>2 DEF Address
<1> QED
  BY <1>1, <1>2, <1>3, IncrementFits

LEMMA ReadTypes ==
  ASSUME TypeOK, NEW reg \in Register, PpuRead(reg)
  PROVE  /\ PPUADDR' \in Word
         /\ ready' = ready /\ step' = step
         /\ mirroring' = mirroring /\ ram' = ram
         /\ ppu_addr_latch' \in Byte
         /\ addr_received_high_byte' \in BOOLEAN
         /\ ppu_2007_first_read' \in BOOLEAN
<1> USE DEF TypeOK, latches, pair
<1>1. Masked \in Word /\ Masked + step \in Word
  BY MaskedFits
<1>2. CASE reg = STATUS /\ ReadStatus
  <2>1. PPUADDR' \in Word /\ ppu_addr_latch' \in Byte
    BY <1>1, <1>2 DEF ReadStatus, Byte
  <2>2. addr_received_high_byte' \in BOOLEAN /\ ppu_2007_first_read' \in BOOLEAN
    BY <1>2 DEF ReadStatus
  <2> QED
    BY <1>2, <2>1, <2>2 DEF ReadStatus
<1>3. CASE reg = DATA /\ ReadData
  <2>2. PPUADDR' \in Word
    BY <1>1, <1>3 DEF ReadData
  <2>3. ppu_2007_first_read' \in BOOLEAN
    BY <1>3 DEF ReadData
  <2>4. /\ ready' = ready /\ step' = step /\ mirroring' = mirroring
        /\ ram' = ram /\ ppu_addr_latch' = ppu_addr_latch
        /\ addr_received_high_byte' = addr_received_high_byte
    BY <1>3 DEF ReadData
  <2> QED
    BY <2>2, <2>3, <2>4
<1>4. CASE reg \notin {STATUS, DATA} /\ ReadOther
  BY <1>1, <1>4 DEF ReadOther
<1> QED
  BY <1>2, <1>3, <1>4 DEF PpuRead

LEMMA WriteTypes ==
  ASSUME TypeOK, bus # Idle, PpuWrite(bus.reg, bus.data)
  PROVE  /\ PPUADDR' \in Word
         /\ ready' = ready
         /\ step' \in {1, BigStep}
         /\ mirroring' \in Mirroring
         /\ ram' \in [Address -> Byte]
         /\ ppu_addr_latch' \in Byte
         /\ addr_received_high_byte' \in BOOLEAN
         /\ ppu_2007_first_read' \in BOOLEAN
<1> USE DEF TypeOK, latches, pair
<1>1. Masked \in Word
  BY MaskedFits
<1>2. bus.data \in Byte
  BY DEF Pending
<1>3. CASE WriteCtrl(bus.data)
  BY <1>1, <1>3 DEF WriteCtrl
<1>4. CASE WriteAddr(bus.data)
  <2>1. ppu_addr_latch * PageSize + bus.data \in Word
    BY <1>2, TwoBytesFit
  <2> QED
    BY <1>1, <1>2, <1>4, <2>1 DEF WriteAddr
<1>5. CASE WriteData(bus.data)
  BY <1>1, <1>2, <1>5, PokeType DEF WriteData
<1>6. CASE bus.reg = MIRROR /\ WriteMirroring(bus.data)
  BY <1>1, <1>2, <1>6, ShiftType DEF WriteMirroring
<1>7. CASE WriteIgnored
  BY <1>1, <1>7 DEF WriteIgnored
<1> QED
  BY <1>3, <1>4, <1>5, <1>6, <1>7 DEF PpuWrite

(* What a load hands the CPU is a byte.                                     *)
LEMMA PeekType ==
  ASSUME TypeOK
  PROVE  Peek(ram, Masked) \in Byte
<1>1. Masked \in Address
  BY MaskInRange DEF TypeOK, Masked, Word
<1>2. RealAddr(Masked) \in Address
  <2> DEFINE off == (Masked - PalBase) % PalSize
  <2>1. CASE Masked < PalBase
    BY <1>1, <2>1 DEF RealAddr
  <2>2. CASE ~(Masked < PalBase)
    <3>1. off \in 0 .. PalSize - 1
      BY <1>1, <2>2 DEF Address
    <3>2. PalSize \div 2 \in Nat
      OBVIOUS
    <3>3. PalBase + off \in Address
      BY <3>1 DEF Address
    <3>4. off >= PalSize \div 2 => PalBase + off - PalSize \div 2 \in Address
      BY <3>1, <3>2, <3>3 DEF Address
    <3> QED
      BY <2>2, <3>3, <3>4 DEF RealAddr
  <2> QED
    BY <2>1, <2>2
<1> QED
  BY <1>2 DEF Peek, TypeOK

(* Every reachable state of the register file has its type, whatever the    *)
(* program does: no bus access of ppu_read or ppu_write leaves a register   *)
(* outside its width.                                                       *)
THEOREM TypeCorrect == Spec => []TypeOK
<1>1. Init => TypeOK
  <2>1. 0 \in Byte
    BY DEF Byte
  <2>2. ASSUME Init PROVE ram \in [Address -> Byte]
    BY <2>1, <2>2 DEF Init
  <2>3. ASSUME Init PROVE bus = Idle /\ op_value \in Byte /\ ppu_addr_latch \in Byte
    BY <2>1, <2>3 DEF Init
  <2>4. ASSUME Init PROVE /\ ready \in BOOLEAN
                          /\ addr_received_high_byte \in BOOLEAN
                          /\ ppu_2007_first_read \in BOOLEAN
    BY <2>4 DEF Init
  <2>5. ASSUME Init PROVE PPUADDR \in Word /\ step \in {1, BigStep}
    <3>1. 0 \in Address /\ 0 + 0 = 0
      BY DEF Address
    <3> QED
      BY <2>5, <3>1, IncrementFits DEF Init
  <2>6. ASSUME Init PROVE mirroring \in Mirroring
    BY <2>6 DEF Init, HeaderMirroring, Mirroring
  <2> QED
    BY <2>2, <2>3, <2>4, <2>5, <2>6 DEF TypeOK
<1>2. TypeOK /\ [Next]_vars => TypeOK'
  <2> SUFFICES ASSUME TypeOK, [Next]_vars PROVE TypeOK'
    OBVIOUS
  <2>1. ASSUME NEW reg \in {STATUS, DATA, MISC}, Load(reg) PROVE TypeOK'
    <3>1. reg \in Register
      BY DEF Register
    <3> QED
      BY <2>1, <3>1, ReadTypes, PeekType DEF Load, TypeOK
  <2>2. ASSUME NEW reg \in Register, NEW d \in StoreData[reg], StoreRead(reg, d)
        PROVE  TypeOK'
    <3>1. [reg |-> reg, data |-> d] \in Pending
      BY DEF Pending
    <3> QED
      BY <2>2, <3>1, ReadTypes DEF StoreRead, TypeOK
  <2>3. CASE StoreWrite
    BY <2>3, WriteTypes DEF StoreWrite, TypeOK
  <2>4. CASE Cycle
    BY <2>4 DEF Cycle, latches, pair, TypeOK
  <2>5. CASE UNCHANGED vars
    BY <2>5 DEF vars, latches, pair, TypeOK
  <2> QED
    BY <2>1, <2>2, <2>3, <2>4, <2>5 DEF Next
<1> QED
  BY <1>1, <1>2, PTL DEF Spec

-----------------------------------------------------------------------------
(* Refinement: what each kind of bus access is for the promise.             *)

(* The mapped variables that a bus access can disturb, named for the steps  *)
(* below.                                                                   *)
Half == IF addr_received_high_byte THEN ppu_addr_latch ELSE PageSize
Mem == IF DataPending THEN Poke(ram, Masked, mirroring, bus.data) ELSE ram

(* Nothing the promise can see.                                             *)
Stutter ==
  /\ Masked' = Masked
  /\ Half' = Half
  /\ Mem' = Mem
  /\ UNCHANGED <<ready, ppu_2007_first_read, step, mirroring, op_value>>

LEMMA StutterIsStutter ==
  Stutter => UNCHANGED Promise!dpVars
BY DEF Stutter, Promise!dpVars, Half, Mem

LEMMA MaskedType ==
  ASSUME TypeOK
  PROVE  /\ Masked \in Address
         /\ Masked % AddrSpace = Masked
         /\ (Masked + step) \in Nat
<1>1. PPUADDR \in Nat /\ step \in Nat
  BY DEF TypeOK, Word
<1>2. Masked \in Address /\ Masked % AddrSpace = Masked
  BY <1>1, MaskInRange, MaskTwice DEF Masked
<1> QED
  BY <1>1, <1>2 DEF Address

LEMMA LoadSimulates ==
  ASSUME TypeOK, NEW reg \in {STATUS, DATA, MISC}, Load(reg)
  PROVE  [Promise!DPNext]_(Promise!dpVars)
<1>1. ~DataPending /\ ~DataPending' /\ bus' = bus
  BY DEF Load, Idle, DataPending, DATA
<1>2. Mem = ram /\ Mem' = ram'
  BY <1>1 DEF Mem
<1>3. CASE reg = STATUS /\ ReadStatus
  <2>1. Masked' = Masked
    BY <1>3, MaskedType DEF ReadStatus, Masked
  <2>2. op_value' = op_value
    BY <1>3 DEF Load, STATUS, DATA
  <2>3. Promise!Forget
    BY <1>1, <1>2, <1>3, <2>1, <2>2 DEF ReadStatus, Promise!Forget, Mem
  <2> QED
    BY <2>3 DEF Promise!DPNext
<1>4. CASE reg = DATA /\ ReadData
  <2>1. op_value' = Peek(ram, Masked)
    BY <1>4 DEF Load
  <2>2. Masked' = IF ppu_2007_first_read THEN Masked ELSE (Masked + step) % AddrSpace
    BY <1>4, MaskedType DEF ReadData, Masked
  <2>3. UNCHANGED <<ready, step, mirroring, ram, ppu_addr_latch, addr_received_high_byte>>
    BY <1>4 DEF ReadData, pair
  <2>4. ppu_2007_first_read' = FALSE
    BY <1>4 DEF ReadData
  <2>5. Promise!Get
    BY <1>1, <1>2, <2>1, <2>2, <2>3, <2>4
       DEF Promise!Get, Promise!Next1, Promise!Peek, Promise!RealAddr, Peek, RealAddr, Mem
  <2> QED
    BY <2>5 DEF Promise!DPNext
<1>5. CASE reg \notin {STATUS, DATA} /\ ReadOther
  <2>1. Masked' = Masked
    BY <1>5, MaskedType DEF ReadOther, Masked
  <2>2. op_value' = op_value
    BY <1>5 DEF Load
  <2>3. Stutter
    BY <1>2, <1>5, <2>1, <2>2 DEF ReadOther, latches, pair, Stutter, Half
  <2> QED
    BY <2>3, StutterIsStutter
<1> QED
  BY <1>3, <1>4, <1>5 DEF Load, PpuRead

(* The read of a store through $2007 is the whole store for the promise.    *)
LEMMA StoreReadSimulates ==
  ASSUME TypeOK, NEW reg \in Register, NEW d \in StoreData[reg], StoreRead(reg, d)
  PROVE  [Promise!DPNext]_(Promise!dpVars)
<1>1. /\ ~DataPending
      /\ DataPending' <=> reg = DATA
      /\ bus'.data = d
      /\ op_value' = op_value
  BY DEF StoreRead, Idle, DataPending, DATA
<1>2. Mem = ram
  BY <1>1 DEF Mem
<1>3. CASE reg = STATUS /\ ReadStatus
  <2>1. Masked' = Masked
    BY <1>3, MaskedType DEF ReadStatus, Masked
  <2>2. ~DataPending'
    BY <1>1, <1>3 DEF STATUS, DATA
  <2>3. Promise!Forget
    BY <1>1, <1>2, <1>3, <2>1, <2>2 DEF ReadStatus, Promise!Forget, Mem
  <2> QED
    BY <2>3 DEF Promise!DPNext
<1>4. CASE reg = DATA /\ ReadData
  <2>1. Masked' = IF ppu_2007_first_read THEN Masked ELSE (Masked + step) % AddrSpace
    BY <1>4, MaskedType DEF ReadData, Masked
  <2>2. UNCHANGED <<ready, step, mirroring, ram, ppu_addr_latch, addr_received_high_byte>>
    BY <1>4 DEF ReadData, pair
  <2>3. ppu_2007_first_read' = FALSE
    BY <1>4 DEF ReadData
  <2>4. Mem' = Poke(ram, Masked', mirroring, d)
    BY <1>1, <1>4, <2>2 DEF Mem
  <2>7. Promise!Poke(ram, Masked', mirroring, d) = Poke(ram, Masked', mirroring, d)
    BY DEF Promise!Poke, Promise!Toggle, Promise!RealAddr, Promise!OutOfSpace,
           Poke, Toggle, RealAddr, OutOfSpace
  <2>5. Promise!Put(d)
    BY <1>1, <1>2, <2>1, <2>2, <2>3, <2>4, <2>7 DEF Promise!Put, Promise!Next1, Mem
  <2>6. d \in Promise!Byte
    BY <1>4 DEF Byte, Promise!Byte
  <2> QED
    BY <2>5, <2>6 DEF Promise!DPNext
<1>5. CASE reg \notin {STATUS, DATA} /\ ReadOther
  <2>1. Masked' = Masked
    BY <1>5, MaskedType DEF ReadOther, Masked
  <2>2. Mem' = Mem
    BY <1>1, <1>2, <1>5 DEF ReadOther, Mem
  <2>3. Stutter
    BY <1>1, <1>5, <2>1, <2>2 DEF ReadOther, latches, pair, Stutter, Half
  <2> QED
    BY <2>3, StutterIsStutter
<1> QED
  BY <1>3, <1>4, <1>5 DEF StoreRead, PpuRead

LEMMA StoreWriteSimulates ==
  ASSUME TypeOK, StoreWrite
  PROVE  [Promise!DPNext]_(Promise!dpVars)
<1> DEFINE d == bus.data
<1>1. /\ bus # Idle /\ ~DataPending' /\ op_value' = op_value
      /\ PpuWrite(bus.reg, d)
  BY DEF StoreWrite, Idle, DataPending, DATA
<1>2. Mem' = ram'
  BY <1>1 DEF Mem
<1>3. bus.reg \in Register /\ d \in Byte
  BY <1>1 DEF TypeOK, Pending
<1>4. CASE bus.reg = CTRL /\ ready /\ WriteCtrl(d)
  <2>1. Masked' = Masked
    BY <1>4, MaskedType DEF WriteCtrl, Masked
  <2>2. Mem = ram
    BY <1>4 DEF Mem, DataPending, CTRL, DATA
  <2>3. step' \in {1, BigStep}
    BY <1>4 DEF WriteCtrl
  <2>4. Promise!SetStride(step')
    BY <1>1, <1>2, <1>4, <2>1, <2>2
       DEF WriteCtrl, latches, pair, Promise!SetStride, Mem
  <2> QED
    BY <2>3, <2>4 DEF Promise!DPNext
<1>5. CASE bus.reg = ADDR /\ ready /\ WriteAddr(d)
  <2>1. Mem = ram
    BY <1>5 DEF Mem, DataPending, ADDR, DATA
  <2>2. UNCHANGED <<ready, step, mirroring, ram>> /\ ppu_2007_first_read' = TRUE
    BY <1>5 DEF WriteAddr
  <2>3. d \in Promise!Byte
    BY <1>3 DEF Byte, Promise!Byte
  <2>4. CASE addr_received_high_byte
    <3>1. ~addr_received_high_byte' /\ addr_received_high_byte' = FALSE
      BY <1>5, <2>4 DEF WriteAddr
    <3>2. Masked' = (ppu_addr_latch * PageSize + d) % AddrSpace
      BY <1>5, <2>4 DEF WriteAddr, Masked
    <3>3. ppu_addr_latch # PageSize
      BY DEF TypeOK, Byte
    <3>4. Promise!LowByte(d)
      BY <1>1, <1>2, <1>5, <2>1, <2>2, <2>4, <3>1, <3>2, <3>3
         DEF Promise!LowByte, Mem
    <3> QED
      BY <2>3, <3>4 DEF Promise!DPNext
  <2>5. CASE ~addr_received_high_byte
    <3>1. addr_received_high_byte' /\ ppu_addr_latch' = d
      BY <1>5, <2>5 DEF WriteAddr
    <3>2. Masked' = Masked
      BY <1>5, <2>5, MaskedType DEF WriteAddr, Masked
    <3>3. Promise!HighByte(d)
      BY <1>1, <1>2, <1>5, <2>1, <2>2, <2>5, <3>1, <3>2
         DEF Promise!HighByte, Mem
    <3> QED
      BY <2>3, <3>3 DEF Promise!DPNext
  <2> QED
    BY <2>4, <2>5
<1>6. CASE bus.reg = DATA /\ WriteData(d)
  <2>1. Masked' = Masked
    BY <1>6, MaskedType DEF WriteData, Masked
  <2>2. Mem' = Mem
    BY <1>2, <1>6 DEF WriteData, Mem, DataPending
  <2>3. Stutter
    BY <1>1, <1>6, <2>1, <2>2 DEF WriteData, latches, pair, Stutter, Half
  <2> QED
    BY <2>3, StutterIsStutter
<1>7. CASE bus.reg = MIRROR /\ WriteMirroring(d)
  <2>1. Masked' = Masked
    BY <1>7, MaskedType DEF WriteMirroring, Masked
  <2>2. Mem = ram
    BY <1>7 DEF Mem, DataPending, MIRROR, DATA
  <2>3. Promise!SetPairing(mirroring')
    BY <1>1, <1>2, <1>7, <2>1, <2>2
       DEF WriteMirroring, latches, pair, Promise!SetPairing, Mem
  <2>4. mirroring' \in Promise!Mirroring
    BY <1>3, <1>7, ShiftType DEF WriteMirroring, Mirroring, Promise!Mirroring
  <2> QED
    BY <2>3, <2>4 DEF Promise!DPNext
<1>8. CASE /\ bus.reg \in {STATUS, MISC} \/ (bus.reg \in {CTRL, ADDR} /\ ~ready)
           /\ WriteIgnored
  <2>1. Masked' = Masked
    BY <1>8, MaskedType DEF WriteIgnored, Masked
  <2>2. Mem' = Mem
    BY <1>2, <1>8
       DEF WriteIgnored, Mem, DataPending, STATUS, MISC, CTRL, ADDR, DATA
  <2>3. Stutter
    BY <1>1, <1>8, <2>1, <2>2 DEF WriteIgnored, latches, pair, Stutter, Half
  <2> QED
    BY <2>3, StutterIsStutter
<1> QED
  BY <1>1, <1>4, <1>5, <1>6, <1>7, <1>8 DEF PpuWrite

LEMMA CycleSimulates ==
  ASSUME Cycle
  PROVE  Promise!Wake
BY DEF Cycle, latches, pair, Promise!Wake, Masked, DataPending, Mem

(* The register file implements the promise for every memory layout, byte   *)
(* size, increment and program: the extra read of each store in translate.c *)
(* and the increment-on-read of ppu_read together give one access per       *)
(* instruction, with the scanline timer anywhere in between.                *)
THEOREM Refinement == Spec => ImplementsDataPort
<1>1. Init => Promise!DPInit
  <2> SUFFICES ASSUME Init PROVE Promise!DPInit
    OBVIOUS
  <2>1. Masked = 0
    BY MaskTwice DEF Init, Masked
  <2>2. ~DataPending
    BY DEF Init, Idle, DataPending, DATA
  <2>3. ram \in [Promise!Address -> Promise!Byte]
    BY DEF Init, Address, Promise!Address, Promise!Byte
  <2> QED
    BY <2>1, <2>2, <2>3 DEF Init, Promise!DPInit, HeaderMirroring, Promise!HeaderMirroring
<1>2. TypeOK /\ [Next]_vars => [Promise!DPNext]_(Promise!dpVars)
  <2> SUFFICES ASSUME TypeOK, [Next]_vars
               PROVE  [Promise!DPNext]_(Promise!dpVars)
    OBVIOUS
  <2>1. CASE \E reg \in {STATUS, DATA, MISC} : Load(reg)
    BY <2>1, LoadSimulates
  <2>2. CASE \E reg \in Register : \E d \in StoreData[reg] : StoreRead(reg, d)
    BY <2>2, StoreReadSimulates
  <2>3. CASE StoreWrite
    BY <2>3, StoreWriteSimulates
  <2>4. CASE Cycle
    BY <2>4, CycleSimulates DEF Promise!DPNext
  <2>5. CASE UNCHANGED vars
    BY <2>5, StutterIsStutter
       DEF vars, latches, pair, Stutter, Masked, Half, Mem, DataPending
  <2> QED
    BY <2>1, <2>2, <2>3, <2>4, <2>5 DEF Next
<1> QED
  BY <1>1, <1>2, TypeCorrect, PTL DEF Spec, ImplementsDataPort, Promise!DPSpec

-----------------------------------------------------------------------------
(* The map of PPU RAM: where the two cells of a store fall.                 *)

(* An address is a multiple of a block size and an offset in the block.     *)
LEMMA BlockOf ==
  ASSUME NEW b \in Nat \ {0}, NEW k \in Nat, NEW a \in Nat,
         k * b <= a, a < (k + 1) * b
  PROVE  a \div b = k
OBVIOUS

(* Swapping the two halves of a pair of blocks stays on the same side of    *)
(* every boundary between pairs, and is undone by swapping again.           *)
LEMMA SwapInPair ==
  ASSUME NEW b \in Nat \ {0}, NEW a \in Nat
  PROVE  LET Swap(x) == IF (x \div b) % 2 = 0 THEN x + b ELSE x - b
         IN  /\ Swap(a) \in Nat
             /\ Swap(Swap(a)) = a
             /\ \A j \in Nat : Swap(a) < (2 * j) * b <=> a < (2 * j) * b
<1> DEFINE Swap(x) == IF (x \div b) % 2 = 0 THEN x + b ELSE x - b
           Edge(j) == (2 * j) * b
           k == a \div b
           i == k \div 2
<1>1. k \in Nat /\ k * b <= a /\ a < k * b + b
  OBVIOUS
<1>2. i \in Nat /\ k = 2 * i + (k % 2) /\ k % 2 \in {0, 1}
  BY <1>1
<1>3. Swap(a) = IF k % 2 = 0 THEN a + b ELSE a - b
  OBVIOUS
<1>4. \A x : (x \div b) % 2 = 0 => Swap(x) = x + b
  OBVIOUS
<1>5. \A x : (x \div b) % 2 = 1 => Swap(x) = x - b
  OBVIOUS
<1> HIDE DEF k, i, Swap
<1>6. Edge(i) \in Nat /\ (2 * i + 1) * b = Edge(i) + b /\ (2 * i + 2) * b = Edge(i) + 2 * b
  BY <1>2
<1>7. \A j \in Nat : Edge(j) \in Nat
  OBVIOUS
<1>8. \A j \in Nat : Edge(i) + 2 * b <= Edge(j) \/ Edge(i) >= Edge(j)
  <2> SUFFICES ASSUME NEW j \in Nat
               PROVE  Edge(i) + 2 * b <= Edge(j) \/ Edge(i) >= Edge(j)
    OBVIOUS
  <2>1. CASE i < j
    <3>1. PICK e \in Nat : j = i + 1 + e
      BY <1>2, <2>1
    <3>2. Edge(j) = Edge(i) + 2 * b + Edge(e)
      BY <1>2, <3>1
    <3> HIDE DEF Edge
    <3> QED
      BY <1>6, <1>7, <3>2
  <2>2. CASE i >= j
    <3>1. PICK e \in Nat : i = j + e
      BY <1>2, <2>2
    <3>2. Edge(i) = Edge(j) + Edge(e)
      BY <1>2, <3>1
    <3> HIDE DEF Edge
    <3> QED
      BY <1>6, <1>7, <3>2
  <2> QED
    BY <1>2, <2>1, <2>2
<1>9. CASE k % 2 = 0
  <2>1. k = 2 * i /\ Swap(a) = a + b
    BY <1>2, <1>3, <1>9
  <2>2. Edge(i) <= a /\ a < Edge(i) + b
    BY <1>1, <2>1
  <2>3. (a + b) \div b = 2 * i + 1
    <3>1. 2 * i + 1 \in Nat /\ (2 * i + 1) + 1 = 2 * i + 2 /\ a + b \in Nat
      BY <1>2
    <3>2. Edge(i) + b <= a + b /\ a + b < Edge(i) + 2 * b
      <4> HIDE DEF Edge
      <4> QED
        BY <1>6, <2>2
    <3>3. (2 * i + 1) * b <= a + b /\ a + b < ((2 * i + 1) + 1) * b
      <4> HIDE DEF Edge
      <4> QED
        BY <1>6, <3>1, <3>2
    <3> QED
      BY <3>1, <3>3, BlockOf
  <2>4. (2 * i + 1) % 2 = 1
    BY <1>2
  <2>5. Swap(a + b) = (a + b) - b
    BY <1>5, <2>3, <2>4
  <2> HIDE DEF Edge
  <2>6. \A j \in Nat : a + b < Edge(j) <=> a < Edge(j)
    BY <1>6, <1>7, <1>8, <2>2
  <2>7. Swap(Swap(a)) = a /\ Swap(a) \in Nat
    BY <2>1, <2>5
  <2> QED
    BY <2>1, <2>6, <2>7 DEF Swap, Edge
<1>10. CASE k % 2 = 1
  <2>1. k = 2 * i + 1 /\ Swap(a) = a - b
    BY <1>2, <1>3, <1>10
  <2>2. Edge(i) + b <= a /\ a < Edge(i) + 2 * b
    <3>1. (2 * i + 1) * b <= a /\ a < (2 * i + 1) * b + b
      BY <1>1, <2>1
    <3> HIDE DEF Edge
    <3> QED
      BY <1>6, <3>1
  <2>3. (a - b) \div b = 2 * i
    <3>1. 2 * i \in Nat /\ a - b \in Nat /\ Edge(i) <= a - b /\ a - b < Edge(i) + b
      <4> HIDE DEF Edge
      <4> QED
        BY <1>2, <1>6, <2>2
    <3> QED
      BY <1>6, <3>1, BlockOf
  <2>4. (2 * i) % 2 = 0
    BY <1>2
  <2>5. Swap(a - b) = (a - b) + b
    BY <1>4, <2>3, <2>4
  <2> HIDE DEF Edge
  <2>6. \A j \in Nat : a - b < Edge(j) <=> a < Edge(j)
    BY <1>6, <1>7, <1>8, <2>2
  <2>7. Swap(Swap(a)) = a /\ Swap(a) \in Nat
    BY <1>6, <2>1, <2>2, <2>5
  <2> QED
    BY <2>1, <2>6, <2>7 DEF Swap, Edge
<1> QED
  BY <1>2, <1>9, <1>10 DEF Swap

(* Under a header's mirroring, the image of a cell is in the same one of    *)
(* the three regions below, of and above the nametables, and is mirrored    *)
(* back to the cell.                                                        *)
LEMMA ToggleFacts ==
  ASSUME NEW a \in Address, NEW m \in HeaderMirroring
  PROVE  /\ Toggle(a, m) \in Address
         /\ Toggle(Toggle(a, m), m) = a
         /\ Toggle(a, m) \in Nametables <=> a \in Nametables
         /\ Toggle(a, m) < 12 * Unit <=> a < 12 * Unit
<1> DEFINE t == Toggle(a, m)
           b == Unit * (m + 1)
<1>1. m \in {0, 1} /\ a \in Nat /\ b \in Nat \ {0}
  BY DEF HeaderMirroring, Address
<1>2. /\ t \in Nat
      /\ Toggle(t, m) = a
      /\ \A j \in Nat : t < (2 * j) * b <=> a < (2 * j) * b
  <2>1. b = Unit * (CASE m = 0 -> 1 [] m = 1 -> 2 [] m = 2 -> 4 [] OTHER -> 8)
    BY <1>1
  <2>2. \A x : Toggle(x, m) = IF (x \div b) % 2 = 0 THEN x + b ELSE x - b
    <3>1. CASE m = 0
      BY <2>1, <3>1 DEF Toggle
    <3>2. CASE m = 1
      BY <2>1, <3>2 DEF Toggle
    <3> QED
      BY <1>1, <3>1, <3>2
  <2> HIDE DEF b
  <2> DEFINE Swap(x) == IF (x \div b) % 2 = 0 THEN x + b ELSE x - b
  <2>3. /\ Swap(a) \in Nat
        /\ Swap(Swap(a)) = a
        /\ \A j \in Nat : Swap(a) < (2 * j) * b <=> a < (2 * j) * b
    BY <1>1, SwapInPair
  <2>4. \A x : Toggle(x, m) = Swap(x)
    BY <2>2
  <2> HIDE DEF Swap
  <2> QED
    BY <2>3, <2>4
<1>3. \E j \in Nat : (2 * j) * b = 8 * Unit
  <2>1. CASE m = 0
    BY <2>1, (2 * 4) * b = 8 * Unit
  <2>2. CASE m = 1
    BY <2>2, (2 * 2) * b = 8 * Unit
  <2> QED
    BY <1>1, <2>1, <2>2
<1>4. \E j \in Nat : (2 * j) * b = 12 * Unit
  <2>1. CASE m = 0
    BY <2>1, (2 * 6) * b = 12 * Unit
  <2>2. CASE m = 1
    BY <2>2, (2 * 3) * b = 12 * Unit
  <2> QED
    BY <1>1, <2>1, <2>2
<1>5. \E j \in Nat : (2 * j) * b = 16 * Unit
  <2>1. CASE m = 0
    BY <2>1, (2 * 8) * b = 16 * Unit
  <2>2. CASE m = 1
    BY <2>2, (2 * 4) * b = 16 * Unit
  <2> QED
    BY <1>1, <2>1, <2>2
<1> HIDE DEF t, b
<1>6. /\ t < 8 * Unit <=> a < 8 * Unit
      /\ t < 12 * Unit <=> a < 12 * Unit
      /\ t < 16 * Unit <=> a < 16 * Unit
  BY <1>2, <1>3, <1>4, <1>5
<1>7. t \in Address /\ (t \in Nametables <=> a \in Nametables)
  BY <1>1, <1>2, <1>6 DEF Address, Nametables, NametableBase
<1> QED
  BY <1>2, <1>6, <1>7 DEF t

(* Below the palette an address is its own cell; the palette's mirrors stay *)
(* in the palette's block.                                                  *)
LEMMA RealAddrFacts ==
  ASSUME NEW a \in Address
  PROVE  /\ a < PalBase => RealAddr(a) = a
         /\ a >= PalBase => RealAddr(a) >= PalBase
         /\ RealAddr(a) \in Address
<1> DEFINE off == (a - PalBase) % PalSize
<1>1. CASE a < PalBase
  BY <1>1 DEF RealAddr, Address
<1>2. CASE ~(a < PalBase)
  <2>1. off \in 0 .. PalSize - 1 /\ PalSize \div 2 \in Nat /\ a \in Nat
    BY <1>2 DEF Address
  <2>2. RealAddr(a) \in {PalBase + off, PalBase + off - PalSize \div 2}
    BY <1>2 DEF RealAddr
  <2>3. RealAddr(a) = PalBase + off - PalSize \div 2 => off >= PalSize \div 2 
    BY <1>2, <2>1, PalSize \in {1} \/ PalSize \div 2 > 0 DEF RealAddr
  <2> HIDE DEF off
  <2>4. PalBase + off - PalSize \div 2 = PalBase + (off - PalSize \div 2)
    BY <2>1
  <2> QED
    BY <1>2, <2>1, <2>2, <2>3, <2>4 DEF Address
<1> QED
  BY <1>1, <1>2

-----------------------------------------------------------------------------
(* The two invariants of PPU RAM over a program's stores.                   *)

(* A step of the history specification is a step of the register file.      *)
LEMMA HistorySteps == [HNext]_historyVars => [Next]_vars
BY DEF HNext, historyVars, vars, HLoad, HStoreRead, HStoreWrite, HCycle, Next

LEMMA HTypeCorrect == HSpec => []TypeOK
<1>1. HInit => Init
  BY DEF HInit
<1> QED
  BY <1>1, HistorySteps, TypeCorrect, PTL DEF HSpec, Spec

(* A store into a nametable changes both nametables of the pair, and any    *)
(* other store changes no nametable.                                        *)
LEMMA PokeKeepsPairs ==
  ASSUME NEW r \in [Address -> Byte], NEW c \in Address, NEW m \in HeaderMirroring,
         NEW d \in Byte, \A a \in Nametables : r[a] = r[Toggle(a, m)]
  PROVE  \A a \in Nametables : Poke(r, c, m, d)[a] = Poke(r, c, m, d)[Toggle(a, m)]
<1> DEFINE t == Toggle(c, m)
           p == Poke(r, c, m, d)
<1>1. Nametables \subseteq Address /\ \A a \in Nametables : a < PalBase
  BY DEF Nametables, NametableBase, Address
<1>2. t \in Address /\ Toggle(t, m) = c /\ (t \in Nametables <=> c \in Nametables)
  BY ToggleFacts
<1>3. \A a \in Address : p[a] = IF a \in {RealAddr(c), RealAddr(t)} THEN d ELSE r[a]
  BY DEF Poke, HeaderMirroring, OutOfSpace
<1>4. \A a \in Nametables : /\ Toggle(a, m) \in Nametables
                            /\ Toggle(Toggle(a, m), m) = a
  BY <1>1, ToggleFacts
<1> HIDE DEF t, p
<1>5. CASE c \in Nametables
  <2>1. RealAddr(c) = c /\ RealAddr(t) = t
    BY <1>1, <1>2, <1>5, RealAddrFacts
  <2>2. \A a \in Nametables : a \in {c, t} <=> Toggle(a, m) \in {c, t}
    BY <1>2, <1>4 DEF t
  <2> QED
    BY <1>1, <1>3, <1>4, <2>1, <2>2 DEF p
<1>6. CASE c \notin Nametables
  <2>1. ASSUME NEW e \in Address, e \notin Nametables
        PROVE  RealAddr(e) \notin Nametables
    BY <1>1, <2>1, RealAddrFacts, e < PalBase \/ e >= PalBase DEF Address
  <2>2. RealAddr(c) \notin Nametables /\ RealAddr(t) \notin Nametables
    BY <1>2, <1>6, <2>1
  <2> QED
    BY <1>1, <1>3, <1>4, <2>2 DEF p
<1> QED
  BY <1>5, <1>6

(* The mirror image of a cell below the palette's block is below it too,    *)
(* unless the mirroring bit is one that tells the block from another.       *)
LEMMA ImageBelowPalette ==
  ASSUME NEW c \in Address, NEW m \in Mirroring \ OutOfSpace, c < 12 * Unit,
         m = 2 => c \notin 8 * Unit .. 12 * Unit - 1,
         m = 3 => c \notin 4 * Unit .. 8 * Unit - 1
  PROVE  Toggle(c, m) \in Address /\ Toggle(c, m) < 12 * Unit
<1>1. CASE m \in HeaderMirroring
  BY <1>1, ToggleFacts
<1>2. CASE m = 2
  <2> DEFINE b == 4 * Unit
  <2>1. c \in Nat /\ b \in Nat \ {0} /\ c < 2 * b
    BY <1>2 DEF Address
  <2>2. Toggle(c, m) = IF (c \div b) % 2 = 0 THEN c + b ELSE c - b
    BY <1>2 DEF Toggle
  <2>3. CASE c < b
    <3>1. c \div b = 0
      BY <2>1, <2>3
    <3> QED
      BY <2>1, <2>2, <2>3, <3>1 DEF Address
  <2>4. CASE c >= b
    <3>1. c \div b = 1
      BY <2>1, <2>4
    <3> QED
      BY <2>1, <2>2, <2>4, <3>1 DEF Address
  <2> QED
    BY <2>1, <2>3, <2>4
<1>3. CASE m = 3
  <2> DEFINE b == 8 * Unit
  <2>1. /\ c \in Nat /\ b \in Nat \ {0} /\ c < 2 * b
        /\ c < 4 * Unit \/ c >= b
    BY <1>3 DEF Address
  <2>2. Toggle(c, m) = IF (c \div b) % 2 = 0 THEN c + b ELSE c - b
    BY <1>3 DEF Toggle
  <2>3. CASE c < 4 * Unit
    BY <2>1, <2>2, <2>3, c \div b = 0 DEF Address
  <2>4. CASE c >= b
    BY <2>1, <2>2, <2>4, c \div b = 1 DEF Address
  <2> QED
    BY <2>1, <2>3, <2>4
<1>4. CASE m > 3
  BY <1>4 DEF Toggle
<1> QED
  BY <1>1, <1>2, <1>3, <1>4 DEF Mirroring, HeaderMirroring

(* A store from such an address changes no colour.                          *)
LEMMA PokeKeepsPalette ==
  ASSUME NEW r \in [Address -> Byte], NEW c \in Address, NEW m \in Mirroring,
         NEW d \in Byte, m \notin OutOfSpace, c < 12 * Unit,
         m = 2 => c \notin 8 * Unit .. 12 * Unit - 1,
         m = 3 => c \notin 4 * Unit .. 8 * Unit - 1
  PROVE  \A a \in PalBase .. AddrSpace - 1 : Poke(r, c, m, d)[a] = r[a]
<1>1. Toggle(c, m) \in Address /\ Toggle(c, m) < 12 * Unit
  BY ImageBelowPalette
<1>2. ASSUME NEW e \in Address, e < 12 * Unit
      PROVE  RealAddr(e) = e /\ e < PalBase
  BY <1>2, RealAddrFacts DEF Address
<1>3. \A a \in PalBase .. AddrSpace - 1 : a \in Address /\ a # c /\ a # Toggle(c, m)
  BY <1>1, <1>2 DEF Address
<1> QED
  BY <1>1, <1>2, <1>3 DEF Poke

(* What a step does to PPU RAM: nothing, or one store through $2007.        *)
LEMMA RamStep ==
  ASSUME TypeOK, [Next]_vars
  PROVE  /\ Masked \in Address
         /\ \/ ram' = ram
            \/ /\ bus.reg = DATA /\ bus.data \in Byte
               /\ mirroring \notin OutOfSpace
               /\ ram' = Poke(ram, Masked, mirroring, bus.data)
               /\ mirroring' = mirroring
<1>1. Masked \in Address
  BY MaskedType
<1>2. ASSUME NEW reg, PpuRead(reg) PROVE ram' = ram
  BY <1>2 DEF PpuRead, ReadStatus, ReadData, ReadOther
<1>3. CASE StoreWrite
  <2>1. bus.data \in Byte
    BY <1>3 DEF StoreWrite, TypeOK, Pending
  <2> QED
    BY <1>1, <1>3, <2>1
       DEF StoreWrite, PpuWrite, WriteCtrl, WriteAddr, WriteData, WriteMirroring,
           WriteIgnored
<1>4. CASE Cycle \/ UNCHANGED vars
  BY <1>1, <1>4 DEF Cycle, vars
<1> QED
  BY <1>1, <1>2, <1>3, <1>4 DEF Next, Load, StoreRead

(* The mirroring the nametables are paired by is the header's as long as    *)
(* the program has stored none of its own.                                  *)
LoaderMirroring == fixed => mirroring \in HeaderMirroring

(* Mirrored nametables hold the same bytes in every reachable state, for    *)
(* every layout and program, as long as the mirroring is the loader's:      *)
(* ppu_write's case 7 keeps the pair, whatever run of stores crosses it.    *)
THEOREM PairsKept == HSpec => []NametablesPaired
<1>1. HInit => NametablesPaired /\ LoaderMirroring
  <2> SUFFICES ASSUME HInit, NEW a \in Nametables
               PROVE  ram[a] = ram[Toggle(a, mirroring)]
    BY DEF NametablesPaired, LoaderMirroring, HInit, Init
  <2>1. mirroring \in HeaderMirroring /\ ram = [x \in Address |-> 0]
    BY DEF HInit, Init
  <2>2. a \in Address
    BY DEF Nametables, NametableBase, Address
  <2> QED
    BY <2>1, <2>2, ToggleFacts
<1>2. /\ TypeOK /\ NametablesPaired /\ LoaderMirroring /\ [HNext]_historyVars
      => NametablesPaired' /\ LoaderMirroring'
  <2> SUFFICES ASSUME TypeOK, NametablesPaired, LoaderMirroring, [HNext]_historyVars,
                      fixed'
               PROVE  /\ \A a \in Nametables : ram'[a] = ram'[Toggle(a, mirroring')]
                      /\ mirroring' \in HeaderMirroring
    BY DEF NametablesPaired, LoaderMirroring
  <2>1. [Next]_vars
    BY HistorySteps
  <2>2. fixed /\ mirroring' = mirroring
    <3>1. CASE HStoreWrite
      BY <3>1 DEF HStoreWrite, StoreWrite, PpuWrite, WriteCtrl, WriteAddr, WriteData,
                  WriteIgnored
    <3>2. ASSUME NEW reg, PpuRead(reg) PROVE mirroring' = mirroring
      BY <3>2 DEF PpuRead, ReadStatus, ReadData, ReadOther
    <3> QED
      BY <3>1, <3>2 DEF HNext, HLoad, HStoreRead, HCycle, Load, StoreRead, Cycle,
                        historyVars, vars
  <2>5. mirroring \in HeaderMirroring
    BY <2>2 DEF LoaderMirroring
  <2>3. CASE ram' = ram
    BY <2>2, <2>3, <2>5 DEF NametablesPaired
  <2>4. CASE ram' = Poke(ram, Masked, mirroring, bus.data) /\ bus.data \in Byte
    BY <2>1, <2>2, <2>4, <2>5, RamStep, PokeKeepsPairs DEF NametablesPaired, TypeOK
  <2> QED
    BY <2>1, <2>3, <2>4, RamStep
<1> QED
  BY <1>1, <1>2, HTypeCorrect, PTL DEF HSpec

(* Whatever byte $2008 holds, a store from an address that does not reach   *)
(* the palette's block never changes a colour, although ppu_write stores to *)
(* a second cell as well.                                                   *)
THEOREM ColoursKept == HSpec => PaletteKept
<1> DEFINE Kept == Masked \notin ReachesPalette
                     => \A a \in PalBase .. AddrSpace - 1 : ram'[a] = ram[a]
<1>1. TypeOK /\ [HNext]_historyVars => Kept
  <2> SUFFICES ASSUME TypeOK, [HNext]_historyVars, Masked \notin ReachesPalette
               PROVE  \A a \in PalBase .. AddrSpace - 1 : ram'[a] = ram[a]
    OBVIOUS
  <2>1. [Next]_vars
    BY HistorySteps
  <2>2. CASE ram' = ram
    BY <2>2
  <2>3. CASE /\ bus.data \in Byte /\ mirroring \notin OutOfSpace
             /\ ram' = Poke(ram, Masked, mirroring, bus.data)
    <3>1. /\ Masked \in Address /\ Masked < 12 * Unit
          /\ mirroring = 2 => Masked \notin 8 * Unit .. 12 * Unit - 1
          /\ mirroring = 3 => Masked \notin 4 * Unit .. 8 * Unit - 1
      BY <2>1, RamStep DEF ReachesPalette, Address
    <3> QED
      BY <2>3, <3>1, PokeKeepsPalette DEF TypeOK
  <2> QED
    BY <2>1, <2>2, <2>3, RamStep
<1> QED
  BY <1>1, HTypeCorrect, PTL DEF HSpec, PaletteKept

-----------------------------------------------------------------------------
(* A run of accesses uses consecutive cells.                                *)

(* The cell the last access of the run used, or the next one will use.      *)
Reached == IF run.n = 0 THEN 0 ELSE run.n - 1

(* The inductive invariant: the register file knows whether the run has     *)
(* begun, and the masked address is the cell reached.  Between the read and *)
(* the write of a store through $2007 the run has begun.                    *)
RunTracked ==
  /\ run \in [base : Nat, n : Nat]
  /\ ppu_2007_first_read <=> run.n = 0
  /\ Masked = Cell(Reached)
  /\ DataPending => run.n > 0

(* An access after the first one of a run is one increment further on.      *)
LEMMA NextCell ==
  ASSUME TypeOK, RunTracked, run.n > 0
  PROVE  (Masked + step) % AddrSpace = Cell(run.n)
<1> DEFINE k == run.n - 1
<1>1. step \in Nat /\ run.base \in Nat /\ run.n \in Nat /\ k \in Nat /\ run.n = k + 1
  BY DEF TypeOK, RunTracked
<1> HIDE DEF k
<1>2. k * step \in Nat /\ run.n * step = k * step + step
  BY <1>1
<1>3. Masked = (run.base + k * step) % AddrSpace
  BY <1>1 DEF RunTracked, Cell, Reached, k
<1>4. (Masked + step) % AddrSpace = ((run.base + k * step) + step) % AddrSpace
  <2>1. run.base + k * step \in Nat /\ AddrSpace \in Nat \ {0}
    BY <1>1, <1>2
  <2> QED
    BY <1>1, <1>3, <2>1, MaskThenAdd
<1>5. (run.base + k * step) + step = run.base + run.n * step
  BY <1>1, <1>2
<1> QED
  BY <1>4, <1>5 DEF Cell

(* The start of a run: the cell reached is the one the run is based on.     *)
LEMMA FirstCell ==
  ASSUME NEW c \in Address, NEW k \in Nat
  PROVE  (c + 0 * k) % AddrSpace = c
<1>1. c \in Nat /\ 0 * k = 0
  BY DEF Address
<1>2. c + 0 * k = c
  BY <1>1
<1>3. c % AddrSpace = c
  BY DEF Address
<1> QED
  BY <1>2, <1>3

(* A run started afresh: what the history variable records agrees with the  *)
(* register file.                                                           *)
LEMMA RunStarts ==
  ASSUME Masked' \in Address, step' \in Nat, run' = [base |-> Masked', n |-> 0],
         ppu_2007_first_read' = TRUE, ~DataPending'
  PROVE  RunTracked'
<1>1. run'.n = 0 /\ run'.base = Masked' /\ Masked' \in Nat
  BY DEF Address
<1>2. Cell(Reached)' = (Masked' + 0 * step') % AddrSpace
  BY <1>1 DEF Cell, Reached
<1>3. Masked' = Cell(Reached)'
  BY <1>2, FirstCell
<1> QED
  BY <1>1, <1>3 DEF RunTracked

(* A step that leaves the run and the address alone.                        *)
LEMMA RunStays ==
  ASSUME RunTracked, Masked' = Masked, step' = step, run' = run,
         ppu_2007_first_read' = ppu_2007_first_read, DataPending' => DataPending
  PROVE  RunTracked'
BY DEF RunTracked, Reached, Cell

(* One access through $2007: the read of a load or of a store.              *)
LEMMA RunMoves ==
  ASSUME TypeOK, RunTracked, ReadData, run' = [run EXCEPT !.n = @ + 1]
  PROVE  RunTracked'
<1>1. /\ run \in [base : Nat, n : Nat] /\ run' \in [base : Nat, n : Nat]
      /\ run'.base = run.base /\ run'.n = run.n + 1 /\ run'.n > 0
  BY DEF RunTracked
<1>2. step' = step /\ ppu_2007_first_read' = FALSE
  BY DEF ReadData
<1>3. Masked' = IF run.n = 0 THEN Masked ELSE (Masked + step) % AddrSpace
  BY MaskedType DEF ReadData, Masked, RunTracked
<1>4. Reached' = run.n
  BY <1>1 DEF Reached
<1>5. Cell(Reached)' = Cell(run.n)
  BY <1>1, <1>2, <1>4 DEF Cell
<1>6. Masked' = Cell(run.n)
  <2>1. CASE run.n = 0
    BY <1>3, <2>1 DEF RunTracked, Reached
  <2>2. CASE run.n # 0
    BY <1>1, <1>3, <2>2, NextCell
  <2> QED
    BY <2>1, <2>2
<1> QED
  BY <1>1, <1>2, <1>5, <1>6 DEF RunTracked

(* The read of a load or of a store, and the write of a store.              *)
LEMMA ReadTracked ==
  ASSUME TypeOK, RunTracked, TypeOK', NEW reg \in Register, PpuRead(reg), Read(reg),
         DataPending' => reg = DATA
  PROVE  RunTracked'
<1>1. Masked' \in Address /\ step' \in Nat
  BY MaskInRange DEF TypeOK, Masked, Word
<1>2. CASE reg = STATUS /\ ReadStatus
  <2>1. Masked' = Masked
    BY <1>2, MaskedType DEF ReadStatus, Masked
  <2>2. run' = [base |-> Masked', n |-> 0] /\ ~DataPending'
    BY <1>2, <2>1 DEF Read, STATUS, DATA
  <2> QED
    BY <1>1, <1>2, <2>2, RunStarts DEF ReadStatus
<1>3. CASE reg = DATA /\ ReadData
  <2>1. run' = [run EXCEPT !.n = @ + 1]
    BY <1>3 DEF Read, STATUS, DATA
  <2> QED
    BY <1>3, <2>1, RunMoves
<1>4. CASE reg \notin {STATUS, DATA} /\ ReadOther
  <2>1. Masked' = Masked
    BY <1>4, MaskedType DEF ReadOther, Masked
  <2>2. run' = run
    BY <1>4 DEF Read
  <2> QED
    BY <1>4, <2>1, <2>2, RunStays DEF ReadOther, latches
<1> QED
  BY <1>2, <1>3, <1>4 DEF PpuRead

LEMMA WriteTracked ==
  ASSUME TypeOK, RunTracked, TypeOK', HStoreWrite
  PROVE  RunTracked'
<1> DEFINE d == bus.data
<1>1. Masked' \in Address /\ step' \in Nat /\ ~DataPending'
  BY MaskInRange DEF TypeOK, Masked, Word, HStoreWrite, StoreWrite, DataPending, Idle, DATA
<1>2. CASE bus.reg = CTRL /\ ready /\ WriteCtrl(d)
  <2>1. Masked' = Masked /\ ppu_2007_first_read' = ppu_2007_first_read
    BY <1>2, MaskedType DEF WriteCtrl, Masked, latches
  <2>2. run' = [base |-> Masked, n |-> IF run.n = 0 THEN 0 ELSE 1]
    BY <1>2 DEF HStoreWrite, CTRL, ADDR
  <2>3. Reached' = 0
    BY <2>2 DEF Reached
  <2>4. Cell(Reached)' = (Masked' + 0 * step') % AddrSpace
    BY <2>1, <2>2, <2>3 DEF Cell
  <2>5. Masked' = Cell(Reached)'
    BY <1>1, <2>4, FirstCell
  <2>6. run' \in [base : Nat, n : Nat] /\ (run'.n = 0 <=> run.n = 0)
    BY <1>1, <2>1, <2>2 DEF Address
  <2> QED
    BY <1>1, <2>1, <2>5, <2>6 DEF RunTracked
<1>3. CASE bus.reg = ADDR /\ ready /\ WriteAddr(d)
  <2>1. run' = [base |-> Masked', n |-> 0]
    BY <1>3 DEF HStoreWrite, Masked, ADDR, CTRL
  <2> QED
    BY <1>1, <1>3, <2>1, RunStarts DEF WriteAddr
<1>4. CASE \/ bus.reg = DATA /\ WriteData(d)
           \/ bus.reg = MIRROR /\ WriteMirroring(d)
           \/ /\ bus.reg \in {STATUS, MISC} \/ (bus.reg \in {CTRL, ADDR} /\ ~ready)
              /\ WriteIgnored
  <2>1. Masked' = Masked
    BY <1>4, MaskedType DEF WriteData, WriteMirroring, WriteIgnored, Masked
  <2>2. run' = run
    BY <1>4 DEF HStoreWrite, DATA, MIRROR, STATUS, MISC, CTRL, ADDR
  <2>3. step' = step /\ ppu_2007_first_read' = ppu_2007_first_read
    BY <1>4 DEF WriteData, WriteMirroring, WriteIgnored, latches
  <2> QED
    BY <1>1, <2>1, <2>2, <2>3, RunStays
<1> QED
  BY <1>2, <1>3, <1>4 DEF HStoreWrite, StoreWrite, PpuWrite

LEMMA RunInvariant == HSpec => []RunTracked
<1>1. HInit => RunTracked
  <2> SUFFICES ASSUME HInit PROVE RunTracked
    OBVIOUS
  <2>1. run = [base |-> 0, n |-> 0] /\ ppu_2007_first_read = TRUE /\ ~DataPending
    BY DEF HInit, Init, DataPending, Idle, DATA
  <2>2. Masked = 0 /\ 0 \in Address
    BY DEF HInit, Init, Masked, Address
  <2>3. Cell(Reached) = (0 + 0 * step) % AddrSpace /\ step \in Nat
    BY <2>1 DEF Cell, Reached, HInit, Init
  <2> QED
    BY <2>1, <2>2, <2>3, FirstCell DEF RunTracked
<1>2. RunTracked /\ TypeOK /\ TypeOK' /\ [HNext]_historyVars => RunTracked'
  <2> SUFFICES ASSUME RunTracked, TypeOK, TypeOK', [HNext]_historyVars
               PROVE  RunTracked'
    OBVIOUS
  <2>1. ASSUME NEW reg \in {STATUS, DATA, MISC}, HLoad(reg) PROVE RunTracked'
    <3>1. reg \in Register /\ ~DataPending'
      BY <2>1 DEF HLoad, Load, Register, DataPending, Idle, DATA
    <3> QED
      BY <2>1, <3>1, ReadTracked DEF HLoad, Load
  <2>2. ASSUME NEW reg \in Register, NEW d \in StoreData[reg], HStoreRead(reg, d)
        PROVE  RunTracked'
    <3>1. DataPending' => reg = DATA
      BY <2>2 DEF HStoreRead, StoreRead, DataPending
    <3> QED
      BY <2>2, <3>1, ReadTracked DEF HStoreRead, StoreRead
  <2>3. CASE HStoreWrite
    BY <2>3, WriteTracked
  <2>4. CASE HCycle \/ UNCHANGED historyVars
    BY <2>4, RunStays DEF HCycle, Cycle, latches, historyVars, vars, Masked, DataPending
  <2> QED
    BY <2>1, <2>2, <2>3, <2>4 DEF HNext
<1> QED
  BY <1>1, <1>2, HTypeCorrect, PTL DEF HSpec

(* Whatever a program does between them, the accesses of a run land on      *)
(* consecutive cells one increment apart: the increment-on-read of          *)
(* ppu_read and the extra read of a store in translate.c never skip a cell  *)
(* or use one twice, and the timer between the two changes nothing.         *)
THEOREM AccessesInSequence == HSpec => AccessSequence
<1>1. /\ TypeOK /\ RunTracked /\ [HNext]_historyVars
      => /\ (DataPending /\ bus' = Idle)
               => ram' = Poke(ram, Cell(run.n - 1), mirroring, bus.data)
         /\ (bus = Idle /\ bus' = Idle /\ run'.n = run.n + 1)
               => op_value' = Peek(ram, Cell(IF run.n = 0 THEN 0 ELSE run.n - 1))
  <2> SUFFICES ASSUME TypeOK, RunTracked, [HNext]_historyVars
      PROVE  /\ (DataPending /\ bus' = Idle)
                   => ram' = Poke(ram, Cell(run.n - 1), mirroring, bus.data)
             /\ (bus = Idle /\ bus' = Idle /\ run'.n = run.n + 1)
                   => op_value' = Peek(ram, Cell(Reached))
    BY DEF Reached
  <2>1. Masked = Cell(Reached) /\ run.n \in Nat
    BY DEF RunTracked
  <2>2. ASSUME DataPending, bus' = Idle
        PROVE  ram' = Poke(ram, Cell(run.n - 1), mirroring, bus.data)
    <3>1. bus # Idle /\ run.n > 0 /\ Reached = run.n - 1
      BY <2>2, <2>1 DEF DataPending, Idle, DATA, RunTracked, Reached
    <3>2. HStoreWrite
      BY <2>2, <3>1 DEF HNext, HLoad, HStoreRead, HCycle, Load, StoreRead, Cycle,
                        historyVars, vars
    <3>3. WriteData(bus.data)
      BY <2>2, <3>2 DEF HStoreWrite, StoreWrite, PpuWrite, DataPending, DATA, CTRL, ADDR,
                        MIRROR, STATUS, MISC
    <3> QED
      BY <2>1, <3>1, <3>3 DEF WriteData
  <2>3. ASSUME bus = Idle, bus' = Idle, run'.n = run.n + 1
        PROVE  op_value' = Peek(ram, Cell(Reached))
    <3>1. run' # run
      BY <2>1, <2>3
    <3>2. PICK reg \in {STATUS, DATA, MISC} : HLoad(reg)
      <4>1. \A reg, d : ~HStoreRead(reg, d) \/ reg \notin Register
        BY <2>3 DEF HStoreRead, StoreRead, Idle, Register, CTRL, STATUS, MISC, ADDR,
                    DATA, MIRROR
      <4> QED
        BY <2>3, <3>1, <4>1 DEF HNext, HStoreWrite, StoreWrite, HCycle, historyVars
    <3>3. reg = DATA
      <4>1. CASE reg = STATUS
        BY <2>1, <2>3, <3>2, <4>1 DEF HLoad, Read, STATUS, DATA
      <4>2. CASE reg = MISC
        BY <2>1, <2>3, <3>2, <4>2, <3>1 DEF HLoad, Read, STATUS, DATA, MISC
      <4> QED
        BY <4>1, <4>2
    <3> QED
      BY <2>1, <3>2, <3>3 DEF HLoad, Load
  <2> QED
    BY <2>2, <2>3
<1> QED
  BY <1>1, RunInvariant, HTypeCorrect, PTL DEF HSpec, AccessSequence

=============================================================================
