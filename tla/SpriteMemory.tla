----------------------------- MODULE SpriteMemory -----------------------------
(***************************************************************************)
(* Sprite memory: OAMADDR and $2003, $2004 of nesppu.c, and the copy that  *)
(* psg_write of nespsg.c makes on a store to $4014.  The copy is a loop of *)
(* writes to $2004 inside one handler, so nothing comes between them; it   *)
(* reads CPU RAM through a mask of its own.                                *)
(***************************************************************************)
EXTENDS Naturals, Sequences

CONSTANTS
  OamSize,   (* bytes of sprite memory, and of a page: 0x100                *)
  RamPages,  (* pages of CPU RAM the copy can reach: 8                      *)
  Stored,    (* the bytes the program stores                                *)
  Pages,     (* the pages it asks a copy of                                 *)
  Cells      (* the offsets it stores to within a page of RAM               *)

ASSUME OamAssumption ==
  /\ OamSize \in Nat \ {0} /\ RamPages \in Nat \ {0}
  /\ Stored \subseteq Nat
  /\ Pages \subseteq Nat
  /\ Cells \subseteq 0 .. OamSize - 1

Cell == 0 .. OamSize - 1
RamSize == OamSize * RamPages

VARIABLES
  ram,       (* CPU RAM                                                     *)
  oam,       (* sprite memory                                               *)
  OAMADDR,
  bus        (* the store whose write is still to come, or Idle             *)

vars == <<ram, oam, OAMADDR, bus>>

Idle == [reg |-> "none", data |-> 0]
Pending == [reg : {"addr"}, data : Cell] \cup [reg : {"data"}, data : Stored]
             \cup [reg : {"dma"}, data : Pages]

TypeOK ==
  /\ ram \in [0 .. RamSize - 1 -> Stored \cup {0}]
  /\ oam \in [Cell -> Stored \cup {0}]
  /\ OAMADDR \in Cell
  /\ bus \in Pending \cup {Idle}

Init ==
  /\ ram = [a \in 0 .. RamSize - 1 |-> 0]
  /\ oam = [a \in Cell |-> 0]
  /\ OAMADDR = 0
  /\ bus = Idle

-----------------------------------------------------------------------------
(* ppu_write on $2004, as a function on sprite memory and its address.      *)
Deliver(s, byte) ==
  [oam |-> [s.oam EXCEPT ![s.addr] = byte], addr |-> (s.addr + 1) % OamSize]

(* cpu_ram_read: the mask keeps the copy within RamPages pages, whatever    *)
(* page the program asked for.                                              *)
PageByte(page, i) == ram[(OamSize * page + i) % RamSize]

(* Slip: the loop stops one byte early.                                     *)
CopiedButOne(page) ==
  LET after[n \in 0 .. OamSize] ==
        IF n = 0 THEN [oam |-> oam, addr |-> OAMADDR]
        ELSE Deliver(after[n - 1], PageByte(page, n - 1))
  IN  after[OamSize - 1]

(* The loop of psg_write on $4014: n writes to $2004.                       *)
Copied(page) ==
  LET after[n \in 0 .. OamSize] ==
        IF n = 0 THEN [oam |-> oam, addr |-> OAMADDR]
        ELSE Deliver(after[n - 1], PageByte(page, n - 1))
  IN  after[OamSize]

-----------------------------------------------------------------------------
(* The read before a store's write changes nothing here: a read of $2004    *)
(* does not move OAMADDR, and $2003 and $4014 do not answer reads.          *)
StoreRead ==
  /\ bus = Idle
  /\ bus' \in Pending
  /\ UNCHANGED <<ram, oam, OAMADDR>>

WriteOamAddr ==
  /\ bus.reg = "addr"
  /\ OAMADDR' = bus.data
  /\ bus' = Idle
  /\ UNCHANGED <<ram, oam>>

(* Slip: a single store does not move OAMADDR.                              *)
WriteOamDataInPlace ==
  /\ bus.reg = "data"
  /\ oam' = [oam EXCEPT ![OAMADDR] = bus.data]
  /\ bus' = Idle
  /\ UNCHANGED <<ram, OAMADDR>>

WriteOamData ==
  /\ bus.reg = "data"
  /\ LET s == Deliver([oam |-> oam, addr |-> OAMADDR], bus.data)
     IN  oam' = s.oam /\ OAMADDR' = s.addr
  /\ bus' = Idle
  /\ UNCHANGED ram

WriteDma ==
  /\ bus.reg = "dma"
  /\ oam' = Copied(bus.data).oam
  /\ OAMADDR' = Copied(bus.data).addr
  /\ bus' = Idle
  /\ UNCHANGED ram

StoreRam ==
  /\ bus = Idle
  /\ \E page \in Pages, c \in Cells, d \in Stored :
       /\ page < RamPages
       /\ ram' = [ram EXCEPT ![OamSize * page + c] = d]
  /\ UNCHANGED <<oam, OAMADDR, bus>>

Next == StoreRead \/ WriteOamAddr \/ WriteOamData \/ WriteDma \/ StoreRam

Spec == Init /\ [][Next]_vars

-----------------------------------------------------------------------------
(* A copy rotates the page by OAMADDR, leaves no byte of the old contents,  *)
(* and ends where it started: a game that leaves OAMADDR off zero sees      *)
(* every sprite shifted, and one that copies every frame need not set it.   *)
CopyRotates ==
  [][bus.reg = "dma" /\ bus' = Idle
       => /\ OAMADDR' = OAMADDR
          /\ \A i \in Cell :
               oam'[(OAMADDR + i) % OamSize] = PageByte(bus.data, i)]_vars

=============================================================================
