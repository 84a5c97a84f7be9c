------------------------------- MODULE DataPort -------------------------------
(***************************************************************************)
(* What the PPU's address and data registers promise a program, one        *)
(* instruction at a time.  The program positions a cursor with two         *)
(* accepted writes to $2006; the first access through $2007 uses the cell  *)
(* under the cursor, a later store moves the cursor and then uses the      *)
(* cell, and a later load uses the cell and then moves the cursor.  A read *)
(* of $2002 forgets a half-written position and makes the next access a    *)
(* first one.  PpuPort implements this over the bus accesses of nesppu.c.  *)
(***************************************************************************)
EXTENDS PpuMemory

CONSTANTS
  PageSize,    (* values of one byte: 0x100                                 *)
  BigStep,     (* the increment of PPUCTRL bit 2: 32                        *)
  NoByte       (* not a byte: no high byte is waiting for its low byte      *)

Byte == 0 .. PageSize - 1

VARIABLES
  awake,       (* the PPU accepts $2000, $2001 and $2006                    *)
  cursor,      (* the cell the next first access uses                       *)
  fresh,       (* no access since the cursor was positioned                 *)
  half,        (* the high byte waiting for its low byte, or NoByte         *)
  stride,      (* the increment in force                                    *)
  pairing,     (* the mirroring byte in force                               *)
  mem,         (* PPU RAM                                                   *)
  answer       (* what the last load through $2007 returned                 *)

dpVars == <<awake, cursor, fresh, half, stride, pairing, mem, answer>>

Next1 == (cursor + stride) % AddrSpace

DPInit ==
  /\ awake = FALSE
  /\ cursor = 0
  /\ fresh = TRUE
  /\ half = NoByte
  /\ stride = 1
  /\ pairing \in HeaderMirroring
  /\ mem \in [Address -> Byte]
  /\ answer = 0

Wake ==
  /\ awake' = TRUE
  /\ UNCHANGED <<cursor, fresh, half, stride, pairing, mem, answer>>

HighByte(b) ==
  /\ awake /\ half = NoByte
  /\ half' = b
  /\ fresh' = TRUE
  /\ UNCHANGED <<awake, cursor, stride, pairing, mem, answer>>

LowByte(b) ==
  /\ awake /\ half # NoByte
  /\ cursor' = (half * PageSize + b) % AddrSpace
  /\ half' = NoByte
  /\ fresh' = TRUE
  /\ UNCHANGED <<awake, stride, pairing, mem, answer>>

Forget ==
  /\ half' = NoByte
  /\ fresh' = TRUE
  /\ UNCHANGED <<awake, cursor, stride, pairing, mem, answer>>

SetStride(s) ==
  /\ awake
  /\ stride' = s
  /\ UNCHANGED <<awake, cursor, fresh, half, pairing, mem, answer>>

SetPairing(m) ==
  /\ pairing' = m
  /\ UNCHANGED <<awake, cursor, fresh, half, stride, mem, answer>>

Put(d) ==
  LET cell == IF fresh THEN cursor ELSE Next1
  IN  /\ mem' = Poke(mem, cell, pairing, d)
      /\ cursor' = cell
      /\ fresh' = FALSE
      /\ UNCHANGED <<awake, half, stride, pairing, answer>>

Get ==
  /\ answer' = Peek(mem, cursor)
  /\ cursor' = IF fresh THEN cursor ELSE Next1
  /\ fresh' = FALSE
  /\ UNCHANGED <<awake, half, stride, pairing, mem>>

DPNext ==
  \/ Wake
  \/ Forget
  \/ Get
  \/ \E b \in Byte : HighByte(b) \/ LowByte(b) \/ Put(b)
  \/ \E s \in {1, BigStep} : SetStride(s)
  \/ \E m \in Mirroring : SetPairing(m)

DPSpec == DPInit /\ [][DPNext]_dpVars

=============================================================================
