--------------------------- MODULE PpuPortHistory ---------------------------
(***************************************************************************)
(* PpuPort with history variables, for the properties that speak of a run  *)
(* of accesses rather than of one.                                         *)
(***************************************************************************)
EXTENDS PpuPort

CONSTANT MaxAccesses   (* bound: accesses through $2007 in one behaviour *)

VARIABLES
  run,         (* the cell the run of accesses started at, and their number *)
  accesses,    (* accesses through $2007 so far                             *)
  fixed        (* the mirroring is still the loader's                       *)

historyVars == <<vars, run, accesses, fixed>>

HInit ==
  /\ Init
  /\ run = [base |-> 0, n |-> 0]
  /\ accesses = 0
  /\ fixed = TRUE

(* A read of $2002 starts a new run at the same cell.                       *)
Read(reg) ==
  /\ reg = DATA => accesses < MaxAccesses
  /\ accesses' = IF reg = DATA THEN accesses + 1 ELSE accesses
  /\ run' = CASE reg = DATA -> [run EXCEPT !.n = @ + 1]
              [] reg = STATUS -> [base |-> Masked, n |-> 0]
              [] OTHER -> run

HLoad(reg) == Load(reg) /\ Read(reg) /\ UNCHANGED fixed

HStoreRead(reg, d) == StoreRead(reg, d) /\ Read(reg) /\ UNCHANGED fixed

(* So does an accepted write to $2006; a change of the increment keeps the  *)
(* cell the last access used.                                               *)
HStoreWrite ==
  /\ StoreWrite
  /\ run' = CASE bus.reg = ADDR /\ ready ->
                   [base |-> PPUADDR' % AddrSpace, n |-> 0]
              [] bus.reg = CTRL /\ ready ->
                   [base |-> Masked, n |-> IF run.n = 0 THEN 0 ELSE 1]
              [] OTHER -> run
  /\ fixed' = (fixed /\ bus.reg # MIRROR)
  /\ UNCHANGED accesses

HCycle == Cycle /\ UNCHANGED <<run, accesses, fixed>>

HNext ==
  \/ \E reg \in {STATUS, DATA, MISC} : HLoad(reg)
  \/ \E reg \in Register : \E d \in StoreData[reg] : HStoreRead(reg, d)
  \/ HStoreWrite
  \/ HCycle

HSpec == HInit /\ [][HNext]_historyVars

-----------------------------------------------------------------------------
(* The cell k increments after the start of the run.                        *)
Cell(k) == (run.base + k * step) % AddrSpace

(* After a program positions the address, its k-th access through $2007     *)
(* lands k - 1 increments on if it is a store, and k - 2 (the first two     *)
(* both at the start) if it is a load: the extra read of each store in      *)
(* translate.c does the increment that case 7 of ppu_write leaves out.      *)
AccessSequence ==
  [][/\ (DataPending /\ bus' = Idle)
          => ram' = Poke(ram, Cell(run.n - 1), mirroring, bus.data)
     /\ (bus = Idle /\ bus' = Idle /\ run'.n = run.n + 1)
          => op_value' = Peek(ram, Cell(IF run.n = 0 THEN 0 ELSE run.n - 1))
    ]_historyVars

(* As long as nobody changes the mirroring, each nametable and the one it   *)
(* is paired with hold the same bytes, so that the renderer may fetch a     *)
(* tile from either: case 7 of ppu_write stores to both.                    *)
NametablesPaired ==
  fixed => \A a \in Nametables : ram[a] = ram[Toggle(a, mirroring)]

(* The addresses a store can reach the palette's block of four              *)
(* nametable-sized blocks from: its own and, under a mirroring no header    *)
(* asks for, the nametables (2) or the second pattern table (3).            *)
ReachesPalette ==
  12 * Unit .. AddrSpace - 1
    \cup CASE mirroring = 2 -> 8 * Unit .. 12 * Unit - 1
           [] mirroring = 3 -> 4 * Unit .. 8 * Unit - 1
           [] OTHER -> {}

(* Whatever byte a program has stored to $2008, and although each store     *)
(* through $2007 also writes a second cell, a store from anywhere else      *)
(* never changes a colour; under a header's mirroring that is every store   *)
(* below the palette's block.                                               *)
PaletteKept ==
  [][Masked \notin ReachesPalette
       => \A a \in PalBase .. AddrSpace - 1 : ram'[a] = ram[a]]_historyVars

=============================================================================
