------------------------------ MODULE MemoryLoops ------------------------------
(***************************************************************************)
(* What the addressing modes are for: the loops by which programs of this  *)
(* processor copy a page, fill one, follow a table of pointers, and jump   *)
(* through a pointer, over the modes of Address6502; X stands for the index *)
(* register, be it X or Y.                                                 *)
(*                                                                         *)
(*  copy:   LDY #0 ; l: LDA (s),Y ; STA (d),Y ; INY ; BNE l                *)
(*  fillx:  LDX #0 ; l: LDA #k ; STA d,X ; INX ; BNE l                     *)
(*  filly:  the same with Y; fillz: the same with STA d,X in the zero page *)
(*  gather: LDX #0 ; l: LDA (s,X) ; STA d,X ; INX ; INX ; BNE l            *)
(*  jump:   LDA #low ; STA d ; LDA #high ; STA d+1 ; JMP (d)               *)
(***************************************************************************)
EXTENDS Program6502

INSTANCE Address6502 WITH Page <- Size

CONSTANTS
  Image,      (* what memory holds before                                   *)
  Pointers    (* the zero-page operands of a copy: [s, d]                   *)

PointerAt(n) == {n, (n + 1) % Size}

(* A copy's two pointers are kept apart.                                    *)
ASSUME ImageAssumption ==
  /\ Image \in [Cells -> Byte]
  /\ Pointers \subseteq [s : Byte, d : Byte]
  /\ \A p \in Pointers : PointerAt(p.s) \cap PointerAt(p.d) = {}

VARIABLES
  mem,
  s, d,           (* the operands in the listing                            *)
  from, to,       (* where a copy's pointers point; to: where a jump should *)
  start,          (* memory before the loop                                 *)
  landed          (* where the jump went                                    *)

operands == <<s, d, from, to, start>>
memoryVars == <<mem, operands, landed>>

Addresses == 0 .. Space - 1
Fills == {"fillx", "filly", "fillz"}
Loops == Fills \cup {"copy", "gather", "jump"}
Filler == Size - 1

PageAt(w) == {(w + i) % Space : i \in Byte}

WithPointer(m, n, w) == [m EXCEPT ![n] = w % Size, ![(n + 1) % Size] = w \div Size]

(* A copy's pages hold neither of its pointers, nor a gathering's output    *)
(* its table, which is the whole zero page.                                 *)
LoopInit ==
  /\ Start(Loops, IF program = "jump" THEN "low" ELSE "count")
  /\ left = Nothing /\ right = Nothing
  /\ from \in IF program = "copy" THEN Addresses ELSE {0}
  /\ to \in IF program \in {"copy", "jump"} THEN Addresses ELSE {0}
  /\ \/ program = "copy" /\ \E p \in Pointers : s = p.s /\ d = p.d
     \/ program = "gather" /\ s \in Byte /\ d \in Size .. Space - 1
     \/ program = "fillz" /\ s = 0 /\ d \in Byte
     \/ program \in {"fillx", "filly", "jump"} /\ s = 0 /\ d \in Addresses
  /\ program = "copy" => PageAt(to) \cap (PointerAt(s) \cup PointerAt(d)) = {}
  /\ start = IF program = "copy"
             THEN WithPointer(WithPointer(Image, s, from), d, to)
             ELSE Image
  /\ mem = start
  /\ landed = 0

-----------------------------------------------------------------------------
StoreAt(a) == STA /\ mem' = [mem EXCEPT ![a] = M']

ClearIndex ==
  /\ Go("count", "load") /\ LDX(0)
  /\ UNCHANGED memoryVars

Fetch ==
  /\ Go("load", "store")
  /\ LDA(CASE program = "copy" -> mem[IndirectY(mem, s, X)]
           [] program = "gather" -> mem[IndirectX(mem, s, X)]
           [] OTHER -> Filler)
  /\ UNCHANGED memoryVars

StoreIndexed ==
  /\ Go("store", IF program = "gather" THEN "skip" ELSE "next")
  /\ StoreAt(CASE program = "copy" -> IndirectY(mem, d, X)
             [] program = "filly" -> AbsoluteY(d, X)
             [] program = "fillz" -> ZeroPageX(d, X)
             [] OTHER -> AbsoluteX(d, X))
  /\ UNCHANGED <<operands, landed>>

CountUp ==
  /\ \/ (Go("skip", "next") \/ Go("next", "branch")) /\ INX
     \/ GoIf("branch", "BNE", "load", "done")
  /\ UNCHANGED memoryVars

LoadHalf ==
  /\ \/ Go("low", "storelow") /\ LDA(to % Size)
     \/ Go("high", "storehigh") /\ LDA(to \div Size)
  /\ UNCHANGED memoryVars

StoreHalf ==
  /\ \/ Go("storelow", "high") /\ StoreAt(d)
     \/ Go("storehigh", "jump") /\ StoreAt((d + 1) % Space)
  /\ UNCHANGED <<operands, landed>>

JMP ==
  /\ Go("jump", "done")
  /\ landed' \in Indirect(mem, d)
  /\ UNCHANGED <<vars, mem, operands>>

LoopNext ==
  /\ program \in Loops
  /\ \/ ClearIndex \/ Fetch \/ StoreIndexed \/ CountUp
     \/ LoadHalf \/ StoreHalf \/ JMP

-----------------------------------------------------------------------------
AtHead == at \in {"load", "done"}  (* of a loop                             *)
Done == IF at = "done" THEN Size ELSE X      (* cells the loop has gone past *)

(* Where the loop's turn number i moves a byte from and to.                 *)
Entry(i) == Word(start[(s + i) % Size], start[(s + i + 1) % Size])
Source(i) == IF program = "copy" THEN (from + i) % Space ELSE Entry(i)
Target(i) == IF program = "copy" THEN (to + i) % Space ELSE d + i

(* Memory once the turns before n have moved theirs, one after the other; a *)
(* gathering has every second turn only.                                    *)
Moved[n \in 0 .. Size] ==
  IF n = 0 THEN start
  ELSE IF program = "gather" /\ n % 2 = 0 THEN Moved[n - 1]
  ELSE [Moved[n - 1] EXCEPT ![Target(n - 1)] = Moved[n - 1][Source(n - 1)]]

(* A copy through two pointers moves its page byte by byte, whether or not  *)
(* the pages overlap, cross a page or wrap at the top; following a table of *)
(* pointers reads through the word at each of its entries; and either does  *)
(* so whether or not a pointer straddles the end of the zero page           *)
(* (cpu_address_indirect_y, cpu_address_indirect_x).  A fill changes the    *)
(* cells of its page and no other: a page of the zero page is all of it,    *)
(* indexed by Y it wraps at the top of the address space, and indexed by X  *)
(* it goes on above (cpu_address_absolute_x has no mask).                   *)
LoopsMoveBytes ==
  AtHead =>
    /\ program \in {"copy", "gather"} => mem = Moved[Done]
    /\ program \in Fills =>
         LET filled == {CASE program = "fillz" -> (d + i) % Size
                          [] program = "filly" -> (d + i) % Space
                          [] program = "fillx" -> d + i : i \in 0 .. Done - 1}
         IN  mem = [a \in Cells |-> IF a \in filled THEN Filler ELSE start[a]]

(* A jump through a pointer a program has just written lands where it       *)
(* points, unless the pointer straddles two pages.                          *)
JumpLands ==
  at = "done" /\ program = "jump" /\ d % Size # Size - 1 => landed = to

(* "Instead of reading from $C0FF/$C100 it reads from $C0FF/$C000", in      *)
(* cpu_address_indirect: a pointer in the last cell of its page takes its   *)
(* high byte from the first.                                                *)
JumpReadsFirstCell ==
  at = "done" /\ program = "jump" /\ d % Size = Size - 1
    => landed = Word(mem[d], mem[d - (d % Size)])

=============================================================================
