----------------------------- MODULE ConsoleProofs -----------------------------
(***************************************************************************)
(* The machine with a cartridge in it, for every image, every size of the  *)
(* devices and every bound on presses, handlers and resets.  Everything    *)
(* put on the bus finds the region it is meant for; what the machine does  *)
(* with the loader's state is the loader's own doing, so that a cartridge  *)
(* is loaded whole and each reset starts its program; a game that has come *)
(* to its main loop hears the picture unit; and its handlers write where   *)
(* they mean to and nowhere else.                                          *)
(***************************************************************************)
EXTENDS Console, SequenceTheorems, TLAPS

-----------------------------------------------------------------------------
(* The bus                                                                  *)

(* The instructions' addresses and the port's, at the sizes they have.      *)
Modes == INSTANCE Address6502 WITH Page <- \h100

PortSpace == INSTANCE PpuMemory WITH
  AddrSpace <- \h4000, Unit <- \h400, PalBase <- \h3F00, PalSize <- \h20,
  PalGroup <- 4

BusByte == Bus!Bytes(0, \h100)
BusWord == Bus!Bytes(0, \h10000)

(* No two regions share an address: the order in which atmega_realize adds  *)
(* them does not matter.                                                    *)
THEOREM RegionsApart ==
  ASSUME NEW r \in Bus!Region, NEW s \in Bus!Region, NEW a \in Nat,
         Bus!Maps(r, a), Bus!Maps(s, a)
  PROVE  r = s
BY DEF Bus!Region, Bus!Maps, Bus!Start, Bus!Size, Bus!PpuWindow, Bus!PsgWindow,
       Bus!FbWindow

LEMMA RegionFound ==
  ASSUME NEW r \in Bus!Region, NEW a \in Nat, Bus!Maps(r, a)
  PROVE  Bus!RegionOf(a) = r
<1>1. Bus!RegionOf(a) \in Bus!Region /\ Bus!Maps(Bus!RegionOf(a), a)
  BY DEF Bus!RegionOf
<1> QED
  BY <1>1, RegionsApart

(* A word and an index reach no further than the memory behind the address  *)
(* space.                                                                   *)
LEMMA CellsInside ==
  ASSUME NEW a \in Nat, a < \h10000 + \h100
  PROVE  Bus!RegionOf(a) \in Bus!Program
<1>1. \E r \in Bus!Program : Bus!Maps(r, a)
  BY DEF Bus!Program, Bus!Maps, Bus!Start, Bus!Size, Bus!PpuWindow, Bus!PsgWindow,
         Bus!FbWindow
<1> QED
  BY <1>1, RegionFound DEF Bus!Program, Bus!Region

LEMMA PointersAreWords ==
  ASSUME NEW low \in BusByte, NEW high \in BusByte
  PROVE  Modes!Word(low, high) \in Nat
BY DEF Modes!Word, BusByte, Bus!Bytes

LEMMA SpaceIsWords ==
  ASSUME NEW k \in Nat
  PROVE  k % Modes!Space \in Nat /\ k % Modes!Space < \h10000
BY DEF Modes!Space

(* Whatever its operands and whatever its pointers hold, a load or store of *)
(* the processor reaches RAM, a device's registers or the program's memory, *)
(* and never what the devices keep for themselves: the sum with X, which    *)
(* cpu_address_absolute_x leaves unmasked, stays in the memory behind the   *)
(* address space.                                                           *)
THEOREM ProgramStaysInside ==
  ASSUME NEW w \in BusWord, NEW n \in BusByte, NEW x \in BusByte,
         NEW m, \A a \in BusByte : m[a] \in BusByte
  PROVE  /\ Bus!RegionOf(w) \in Bus!Program
         /\ Bus!RegionOf(Modes!ZeroPageX(n, x)) \in Bus!Program
         /\ Bus!RegionOf(Modes!AbsoluteX(w, x)) \in Bus!Program
         /\ Bus!RegionOf(Modes!AbsoluteY(w, x)) \in Bus!Program
         /\ Bus!RegionOf(Modes!IndirectX(m, n, x)) \in Bus!Program
         /\ Bus!RegionOf(Modes!IndirectY(m, n, x)) \in Bus!Program
<1>1. \A k \in Nat : k % \h100 \in BusByte
  BY DEF BusByte, Bus!Bytes
<1>2. w \in Nat /\ w < \h10000 /\ n \in Nat /\ x \in Nat /\ x < \h100
  BY DEF BusWord, BusByte, Bus!Bytes
<1>3. Bus!RegionOf(w) \in Bus!Program
  BY <1>2, CellsInside
<1>4. Bus!RegionOf(Modes!ZeroPageX(n, x)) \in Bus!Program
  <2>1. Modes!ZeroPageX(n, x) \in BusByte
    BY <1>1, <1>2 DEF Modes!ZeroPageX
  <2> QED
    BY <2>1, CellsInside DEF BusByte, Bus!Bytes
<1>5. Bus!RegionOf(Modes!AbsoluteX(w, x)) \in Bus!Program
  BY <1>2, CellsInside DEF Modes!AbsoluteX
<1>6. Bus!RegionOf(Modes!AbsoluteY(w, x)) \in Bus!Program
  BY <1>2, SpaceIsWords, CellsInside DEF Modes!AbsoluteY
<1>7. Bus!RegionOf(Modes!IndirectX(m, n, x)) \in Bus!Program
  <2>1. m[(n + x) % \h100] \in BusByte /\ m[(n + 1 + x) % \h100] \in BusByte
    BY <1>1, <1>2
  <2>2. \A low, high \in BusByte :
          Modes!Word(low, high) \in Nat /\ Modes!Word(low, high) < \h10000
    BY DEF Modes!Word, BusByte, Bus!Bytes
  <2> QED
    BY <2>1, <2>2, CellsInside DEF Modes!IndirectX
<1>8. Bus!RegionOf(Modes!IndirectY(m, n, x)) \in Bus!Program
  <2>1. m[n] \in BusByte /\ m[(n + 1) % \h100] \in BusByte
    BY <1>1, <1>2
  <2>2. Modes!Word(m[n], m[(n + 1) % \h100]) \in Nat
    BY <2>1, PointersAreWords
  <2>3. Modes!Word(m[n], m[(n + 1) % \h100]) + x \in Nat
    BY <1>2, <2>2
  <2> QED
    BY <2>3, SpaceIsWords, CellsInside DEF Modes!IndirectY
<1> QED
  BY <1>3, <1>4, <1>5, <1>6, <1>7, <1>8

(* The mirroring register is behind one address only of those the picture   *)
(* unit answers: a store to $2008 sets it, and so the loader's write, while *)
(* the read that comes with the store is one of PPUCTRL.                    *)
LEMMA MirroringRegister ==
  Bus!RegionOf(\h2008) = "ppu" /\ Bus!PpuWrites(\h2008) = 8 /\ Bus!PpuReads(\h2008) = 0
<1>1. Bus!Maps("ppu", \h2008) /\ \h2008 \in Nat /\ "ppu" \in Bus!Region
  BY DEF Bus!Maps, Bus!Start, Bus!Size, Bus!PpuWindow, Bus!PsgWindow, Bus!FbWindow,
         Bus!Region
<1> QED
  BY <1>1, RegionFound DEF Bus!PpuWrites, Bus!PpuReads, Bus!Start

(* However many pages an image has, the loader's writes stay apart: the     *)
(* pages fill the region of the program's pages, as their base has it, and  *)
(* neither reach the next region nor lie on the program, on the pattern     *)
(* tables or on the reset vector, which is the program's                    *)
(* (mmc_append_chr_rom_page, fce_load_rom).                                 *)
THEOREM LoaderStaysInside ==
  ASSUME NEW n \in 0 .. 255
  PROVE  /\ \A a \in Bus!PageSlot(n) : Bus!RegionOf(a) = "mmc_prg_pages"
         /\ \A a \in Bus!Halves : Bus!RegionOf(a) = "memory"
         /\ \A a \in Bus!Patterns : Bus!RegionOf(a) = "ppu_ram"
         /\ Bus!ResetVector \subseteq Bus!Halves
<1>1. \A a \in Bus!PageSlot(n) : a \in Nat /\ Bus!Maps("mmc_prg_pages", a)
  BY DEF Bus!PageSlot, Bus!Bytes, Bus!Maps, Bus!Start, Bus!Size, Bus!PpuWindow,
         Bus!PsgWindow, Bus!FbWindow
<1>2. \A a \in Bus!Halves : a \in Nat /\ Bus!Maps("memory", a)
  BY DEF Bus!Halves, Bus!Bytes, Bus!Maps, Bus!Start, Bus!Size, Bus!PpuWindow,
         Bus!PsgWindow, Bus!FbWindow
<1>3. \A a \in Bus!Patterns : a \in Nat /\ Bus!Maps("ppu_ram", a)
  BY DEF Bus!Patterns, Bus!Bytes, Bus!Maps, Bus!Start, Bus!Size, Bus!PpuWindow,
         Bus!PsgWindow, Bus!FbWindow
<1>4. Bus!ResetVector \subseteq Bus!Halves
  BY DEF Bus!ResetVector, Bus!Halves, Bus!Bytes
<1>5. {"mmc_prg_pages", "memory", "ppu_ram"} \subseteq Bus!Region
  BY DEF Bus!Region
<1> QED
  BY <1>1, <1>2, <1>3, <1>4, <1>5, RegionFound

(* A store through $2007 stays in the picture unit's memory, its mirror     *)
(* image too, which the code writes for every address (ppu_write): the      *)
(* palette's mirrors are folded below the end and the mirroring bit is one  *)
(* of the address's own, or lost beyond the sixteenth.  In between, where   *)
(* it is the fifteenth or the sixteenth, the code asserts and stops.        *)
THEOREM PortStaysInside ==
  ASSUME NEW a \in PortSpace!Address,
         NEW m \in PortSpace!Mirroring \ PortSpace!OutOfSpace
  PROVE  /\ Bus!RegionOf(Bus!PortAddress(PortSpace!RealAddr(a))) = "ppu_ram"
         /\ Bus!RegionOf(Bus!PortAddress(PortSpace!RealAddr(PortSpace!Toggle(a, m))))
              = "ppu_ram"
<1>1. \A b \in PortSpace!Address : b \in Nat /\ b < \h4000
  BY DEF PortSpace!Address
<1>2. PortSpace!Toggle(a, m) \in Nat /\ PortSpace!Toggle(a, m) < \h4000
  <2>1. CASE m = 0
    BY <1>1, <2>1 DEF PortSpace!Toggle
  <2>2. CASE m = 1
    BY <1>1, <2>2 DEF PortSpace!Toggle
  <2>3. CASE m = 2
    BY <1>1, <2>3 DEF PortSpace!Toggle
  <2>4. CASE m = 3
    BY <1>1, <2>4 DEF PortSpace!Toggle
  <2>5. CASE m = 6
    BY <1>1, <2>5 DEF PortSpace!Toggle
  <2> QED
    BY <2>1, <2>2, <2>3, <2>4, <2>5 DEF PortSpace!Mirroring, PortSpace!OutOfSpace
<1>3. ASSUME NEW b \in Nat, b < \h4000
      PROVE  Bus!RegionOf(Bus!PortAddress(PortSpace!RealAddr(b))) = "ppu_ram"
  <2> DEFINE within == (b - \h3F00) % \h20
  <2>1. within \in Nat /\ within < \h20
    BY <1>3
  <2>2. PortSpace!RealAddr(b) \in Nat /\ PortSpace!RealAddr(b) < \h4000
    BY <1>3, <2>1 DEF PortSpace!RealAddr
  <2>3. /\ Bus!PortAddress(PortSpace!RealAddr(b)) \in Nat
        /\ Bus!Maps("ppu_ram", Bus!PortAddress(PortSpace!RealAddr(b)))
    BY <2>2 DEF Bus!PortAddress, Bus!Maps, Bus!Start, Bus!Size, Bus!PpuWindow,
                Bus!PsgWindow, Bus!FbWindow
  <2> QED
    BY <2>3, RegionFound DEF Bus!Region
<1> QED
  BY <1>1, <1>2, <1>3

(* A copy of any page is of RAM; it is of the page the program has stored   *)
(* its sprites to only if that is one of the first eight.  From there on    *)
(* the copy's mask and the store part, which takes the address as it is     *)
(* (cpu_ram_read; the RAM's mirrors are cells of their own).                *)
THEOREM CopyReadsPage ==
  ASSUME NEW page \in BusByte, NEW i \in BusByte
  PROVE  /\ Bus!RegionOf(Bus!CopyAddress(page, i)) = "cpu_ram"
         /\ Bus!CopyAddress(page, i) = \h100 * page + i <=> page < 8
<1>1. page \in Nat /\ i \in Nat /\ i < \h100
  BY DEF BusByte, Bus!Bytes
<1>2. Bus!CopyAddress(page, i) \in Nat /\ Bus!CopyAddress(page, i) < \h800
  BY <1>1 DEF Bus!CopyAddress
<1>3. Bus!RegionOf(Bus!CopyAddress(page, i)) = "cpu_ram"
  <2>1. Bus!Maps("cpu_ram", Bus!CopyAddress(page, i))
    BY <1>2 DEF Bus!Maps, Bus!Start, Bus!Size, Bus!PpuWindow, Bus!PsgWindow,
                Bus!FbWindow
  <2> QED
    BY <1>2, <2>1, RegionFound DEF Bus!Region
<1>4. CASE page < 8
  BY <1>1, <1>3, <1>4 DEF Bus!CopyAddress
<1>5. CASE page >= 8
  BY <1>1, <1>2, <1>3, <1>5
<1> QED
  BY <1>1, <1>4, <1>5

-----------------------------------------------------------------------------
(* The loader                                                               *)

(* Where the last loaded half of the program came from, and whether the     *)
(* program has stored over it.                                              *)
Loaded(b) == IF Len(image.program) = 0 THEN Zeros ELSE Rom(b)

LastHalf == memory[2] = Loaded(LastBlock) \/ (stores > 0 /\ memory[2] \in Stored)

(* What of the image is where, once the program has been read: the pages    *)
(* one by one, and what only the program's own stores take away again.      *)
Underway ==
  /\ Loadable
  /\ off = 1 + Len(image.program) + Len(chr)
  /\ Len(chr) <= Len(image.pages)
  /\ \A i \in 1 .. Len(chr) : chr[i] = Rom(Len(image.program) + i)
  /\ LastHalf
  /\ stores = 0 => /\ memory[1] = Loaded(1)
                   /\ patterns = IF chr = <<>> THEN None ELSE chr[1]

(* The inductive invariant, by the part of fce_load_rom to come.            *)
LoaderInv ==
  /\ image \in Image /\ held \in Nat /\ stores \in Nat
  /\ off \in Nat /\ chr \in Seq(Pages \cup {Zeros})
  /\ DOMAIN memory = {1, 2}
  /\ loading # "done" => started = Off /\ stores = 0
  /\ loading = "file" => off = 0
  /\ loading = "header" => off = 0
  /\ loading = "program" => off = 1
  /\ loading \in {"file", "header", "program"} => chr = <<>> /\ patterns = None
  /\ loading \in {"pages", "done"} => Underway
  /\ loading = "done" =>
       /\ Len(chr) = Len(image.pages)
       /\ stores = 0 => mirroring = image.mirroring

LEMMA ImageFacts ==
  ASSUME image \in Image
  PROVE  /\ Len(image.program) \in Nat /\ Len(image.pages) \in Nat
         /\ image.program \in Seq(Blocks) /\ image.pages \in Seq(Pages)
         /\ image.program = [i \in 1 .. Len(image.program) |-> image.program[i]]
         /\ image.pages = [i \in 1 .. Len(image.pages) |-> image.pages[i]]
         /\ LastBlock \in {1, 2}
         /\ Len(image.program) > 0 => LastBlock <= Len(image.program)
<1>1. PICK n \in 0 .. MaxBlocks : image.program \in [1 .. n -> Blocks]
  BY DEF Image
<1>2. PICK m \in 0 .. MaxPages : image.pages \in [1 .. m -> Pages]
  BY DEF Image
<1>3. n \in Nat /\ m \in Nat
  BY ImageAssumption
<1>4. image.program \in Seq(Blocks) /\ Len(image.program) = n
  BY <1>1, <1>3
<1>5. image.pages \in Seq(Pages) /\ Len(image.pages) = m
  BY <1>2, <1>3
<1> QED
  BY <1>1, <1>2, <1>3, <1>4, <1>5 DEF LastBlock

(* The parts of an image whose file has them all.                           *)
LEMMA RomWhole ==
  ASSUME image \in Image, held = Parts
  PROVE  /\ \A i \in 1 .. Len(image.program) : Rom(i) = image.program[i]
         /\ \A i \in 1 .. Len(image.pages) :
              Rom(Len(image.program) + i) = image.pages[i]
<1> DEFINE np == Len(image.program)
           nc == Len(image.pages)
<1>1. np \in Nat /\ nc \in Nat /\ held = 1 + np + nc
  BY ImageFacts DEF Parts
<1> HIDE DEF np, nc
<1>2. \A at \in Nat :
        Rom(at) = IF at >= held THEN Zeros ELSE IF at <= np THEN image.program[at]
                                                 ELSE image.pages[at - np]
  BY DEF Rom, np
<1>3. ASSUME NEW i \in 1 .. np PROVE Rom(i) = image.program[i]
  BY <1>1, <1>2
<1>4. ASSUME NEW i \in 1 .. nc PROVE Rom(np + i) = image.pages[i]
  <2> DEFINE at == np + i
  <2>1. at \in Nat /\ ~(at >= held) /\ ~(at <= np) /\ at - np = i
    BY <1>1
  <2> HIDE DEF at
  <2>2. Rom(at) = image.pages[i]
    BY <1>2, <2>1
  <2> QED
    BY <2>2 DEF at
<1> QED
  BY <1>3, <1>4 DEF np, nc

LEMMA LoaderStart == Init => LoaderInv
<1> SUFFICES ASSUME Init PROVE LoaderInv
  OBVIOUS
<1>1. image \in Image
  BY ImageAssumption DEF Init
<1>2. held \in Nat
  BY <1>1, ImageFacts DEF Init, Parts
<1> QED
  BY <1>1, <1>2 DEF Init, LoaderInv

LEMMA LoaderStep ==
  ASSUME LoaderInv, [Next]_vars
  PROVE  LoaderInv'
<1> USE DEF LoaderInv
<1>0. Len(image.program) \in Nat /\ Len(image.pages) \in Nat /\ LastBlock \in {1, 2}
  BY ImageFacts
<1>1. CASE OpenFile
  BY <1>1 DEF OpenFile
<1>2. CASE ReadHeader
  BY <1>2 DEF ReadHeader
<1>3. CASE ReadProgram
  <2>1. /\ loading = "program" /\ off = 1 /\ chr = <<>> /\ patterns = None
        /\ UNCHANGED <<image, held, chr, patterns, mirroring, started, stores>>
        /\ off' = 1 + Len(image.program)
        /\ loading' = IF Loadable THEN "pages" ELSE "refused"
        /\ stores = 0 /\ started = Off
    BY <1>3 DEF ReadProgram
  <2>2. DOMAIN memory' = {1, 2}
    BY <1>3 DEF ReadProgram
  <2>3. CASE Loadable
    <3>1. memory'[1] = Loaded(1) /\ memory'[2] = Loaded(LastBlock)
      <4>1. CASE Len(image.program) = 0
        BY <1>3, <2>3, <4>1 DEF ReadProgram, Loaded
      <4>2. CASE Len(image.program) = 1
        BY <1>3, <2>1, <2>3, <4>2 DEF ReadProgram, Loaded, LastBlock
      <4>3. CASE Len(image.program) \notin {0, 1}
        <5>1. memory'[1] = Rom(1 + 1 - 1) /\ memory'[2] = Rom(1 + 2 - 1)
          BY <1>3, <2>1, <2>3, <4>3 DEF ReadProgram
        <5>2. 1 + 1 - 1 = 1 /\ 1 + 2 - 1 = 2
          OBVIOUS
        <5> QED
          BY <4>3, <5>1, <5>2 DEF LastBlock, Loaded
      <4> QED
        BY <4>1, <4>2, <4>3
    <3>2. Underway'
      BY <1>0, <2>1, <2>3, <3>1 DEF Underway, LastHalf, Loaded, Rom, LastBlock, Loadable
    <3> QED
      BY <2>1, <2>2, <2>3, <3>2, <1>0
  <2>4. CASE ~Loadable
    BY <2>1, <2>2, <2>4, <1>0
  <2> QED
    BY <2>3, <2>4
<1>4. CASE AppendPage
  <2> DEFINE np == Len(image.program)
             n == Len(chr)
             page == Rom(off)
  <2>1. /\ loading = "pages" /\ n < Len(image.pages) /\ Underway
        /\ chr' = Append(chr, page) /\ off' = off + 1
        /\ patterns' = IF chr = <<>> THEN page ELSE patterns
        /\ UNCHANGED <<image, held, loading, memory, mirroring, started, stores>>
    BY <1>4 DEF AppendPage
  <2>2. np \in Nat /\ n \in Nat /\ off = np + (n + 1)
    <3>1. off = 1 + np + n
      BY <2>1 DEF Underway
    <3>2. np \in Nat /\ n \in Nat
      BY <1>0
    <3> HIDE DEF np, n
    <3> QED
      BY <3>1, <3>2
  <2>3. page \in Pages \cup {Zeros}
    <3>1. ~(off <= np)
      <4> HIDE DEF np, n, page
      <4> QED
        BY <2>2
    <3>2. page = IF off >= held THEN Zeros ELSE image.pages[off - np]
      BY <3>1 DEF Rom
    <3>3. off - np \in 1 .. Len(image.pages)
      BY <1>0, <2>1, <2>2
    <3>4. image.pages \in Seq(Pages)
      BY ImageFacts
    <3> QED
      BY <3>2, <3>3, <3>4
  <2> HIDE DEF page, np
  <2>4. /\ chr' \in Seq(Pages \cup {Zeros}) /\ Len(chr') = n + 1
        /\ \A i \in 1 .. n : chr'[i] = chr[i]
        /\ chr'[n + 1] = page /\ chr' # <<>>
    BY <2>1, <2>3
  <2>5. \A at : Rom(at)' = Rom(at) /\ Loaded(at)' = Loaded(at)
    BY <2>1 DEF Rom, Loaded
  <2>6. LastBlock' = LastBlock /\ Loadable' = Loadable /\ np' = np
    BY <2>1 DEF LastBlock, Loadable, np
  <2>7. LastHalf'
    BY <2>1, <2>5, <2>6 DEF Underway, LastHalf
  <2>8. ASSUME NEW i \in 1 .. n + 1 PROVE chr'[i] = Rom(np + i)
    <3>1. i \in 1 .. n \/ i = n + 1
      BY <2>2
    <3>2. i \in 1 .. n => chr[i] = Rom(np + i)
      BY <2>1 DEF Underway, np
    <3>3. page = Rom(np + (n + 1))
      BY <2>2 DEF page
    <3> QED
      BY <2>4, <3>1, <3>2, <3>3
  <2>9. stores = 0 => patterns' = chr'[1] /\ memory'[1] = Loaded(1)
    <3>1. CASE chr = <<>>
      <4>1. n = 0
        BY <3>1
      <4> QED
        BY <2>1, <2>4, <3>1, <4>1 DEF Underway
    <3>2. CASE chr # <<>>
      <4>1. 1 \in 1 .. n
        BY <2>2, <3>2
      <4> QED
        BY <2>1, <2>4, <3>2, <4>1 DEF Underway
    <3> QED
      BY <3>1, <3>2
  <2>10. Underway'
    <3>1. off' = 1 + np + Len(chr') /\ Len(chr') <= Len(image.pages)
      BY <1>0, <2>1, <2>2, <2>4
    <3>2. \A i \in 1 .. Len(chr') : chr'[i] = Rom(Len(image.program) + i)'
      BY <2>1, <2>4, <2>8 DEF Rom, np
    <3> QED
      BY <2>1, <2>4, <2>5, <2>6, <2>7, <2>9, <3>1, <3>2 DEF Underway, np
  <2> QED
    BY <2>1, <2>2, <2>4, <2>10
<1>5. CASE SetMirroring
  <2>1. Underway'
    BY <1>5 DEF SetMirroring, Underway, LastHalf, Loaded, Rom, LastBlock, Loadable
  <2> QED
    BY <1>5, <2>1 DEF SetMirroring
<1>6. CASE Reset
  <2>1. Underway'
    BY <1>6 DEF Reset, Underway, LastHalf, Loaded, Rom, LastBlock, Loadable
  <2> QED
    BY <1>6, <2>1 DEF Reset
<1>7. CASE Store
  <2>1. /\ stores' = stores + 1 /\ stores' # 0 /\ stores' > 0 /\ loading = "done"
        /\ UNCHANGED <<image, held, off, loading, chr, started>>
    BY <1>7 DEF Store
  <2>2. \/ memory' = memory
        \/ \E b \in {1, 2}, v \in Stored : memory' = [memory EXCEPT ![b] = v]
    BY <1>7 DEF Store
  <2>3. DOMAIN memory' = {1, 2}
    BY <2>2
  <2>4. memory'[2] = memory[2] \/ memory'[2] \in Stored
    BY <2>2
  <2>5. LastHalf'
    BY <2>1, <2>4 DEF Underway, LastHalf, Loaded, Rom, LastBlock
  <2>6. Underway'
    BY <2>1, <2>5 DEF Underway, Loaded, Rom, Loadable
  <2> QED
    BY <2>1, <2>3, <2>6
<1>8. CASE UNCHANGED vars
  BY <1>8 DEF vars, Underway, LastHalf, Loaded, Rom, LastBlock, Loadable
<1>9. CASE Overrun
  BY <1>9 DEF Overrun
<1> QED
  BY <1>1, <1>2, <1>3, <1>4, <1>5, <1>6, <1>7, <1>8, <1>9 DEF Next

LEMMA LoaderInvariance == Spec => []LoaderInv
<1>1. LoaderInv /\ [Next]_vars => LoaderInv'
  BY LoaderStep
<1> QED
  BY <1>1, LoaderStart, PTL DEF Spec

LEMMA Whole ==
  ASSUME LoaderInv
  PROVE  LoadedWhole
<1> SUFFICES ASSUME loading = "done", stores = 0, held = Parts
             PROVE  /\ off = Parts
                    /\ memory[1] = Block(1) /\ memory[2] = Block(LastBlock)
                    /\ chr = image.pages
                    /\ patterns = IF image.pages = <<>> THEN None ELSE image.pages[1]
                    /\ mirroring = image.mirroring
  BY DEF LoadedWhole
<1> DEFINE np == Len(image.program)
           nc == Len(image.pages)
<1>1. /\ image \in Image /\ Underway /\ Len(chr) = nc /\ mirroring = image.mirroring
      /\ chr \in Seq(Pages \cup {Zeros})
  BY DEF LoaderInv
<1>2. /\ np \in Nat /\ nc \in Nat /\ LastBlock \in {1, 2}
      /\ np > 0 => LastBlock <= np
      /\ image.pages = [i \in 1 .. nc |-> image.pages[i]]
  BY <1>1, ImageFacts
<1>3. /\ \A i \in 1 .. np : Rom(i) = image.program[i]
      /\ \A i \in 1 .. nc : Rom(np + i) = image.pages[i]
  BY <1>1, RomWhole
<1>4. off = 1 + np + nc /\ memory[1] = Loaded(1) /\ memory[2] = Loaded(LastBlock)
      /\ patterns = IF chr = <<>> THEN None ELSE chr[1]
  BY <1>1 DEF Underway, LastHalf
<1>5. chr = image.pages
  <2>1. \A i \in 1 .. nc : chr[i] = image.pages[i]
    BY <1>1, <1>3 DEF Underway
  <2>2. chr = [i \in 1 .. nc |-> chr[i]]
    BY <1>1
  <2> QED
    BY <1>2, <2>1, <2>2
<1>6. memory[1] = Block(1) /\ memory[2] = Block(LastBlock)
  <2>1. CASE np = 0
    BY <1>2, <1>4, <2>1 DEF Loaded, Block
  <2>2. CASE np # 0
    <3>1. 1 \in 1 .. np /\ LastBlock \in 1 .. np
      BY <1>2, <2>2
    <3> QED
      BY <1>2, <1>3, <1>4, <2>2, <3>1 DEF Loaded, Block
  <2> QED
    BY <2>1, <2>2
<1> QED
  BY <1>1, <1>4, <1>5, <1>6 DEF Parts

(* A reset, wherever it comes.                                              *)
LEMMA Restart ==
  ASSUME LoaderInv, Reset
  PROVE  \/ LastBlock < held /\ started' = Block(LastBlock)
         \/ LastBlock >= held /\ started' = Zeros
         \/ stores > 0 /\ started' \in Stored
<1>1. Underway /\ image \in Image /\ held \in Nat /\ started' = memory[2]
  BY DEF LoaderInv, Reset
<1>2. /\ LastBlock \in {1, 2} /\ Len(image.program) \in Nat
      /\ Len(image.program) > 0 => LastBlock <= Len(image.program)
  BY <1>1, ImageFacts
<1>3. Loaded(LastBlock) = IF LastBlock >= held THEN Zeros ELSE Block(LastBlock)
  <2>1. CASE Len(image.program) = 0
    BY <1>2, <2>1 DEF Loaded, Block
  <2>2. CASE Len(image.program) # 0
    BY <1>2, <2>2 DEF Loaded, Block, Rom
  <2> QED
    BY <2>1, <2>2
<1>4. LastBlock < held \/ LastBlock >= held
  BY <1>1, <1>2
<1> QED
  BY <1>1, <1>2, <1>3, <1>4 DEF Underway, LastHalf

-----------------------------------------------------------------------------
(* The game's listing and the bus                                           *)

StoreLabel ==
  {"nmi_off", "spr_off", "spr_on", "nmi_on", "copy", "high", "low", "put", "strobe1",
   "strobe0"}

LEMMA Listing ==
  /\ pc \in DOMAIN Stores => pc \in StoreLabel
  /\ pc = "nmi_off" => Stores[pc] = STA(PPUCTRL, 0, "spr_off")
  /\ pc = "spr_off" => Stores[pc] = STA(PPUMASK, 0, "wait1")
  /\ pc = "spr_on" => Stores[pc] = STA(PPUMASK, SpriteBit, "nmi_on")
  /\ pc = "nmi_on" => Stores[pc] = STA(PPUCTRL, NmiBit, "main")
  /\ pc = "copy" => Stores[pc] = STA(OAMDMA, SpritePage, "status")
  /\ pc = "high" => Stores[pc] = STA(PPUADDRESS, Place \div PageSize, "low")
  /\ pc = "low" => Stores[pc] = STA(PPUADDRESS, Place % PageSize, "put")
  /\ pc = "put" => Stores[pc] = STA(PPUDATA, A, "strobe1")
  /\ pc = "strobe1" => Stores[pc] = STA(PAD, 1, "strobe0")
  /\ pc = "strobe0" => Stores[pc] = STA(PAD, 0, "poll")
<1>1. pc \in DOMAIN Stores => pc \in StoreLabel
  BY DEF Stores, StoreLabel
<1>2. /\ pc = "nmi_off" => Stores[pc] = STA(PPUCTRL, 0, "spr_off")
      /\ pc = "spr_off" => Stores[pc] = STA(PPUMASK, 0, "wait1")
      /\ pc = "spr_on" => Stores[pc] = STA(PPUMASK, SpriteBit, "nmi_on")
      /\ pc = "nmi_on" => Stores[pc] = STA(PPUCTRL, NmiBit, "main")
      /\ pc = "copy" => Stores[pc] = STA(OAMDMA, SpritePage, "status")
  BY DEF Stores
<1>3. /\ pc = "high" => Stores[pc] = STA(PPUADDRESS, Place \div PageSize, "low")
      /\ pc = "low" => Stores[pc] = STA(PPUADDRESS, Place % PageSize, "put")
      /\ pc = "put" => Stores[pc] = STA(PPUDATA, A, "strobe1")
      /\ pc = "strobe1" => Stores[pc] = STA(PAD, 1, "strobe0")
      /\ pc = "strobe0" => Stores[pc] = STA(PAD, 0, "poll")
  BY DEF Stores
<1> QED
  BY <1>1, <1>2, <1>3

LEMMA LoadListing ==
  /\ pc \in DOMAIN Loads => pc \in {"wait1", "wait2", "status", "poll"}
  /\ pc = "wait1" => Loads[pc] = LDA(PPUSTATUS, IF in_vblank THEN "wait2" ELSE "wait1")
  /\ pc = "wait2" => Loads[pc] = LDA(PPUSTATUS, IF in_vblank THEN "spr_on" ELSE "wait2")
  /\ pc = "status" => Loads[pc] = LDA(PPUSTATUS, "high")
  /\ pc = "poll" => Loads[pc] = LDA(PAD, "tally")
BY DEF Loads

Registers == {PPUCTRL, PPUMASK, PPUSTATUS, PPUADDRESS, PPUDATA, OAMDMA, PAD}

(* What the addresses of the listing name.                                  *)
LEMMA BusFacts ==
  /\ \A a \in {PPUCTRL, PPUMASK, PPUSTATUS, PPUADDRESS, PPUDATA} : Bus!RegionOf(a) = "ppu"
  /\ \A a \in {OAMDMA, PAD} : Bus!RegionOf(a) = "psg"
  /\ Bus!PpuReads(PPUSTATUS) = 2
  /\ Bus!PpuWrites(PPUCTRL) = 0 /\ Bus!PpuWrites(PPUMASK) = 1
  /\ Bus!PpuWrites(PPUSTATUS) = 2 /\ Bus!PpuWrites(PPUADDRESS) = 6
  /\ Bus!PpuWrites(PPUDATA) = 7
<1>1. /\ Bus!RegionOf(PPUCTRL) = "ppu" /\ Bus!RegionOf(PPUMASK) = "ppu"
      /\ Bus!RegionOf(PPUSTATUS) = "ppu" /\ Bus!RegionOf(PPUADDRESS) = "ppu"
      /\ Bus!RegionOf(PPUDATA) = "ppu" /\ Bus!RegionOf(OAMDMA) = "psg"
      /\ Bus!RegionOf(PAD) = "psg"
  BY DEF Bus!RegionOf, Bus!Maps, Bus!Start, Bus!Size, Bus!Region, Bus!PpuWindow,
         Bus!PsgWindow, Bus!FbWindow, PPUCTRL, PPUMASK, PPUSTATUS, PPUADDRESS, PPUDATA,
         OAMDMA, PAD
<1>2. /\ Bus!PpuReads(PPUSTATUS) = 2
      /\ Bus!PpuWrites(PPUCTRL) = 0 /\ Bus!PpuWrites(PPUMASK) = 1
      /\ Bus!PpuWrites(PPUSTATUS) = 2 /\ Bus!PpuWrites(PPUADDRESS) = 6
      /\ Bus!PpuWrites(PPUDATA) = 7
  BY DEF Bus!PpuReads, Bus!PpuWrites, Bus!Start, PPUCTRL, PPUMASK, PPUSTATUS,
         PPUADDRESS, PPUDATA
<1> QED
  BY <1>1, <1>2

(* What a read leaves alone; and a read of the status ends vertical blank.  *)
LEMMA ReadKeeps ==
  ASSUME NEW a, Read(a)
  PROVE  /\ UNCHANGED <<mirroring, ready, generates_nmi, mask>>
         /\ in_vblank' = in_vblank \/ in_vblank' = FALSE
         /\ a = PPUSTATUS => in_vblank' = FALSE
<1>1. CASE /\ Bus!RegionOf(a) = "ppu" /\ PpuRead(Bus!PpuReads(a))
           /\ UNCHANGED <<spriteVars, padVars>>
  <2>1. mirroring' = mirroring
    BY <1>1 DEF PpuRead, Port!PpuRead, Port!ReadStatus, Port!ReadData, Port!ReadOther
  <2>2. Frame!ReadStatus \/ (UNCHANGED frameVars /\ Bus!PpuReads(a) # 2)
    BY <1>1 DEF PpuRead, Port!STATUS
  <2>3. a = PPUSTATUS => Bus!PpuReads(a) = 2
    BY BusFacts
  <2> QED
    BY <2>1, <2>2, <2>3 DEF Frame!ReadStatus, frameVars
<1>2. CASE /\ Bus!RegionOf(a) = "psg" /\ PsgRead(Bus!PsgRegister(a))
           /\ UNCHANGED <<portVars, frameVars, spriteVars>>
  BY <1>2, BusFacts DEF portVars, frameVars
<1> QED
  BY <1>1, <1>2 DEF Read

(* What the game's writes leave alone, and what the two control registers   *)
(* take once the first line has been drawn.                                 *)
LEMMA WriteKeeps ==
  ASSUME NEW a \in Registers, NEW d, Write(a, d)
  PROVE  /\ UNCHANGED <<mirroring, ready, in_vblank>>
         /\ a # PPUMASK => UNCHANGED mask
         /\ a # PPUCTRL => UNCHANGED generates_nmi
         /\ a = PPUMASK => mask' = mask \/ mask' = [mask EXCEPT !.spr = (d \div SpriteBit) % 2 = 1]
         /\ a = PPUMASK /\ ready => mask' = [mask EXCEPT !.spr = (d \div SpriteBit) % 2 = 1]
         /\ a = PPUCTRL /\ ready => generates_nmi' = ((d \div NmiBit) % 2 = 1)
<1>1. CASE /\ Bus!RegionOf(a) = "ppu" /\ PpuWrite(Bus!PpuWrites(a), d)
           /\ UNCHANGED <<spriteVars, padVars>>
  <2> DEFINE reg == Bus!PpuWrites(a)
  <2>1. /\ reg \in {0, 1, 2, 6, 7}
        /\ a = PPUCTRL <=> reg = 0
        /\ a = PPUMASK <=> reg = 1
    BY <1>1, BusFacts DEF Registers
  <2>2. mirroring' = mirroring
    BY <1>1, <2>1 DEF PpuWrite, Port!PpuWrite, Port!WriteCtrl, Port!WriteAddr,
       Port!WriteData, Port!WriteIgnored, Port!MIRROR, Port!MISC
  <2>3. \/ reg = 0 /\ ready /\ Frame!WriteCtrl((d \div NmiBit) % 2 = 1)
        \/ reg = 1 /\ ready
             /\ Frame!WriteMask([mask EXCEPT !.spr = (d \div SpriteBit) % 2 = 1])
        \/ ~(reg = 0 /\ ready) /\ ~(reg = 1 /\ ready) /\ UNCHANGED frameVars
    BY <1>1 DEF PpuWrite
  <2> DEFINE on == (d \div NmiBit) % 2 = 1
             drawn == [mask EXCEPT !.spr = (d \div SpriteBit) % 2 = 1]
  <2>4. PPUCTRL # PPUMASK
    BY DEF PPUCTRL, PPUMASK
  <2> HIDE DEF reg, on, drawn
  <2>5. \/ reg = 0 /\ ready /\ Frame!WriteCtrl(on)
        \/ reg = 1 /\ ready /\ Frame!WriteMask(drawn)
        \/ ~(reg = 0 /\ ready) /\ ~(reg = 1 /\ ready) /\ UNCHANGED frameVars
    BY <2>3 DEF on, drawn
  <2>6. /\ UNCHANGED <<ready, in_vblank>>
        /\ reg # 1 => UNCHANGED mask
        /\ reg # 0 => UNCHANGED generates_nmi
        /\ reg = 1 => mask' = mask \/ mask' = drawn
        /\ reg = 1 /\ ready => mask' = drawn
        /\ reg = 0 /\ ready => generates_nmi' = on
    <3>1. CASE reg = 0 /\ ready /\ Frame!WriteCtrl(on)
      BY <3>1 DEF Frame!WriteCtrl, Frame!status
    <3>2. CASE reg = 1 /\ ready /\ Frame!WriteMask(drawn)
      BY <3>2 DEF Frame!WriteMask, Frame!status
    <3>3. CASE ~(reg = 0 /\ ready) /\ ~(reg = 1 /\ ready) /\ UNCHANGED frameVars
      BY <3>3 DEF frameVars
    <3> QED
      BY <2>5, <3>1, <3>2, <3>3
  <2> QED
    BY <2>1, <2>2, <2>6 DEF on, drawn
<1>2. CASE /\ Bus!RegionOf(a) = "psg" /\ PsgWrite(Bus!PsgRegister(a), d)
           /\ UNCHANGED <<portVars, frameVars>>
  BY <1>2, BusFacts DEF portVars, frameVars
<1> QED
  BY <1>1, <1>2 DEF Write

LEMMA StoresInPlace ==
  ASSUME pc \in DOMAIN Stores
  PROVE  Stores[pc].at \in Registers
BY Listing DEF StoreLabel, STA, Registers

-----------------------------------------------------------------------------
(* The console does with the loader's state what the loader does.           *)

LEMMA InstructionKeepsMirroring ==
  ASSUME Instruction
  PROVE  mirroring' = mirroring
<1>1. CASE LoadStep
  BY <1>1, ReadKeeps DEF LoadStep
<1>2. CASE StoreRead
  BY <1>2, ReadKeeps DEF StoreRead
<1>3. CASE StoreWrite
  BY <1>3, WriteKeeps, StoresInPlace DEF StoreWrite
<1>4. CASE Tally \/ ReturnFromNmi
  BY <1>4 DEF Tally, ReturnFromNmi, deviceVars, portVars
<1> QED
  BY <1>1, <1>2, <1>3, <1>4 DEF Instruction

LEMMA LoadsOnly ==
  ASSUME [ConsoleNext]_consoleVars
  PROVE  [Next]_vars
<1>1. CASE LoadCartridge
  BY <1>1 DEF LoadCartridge, Next
<1>2. CASE OtherProgram
  BY <1>2 DEF OtherProgram, Next
<1>3. CASE Instruction
  BY <1>3, InstructionKeepsMirroring DEF Instruction, loaderVars, vars
<1>4. CASE Interrupt
  BY <1>4 DEF Interrupt, TakeNmi, portVars, loaderVars, vars
<1>5. CASE Line
  BY <1>5 DEF Line, portVars, loaderVars, vars
<1>6. CASE Keyboard
  BY <1>6 DEF Keyboard, portVars, loaderVars, vars
<1>7. CASE ResetButton
  BY <1>7 DEF ResetButton, Next
<1>8. CASE UNCHANGED consoleVars
  BY <1>8 DEF consoleVars, deviceVars, portVars, loaderVars, vars
<1> QED
  BY <1>1, <1>2, <1>3, <1>4, <1>5, <1>6, <1>7, <1>8 DEF ConsoleNext

(* Whatever the game, the timer, the keyboard and the reset button do, the  *)
(* loader's state changes as boot.c changes it and not otherwise: no        *)
(* instruction of the game reaches the mirroring register, which lies       *)
(* behind the addresses the processor uses for the control register.        *)
THEOREM ImplementsLoader == ConsoleSpec => Spec
<1>1. ConsoleInit => Init
  BY DEF ConsoleInit
<1>2. [ConsoleNext]_consoleVars => [Next]_vars
  BY LoadsOnly
<1> QED
  BY <1>1, <1>2, PTL DEF ConsoleSpec, Spec

(* Whatever blocks and pages an image has, after the loader everything of   *)
(* it is where it belongs.                                                  *)
THEOREM ImageLoaded == ConsoleSpec => []LoadedWhole
BY ImplementsLoader, LoaderInvariance, Whole, PTL

(* Every reset starts the program the image ends with, however many resets  *)
(* came before and wherever they came, unless the program has overwritten   *)
(* it or the file was cut short.                                            *)
THEOREM AlwaysRestarts == ConsoleSpec => RestartsProgram
<1>1. LoaderInv /\ [Next]_vars =>
        [Reset => \/ LastBlock < held /\ started' = Block(LastBlock)
                  \/ LastBlock >= held /\ started' = Zeros
                  \/ stores > 0 /\ started' \in Stored]_vars
  BY Restart
<1> QED
  BY <1>1, ImplementsLoader, LoaderInvariance, PTL DEF Spec, RestartsProgram

-----------------------------------------------------------------------------
(* The game listens once it is in its main loop.                            *)

Outer == {"off", "nmi_off", "spr_off", "wait1", "wait2", "spr_on", "nmi_on", "main"}
Handler ==
  {"copy", "status", "high", "low", "put", "strobe1", "strobe0", "poll", "tally", "rti"}

Values ==
  /\ A \in Nat
  /\ ram \in [0 .. OamSize * RamPages - 1 -> Nat]
  /\ mask \in [bg : BOOLEAN, spr : BOOLEAN]

(* Under the handlers is the program, and only there.                       *)
Stacked ==
  /\ stack \in Seq([pc : Outer \cup Handler, A : Nat])
  /\ stack = <<>> => pc \in Outer
  /\ stack # <<>> => pc \in Handler /\ stack[1].pc \in Outer
  /\ \A i \in 2 .. Len(stack) : stack[i].pc \in Handler

(* How far the program has come tells what it has seen: the vertical blank  *)
(* that ends its second wait cannot be the one ppu_realize pretends, so a   *)
(* line has been drawn, and from then on its stores are taken.              *)
Heard(base) ==
  /\ base = "wait2" => ready \/ ~in_vblank
  /\ base \in {"spr_on", "nmi_on", "main"} => ready
  /\ base \in {"nmi_on", "main"} => mask.spr
  /\ base = "main" => generates_nmi

GameInv == Values /\ Stacked /\ Heard(Base)

LEMMA BaseKept ==
  ASSUME Stacked, stack # <<>>, UNCHANGED stack
  PROVE  Base' = Base
BY DEF Base

(* Steps that keep what the program has seen.                               *)
LEMMA HeardKept ==
  ASSUME Heard(Base), Base' = Base,
         UNCHANGED <<generates_nmi, mask>>, ready' = ready \/ ready' = TRUE,
         in_vblank' = in_vblank \/ in_vblank' = FALSE \/ ready' = TRUE
  PROVE  Heard(Base)'
BY DEF Heard

LEMMA GameStart == ConsoleInit => GameInv
<1> SUFFICES ASSUME ConsoleInit PROVE GameInv
  OBVIOUS
<1>1. ram = [a \in 0 .. OamSize * RamPages - 1 |-> 0] /\ A = 0
  BY DEF ConsoleInit, Sprites!Init, Sprites!RamSize
<1>2. mask = [bg |-> FALSE, spr |-> FALSE]
  BY DEF ConsoleInit, Frame!Init
<1>3. Values
  BY <1>1, <1>2 DEF Values
<1>4. pc = "off" /\ stack = <<>>
  BY DEF ConsoleInit
<1>5. Stacked
  BY <1>4 DEF Stacked, Outer
<1>6. Heard(Base)
  BY <1>4 DEF Base, Heard
<1> QED
  BY <1>3, <1>5, <1>6 DEF GameInv

LEMMA LineKeeps ==
  ASSUME GameInv, Line
  PROVE  GameInv'
<1>1. UNCHANGED <<A, ram, pc, stack>>
  BY DEF Line, cpuVars
<1>2. UNCHANGED <<generates_nmi, mask>> /\ ready' = TRUE
  BY DEF Line, Frame!DrawLine, Frame!StartVblank, Frame!EndFrame
<1>3. Base' = Base
  BY <1>1 DEF Base
<1>4. Heard(Base)'
  BY <1>2, <1>3, HeardKept DEF GameInv
<1> QED
  BY <1>1, <1>2, <1>4 DEF GameInv, Values, Stacked

LEMMA InterruptKeeps ==
  ASSUME GameInv, Interrupt
  PROVE  GameInv'
<1> DEFINE e == [pc |-> pc, A |-> A]
<1>1. /\ stack' = Append(stack, e) /\ pc' = "copy"
      /\ UNCHANGED <<A, ram>>
  BY DEF Interrupt, TakeNmi
<1>2. UNCHANGED <<generates_nmi, mask, ready, in_vblank>>
  BY DEF Interrupt, TakeNmi, Frame!TakeNmi, Frame!status
<1>3. stack \in Seq([pc : Outer \cup Handler, A : Nat]) /\ Len(stack) \in Nat
  BY DEF GameInv, Stacked
<1>4. e \in [pc : Outer \cup Handler, A : Nat] /\ e.pc = pc
  BY DEF GameInv, Stacked, Values
<1> HIDE DEF e
<1>5. /\ stack' \in Seq([pc : Outer \cup Handler, A : Nat]) /\ Len(stack') = Len(stack) + 1
      /\ \A i \in 1 .. Len(stack) : stack'[i] = stack[i]
      /\ stack'[Len(stack) + 1] = e /\ stack' # <<>>
  BY <1>1, <1>3, <1>4
<1>6. CASE stack = <<>>
  <2>1. Len(stack) = 0
    BY <1>6
  <2>2. stack'[1] = e /\ pc \in Outer /\ Len(stack') = 1
    BY <1>5, <1>6, <2>1 DEF GameInv, Stacked
  <2>3. Stacked'
    BY <1>1, <1>4, <1>5, <2>2 DEF Stacked, Handler
  <2>4. Base' = Base
    BY <1>4, <1>5, <1>6, <2>2 DEF Base
  <2> QED
    BY <1>1, <1>2, <2>3, <2>4, HeardKept DEF GameInv, Values
<1>7. CASE stack # <<>>
  <2>1. 1 \in 1 .. Len(stack) /\ Len(stack) > 0
    BY <1>3, <1>7
  <2>2. stack'[1] = stack[1] /\ stack[1].pc \in Outer /\ pc \in Handler
    BY <1>5, <1>7, <2>1 DEF GameInv, Stacked
  <2>3. ASSUME NEW i \in 2 .. Len(stack') PROVE stack'[i].pc \in Handler
    <3>1. i \in 2 .. Len(stack) \/ i = Len(stack) + 1
      BY <1>3, <1>5
    <3>2. i \in 2 .. Len(stack) => stack'[i] = stack[i] /\ stack[i].pc \in Handler
      BY <1>5 DEF GameInv, Stacked
    <3> QED
      BY <1>4, <1>5, <2>2, <3>1, <3>2
  <2>4. Stacked'
    BY <1>1, <1>5, <2>2, <2>3 DEF Stacked, Handler
  <2>5. Base' = Base
    BY <1>5, <1>7, <2>2 DEF Base
  <2> QED
    BY <1>1, <1>2, <2>4, <2>5, HeardKept DEF GameInv, Values
<1> QED
  BY <1>6, <1>7

LEMMA ReturnKeeps ==
  ASSUME GameInv, ReturnFromNmi
  PROVE  GameInv'
<1> DEFINE S == [pc : Outer \cup Handler, A : Nat]
           n == Len(stack)
<1>1. stack \in Seq(S) /\ n \in Nat /\ stack # <<>>
  BY DEF GameInv, Stacked, ReturnFromNmi, Outer
<1>2. n > 0 /\ n \in 1 .. n /\ stack[n] \in S
  <2>1. n # 0
    BY <1>1, EmptySeq
  <2> HIDE DEF S
  <2>2. \A i \in 1 .. n : stack[i] \in S
    BY <1>1, ElementOfSeq
  <2> QED
    BY <1>1, <2>1, <2>2
<1>3. /\ pc' = stack[n].pc /\ A' = stack[n].A
      /\ stack' = SubSeq(stack, 1, n - 1)
      /\ UNCHANGED <<ram, mask, generates_nmi, ready, in_vblank>>
  BY DEF ReturnFromNmi, deviceVars, frameVars
<1> HIDE DEF S
<1>4. /\ stack' \in Seq(S) /\ Len(stack') = n - 1
      /\ \A i \in 1 .. n - 1 : stack'[i] = stack[i]
  <2>1. \A i \in 1 .. n - 1 : stack[i] \in S
    BY <1>1, ElementOfSeq
  <2>2. 1 \in Int /\ n - 1 \in Int
    BY <1>1
  <2>3. /\ stack' \in Seq(S)
        /\ Len(stack') = IF 1 <= n - 1 THEN n - 1 - 1 + 1 ELSE 0
        /\ \A i \in 1 .. n - 1 - 1 + 1 : stack'[i] = stack[1 + i - 1]
    BY <1>3, <2>1, <2>2, SubSeqProperties
  <2> HIDE DEF n
  <2> QED
    BY <1>1, <1>2, <2>3
<1> HIDE DEF n
<1>5. CASE n = 1
  <2>1. Len(stack') = 0 /\ stack' = <<>>
    BY <1>4, <1>5, EmptySeq
  <2>2. pc' \in Outer
    BY <1>1, <1>3, <1>5 DEF GameInv, Stacked
  <2>3. Stacked'
    BY <1>4, <2>1, <2>2 DEF Stacked, S
  <2>4. Base' = Base
    BY <1>1, <1>3, <1>5, <2>1 DEF Base
  <2>5. A' \in Nat
    BY <1>2, <1>3 DEF S
  <2> QED
    BY <1>3, <2>3, <2>4, <2>5, HeardKept DEF GameInv, Values
<1>6. CASE n # 1
  <2>1. n \in 2 .. n /\ 1 \in 1 .. n - 1 /\ n - 1 > 0
    BY <1>1, <1>2, <1>6
  <2>2. stack' # <<>>
    BY <1>4, <2>1, EmptySeq
  <2>3. stack'[1] = stack[1] /\ stack[1].pc \in Outer
    BY <1>1, <1>4, <2>1 DEF GameInv, Stacked
  <2>4. \A i \in 2 .. n : stack[i].pc \in Handler
    BY DEF GameInv, Stacked, n
  <2>5. pc' \in Handler
    BY <1>3, <2>1, <2>4
  <2>6. ASSUME NEW i \in 2 .. n - 1 PROVE stack'[i].pc \in Handler
    <3>1. i \in 2 .. n /\ i \in 1 .. n - 1
      BY <1>1
    <3> QED
      BY <1>4, <2>4, <3>1
  <2>7. Stacked'
    BY <1>4, <2>2, <2>3, <2>5, <2>6 DEF Stacked, S
  <2>8. Base' = Base
    BY <1>1, <2>2, <2>3 DEF Base
  <2>9. A' \in Nat
    BY <1>2, <1>3 DEF S
  <2> QED
    BY <1>3, <2>7, <2>8, <2>9, HeardKept DEF GameInv, Values
<1> QED
  BY <1>5, <1>6

LEMMA LoadKeeps ==
  ASSUME GameInv, LoadStep
  PROVE  GameInv'
<1>1. /\ pc \in {"wait1", "wait2", "status", "poll"} /\ Read(Loads[pc].at)
      /\ A' = (IF Loads[pc].at = PAD THEN Pad!Answer ELSE A)
      /\ pc' = Loads[pc].next /\ UNCHANGED <<stack, ram>>
  BY LoadListing DEF LoadStep
<1>2. UNCHANGED <<ready, generates_nmi, mask>>
      /\ (in_vblank' = in_vblank \/ in_vblank' = FALSE)
  BY <1>1, ReadKeeps
<1>3. A' \in Nat
  BY <1>1 DEF GameInv, Values, Pad!Answer
<1>4. Values'
  BY <1>1, <1>2, <1>3 DEF GameInv, Values
<1>5. CASE pc \in {"status", "poll"}
  <2>1. pc' \in {"high", "tally"} /\ stack # <<>>
    BY <1>1, <1>5, LoadListing DEF LDA, GameInv, Stacked, Outer
  <2>2. Stacked'
    BY <1>1, <2>1 DEF GameInv, Stacked, Handler
  <2>3. Base' = Base
    BY <1>1, <2>1, BaseKept DEF GameInv
  <2> QED
    BY <1>2, <1>4, <2>2, <2>3, HeardKept DEF GameInv
<1>6. CASE pc \in {"wait1", "wait2"}
  <2>1. stack = <<>> /\ Base = pc
    BY <1>6 DEF GameInv, Stacked, Handler, Base
  <2>2. Base' = pc'
    BY <1>1, <2>1 DEF Base
  <2>3. in_vblank' = FALSE
    <3>1. Loads[pc].at = PPUSTATUS
      BY <1>6, LoadListing DEF LDA
    <3> QED
      BY <1>1, <3>1, ReadKeeps
  <2>4. \/ pc' \in {"wait1", "wait2"}
        \/ pc = "wait2" /\ pc' = "spr_on" /\ in_vblank
    BY <1>1, <1>6, LoadListing DEF LDA
  <2>5. Stacked'
    BY <1>1, <2>1, <2>4 DEF GameInv, Stacked, Outer
  <2>6. Heard(Base)'
    BY <1>2, <2>1, <2>2, <2>3, <2>4 DEF GameInv, Heard
  <2> QED
    BY <1>4, <2>5, <2>6 DEF GameInv
<1> QED
  BY <1>1, <1>5, <1>6

LEMMA Bits ==
  /\ NmiBit \in Nat \ {0} /\ (NmiBit \div NmiBit) % 2 = 1
  /\ SpriteBit \in Nat \ {0} /\ (SpriteBit \div SpriteBit) % 2 = 1
<1>1. NmiBit \in Nat \ {0} /\ SpriteBit \in Nat \ {0}
  <2>1. PageSize \in Nat /\ PageSize >= 16
    BY GameAssumption
  <2> QED
    BY <2>1 DEF NmiBit, SpriteBit
<1>2. \A k \in Nat \ {0} : k \div k = 1
  OBVIOUS
<1> QED
  BY <1>1, <1>2

LEMMA WorldInRam == World \in 0 .. OamSize * RamPages - 1
<1>1. /\ OamSize \in Nat \ {0} /\ RamPages \in Nat /\ SpritePage \in Nat
      /\ SpritePage + 1 <= RamPages
  BY GameAssumption
<1>2. OamSize * (SpritePage + 1) <= OamSize * RamPages
  BY <1>1
<1>3. OamSize * (SpritePage + 1) = OamSize * SpritePage + OamSize
  BY <1>1
<1>4. OamSize * SpritePage \in Nat /\ OamSize * RamPages \in Nat
  BY <1>1
<1> DEFINE a == OamSize * SpritePage
           b == OamSize * RamPages
           c == OamSize * (SpritePage + 1)
<1> HIDE DEF a, b, c
<1>5. a \in Nat /\ b \in Nat /\ c <= b /\ c = a + OamSize
  BY <1>2, <1>3, <1>4 DEF a, b, c
<1>6. a \in 0 .. b - 1
  BY <1>1, <1>5
<1> QED
  BY <1>6 DEF World, a, b

LEMMA WriteStepKeeps ==
  ASSUME GameInv, StoreWrite
  PROVE  GameInv'
<1>1. /\ pc \in StoreLabel /\ pc \in DOMAIN Stores
      /\ Write(Stores[pc].at, Stores[pc].data) /\ Stores[pc].at \in Registers
      /\ pc' = Stores[pc].next /\ UNCHANGED <<stack, ram>>
      /\ A' = (IF pc = "low" THEN ram[World] ELSE A)
  BY Listing, StoresInPlace DEF StoreWrite
<1>2. UNCHANGED <<ready, in_vblank>>
  BY <1>1, WriteKeeps
<1>3. A' \in Nat
  BY <1>1, WorldInRam DEF GameInv, Values
<1>4. CASE pc \in {"copy", "high", "low", "put", "strobe1", "strobe0"}
  <2>1. pc' \in Handler /\ stack # <<>> /\ Stores[pc].at \notin {PPUMASK, PPUCTRL}
    BY <1>1, <1>4, Listing DEF STA, GameInv, Stacked, Outer, Handler, PPUMASK, PPUCTRL,
       OAMDMA, PPUADDRESS, PPUDATA, PAD
  <2>2. UNCHANGED <<mask, generates_nmi>>
    BY <1>1, <2>1, WriteKeeps
  <2>3. Values'
    BY <1>1, <1>3, <2>2 DEF GameInv, Values
  <2>4. Stacked'
    BY <1>1, <2>1 DEF GameInv, Stacked
  <2>5. Base' = Base
    BY <1>1, <2>1, BaseKept DEF GameInv
  <2> QED
    BY <1>2, <2>2, <2>3, <2>4, <2>5, HeardKept DEF GameInv
<1>5. CASE pc \in {"nmi_off", "spr_off", "spr_on", "nmi_on"}
  <2>1. stack = <<>> /\ Base = pc /\ Base' = pc'
    BY <1>1, <1>5 DEF GameInv, Stacked, Handler, Base
  <2>2. mask' \in [bg : BOOLEAN, spr : BOOLEAN]
    <3>1. mask \in [bg : BOOLEAN, spr : BOOLEAN]
      BY DEF GameInv, Values
    <3>2. mask' = mask \/ \E b \in BOOLEAN : mask' = [mask EXCEPT !.spr = b]
      BY <1>1, WriteKeeps
    <3> QED
      BY <3>1, <3>2
  <2>3. Values'
    BY <1>1, <1>3, <2>2 DEF GameInv, Values
  <2>4. pc' \in {"spr_off", "wait1", "nmi_on", "main"}
    BY <1>1, <1>5, Listing DEF STA
  <2>5. Stacked'
    BY <1>1, <2>1, <2>4 DEF GameInv, Stacked, Outer
  <2>6. ASSUME pc = "spr_on" PROVE pc' = "nmi_on" /\ ready' /\ mask'.spr
    <3>1. Stores[pc] = STA(PPUMASK, SpriteBit, "nmi_on")
      BY <2>6, Listing
    <3>2. Write(PPUMASK, SpriteBit) /\ pc' = "nmi_on" /\ PPUMASK \in Registers
      BY <1>1, <3>1 DEF STA, Registers
    <3>3. ready
      BY <2>1, <2>6 DEF GameInv, Heard
    <3>4. mask' = [mask EXCEPT !.spr = (SpriteBit \div SpriteBit) % 2 = 1]
      BY <3>2, <3>3, WriteKeeps
    <3>5. mask \in [bg : BOOLEAN, spr : BOOLEAN]
      BY DEF GameInv, Values
    <3>6. mask' = [mask EXCEPT !.spr = TRUE]
      BY <3>4, Bits
    <3> QED
      BY <1>2, <3>2, <3>3, <3>5, <3>6
  <2>7. ASSUME pc = "nmi_on" PROVE pc' = "main" /\ ready' /\ mask'.spr /\ generates_nmi'
    <3>1. Stores[pc] = STA(PPUCTRL, NmiBit, "main")
      BY <2>7, Listing
    <3>2. Write(PPUCTRL, NmiBit) /\ pc' = "main" /\ PPUCTRL \in Registers
      BY <1>1, <3>1 DEF STA, Registers
    <3>3. ready /\ mask.spr
      BY <2>1, <2>7 DEF GameInv, Heard
    <3>4. generates_nmi' = ((NmiBit \div NmiBit) % 2 = 1)
      BY <3>2, <3>3, WriteKeeps
    <3>5. mask' = mask
      BY <3>2, WriteKeeps DEF PPUCTRL, PPUMASK
    <3> QED
      BY <1>2, <3>2, <3>3, <3>4, <3>5, Bits
  <2>8. pc \notin {"spr_on", "nmi_on"} => pc' \in {"spr_off", "wait1"}
    BY <1>1, <1>5, Listing DEF STA
  <2>9. Heard(Base)'
    BY <2>1, <2>6, <2>7, <2>8 DEF Heard
  <2> QED
    BY <2>3, <2>5, <2>9 DEF GameInv
<1> QED
  BY <1>1, <1>4, <1>5 DEF StoreLabel

LEMMA GameStep ==
  ASSUME GameInv, [ConsoleNext]_consoleVars
  PROVE  GameInv'
<1>1. ASSUME UNCHANGED <<frameVars, cpuVars>> PROVE GameInv'
  BY <1>1 DEF frameVars, cpuVars, GameInv, Values, Stacked, Heard, Base
<1>2. CASE LoadCartridge \/ OtherProgram \/ Keyboard
  BY <1>1, <1>2 DEF LoadCartridge, OtherProgram, Keyboard
<1>3. CASE Instruction
  <2>1. CASE StoreRead
    <3>1. UNCHANGED <<pc, A, stack, ram>> /\ Read(Stores[pc].at)
      BY <2>1 DEF StoreRead
    <3>2. UNCHANGED <<ready, generates_nmi, mask>>
          /\ (in_vblank' = in_vblank \/ in_vblank' = FALSE)
      BY <3>1, ReadKeeps
    <3>3. Base' = Base
      BY <3>1 DEF Base
    <3> QED
      BY <3>1, <3>2, <3>3, HeardKept DEF GameInv, Values, Stacked
  <2>2. CASE Tally
    <3>1. UNCHANGED <<ready, generates_nmi, mask, in_vblank, A, stack>>
          /\ pc = "tally" /\ pc' = "rti"
      BY <2>2 DEF Tally, deviceVars, frameVars
    <3>2. ram' \in [0 .. OamSize * RamPages - 1 -> Nat]
      <4> DEFINE S == 0 .. OamSize * RamPages - 1
                 down == IF ram[Last] = 0 THEN A ELSE 0
      <4>1. ram \in [S -> Nat] /\ A \in Nat /\ World \in S
        BY WorldInRam DEF GameInv, Values
      <4>2. down \in Nat /\ ram' = [ram EXCEPT ![World] = @ + down, ![Last] = A]
        BY <2>2, <4>1 DEF Tally
      <4> HIDE DEF S, down
      <4>3. ram[World] + down \in Nat
        BY <4>1, <4>2
      <4>4. ram' \in [S -> Nat]
        BY <4>1, <4>2, <4>3
      <4> QED
        BY <4>4 DEF S
    <3>3. stack # <<>>
      BY <3>1 DEF GameInv, Stacked, Outer
    <3>4. Base' = Base
      BY <3>1, <3>3 DEF Base
    <3>5. Stacked'
      BY <3>1, <3>3 DEF GameInv, Stacked, Handler
    <3> QED
      BY <3>1, <3>2, <3>4, <3>5, HeardKept DEF GameInv, Values
  <2> QED
    BY <1>3, <2>1, <2>2, LoadKeeps, WriteStepKeeps, ReturnKeeps DEF Instruction
<1>4. CASE Interrupt
  BY <1>4, InterruptKeeps
<1>5. CASE Line
  BY <1>5, LineKeeps
<1>6. CASE ResetButton
  <2>1. UNCHANGED <<A, ram, mask, ready, in_vblank, generates_nmi>>
    BY <1>6 DEF ResetButton, deviceVars, frameVars
  <2>2. CASE UNCHANGED <<pc, stack>>
    BY <2>1, <2>2 DEF GameInv, Values, Stacked, Heard, Base
  <2>3. CASE pc' = "nmi_off" /\ stack' = <<>>
    <3>1. Base' = "nmi_off"
      BY <2>3 DEF Base
    <3>2. Stacked'
      BY <2>3 DEF Stacked, Outer
    <3> QED
      BY <2>1, <3>1, <3>2 DEF GameInv, Values, Heard
  <2> QED
    BY <1>6, <2>2, <2>3 DEF ResetButton
<1>7. CASE UNCHANGED consoleVars
  BY <1>1, <1>7 DEF consoleVars, deviceVars
<1> QED
  BY <1>2, <1>3, <1>4, <1>5, <1>6, <1>7 DEF ConsoleNext

(* A game that has come to its main loop, and every handler that interrupts *)
(* it there, finds its interrupt and its sprites on, whatever resets,       *)
(* handlers and lines came in between: the picture unit, which drops writes *)
(* to $2000 and $2001 before its first line, has dropped neither store.     *)
THEOREM GameListens == ConsoleSpec => []Listening
<1>1. GameInv /\ [ConsoleNext]_consoleVars => GameInv'
  BY GameStep
<1>2. GameInv => Listening
  BY DEF GameInv, Heard, Listening
<1> QED
  BY <1>1, <1>2, GameStart, PTL DEF ConsoleSpec

-----------------------------------------------------------------------------
(* What the handler writes to the picture unit goes where it means.         *)

After == {"strobe1", "strobe0", "poll", "tally", "rti"}

Aimed == PPUADDR % AddrSpace = Place

HighSent == addr_received_high_byte /\ ppu_addr_latch = Place \div PageSize

(* A handler that nothing has interrupted since its read of $2002.          *)
Undisturbed ==
  /\ pc = "high" => ~addr_received_high_byte
  /\ pc = "low" => HighSent
  /\ pc = "put" => ~addr_received_high_byte /\ Aimed
                   /\ (~halfway => ppu_2007_first_read)
  /\ pc \in After => ~addr_received_high_byte /\ Aimed

(* One that handlers have interrupted which nothing has interrupted: they   *)
(* leave their own, and so its, address behind, and no half of one.         *)
Resumed ==
  /\ pc = "high" => ~addr_received_high_byte
  /\ pc = "low" => HighSent \/ (~addr_received_high_byte /\ Aimed)
  /\ pc = "put" => Aimed \/ (halfway /\ PPUADDR % AddrSpace = Place + 1)

Shallow == left.handlers <= 2

Tracked ==
  /\ unsplit \/ (Shallow /\ Len(stack) = 2) => Undisturbed
  /\ Shallow /\ stack # <<>> => Resumed

(* How deep the handlers go, when an interrupt can come, and what the       *)
(* picture unit's registers hold.                                           *)
Bounded ==
  /\ left \in [handlers : Nat \ {0}, resets : Nat, presses : Nat]
  /\ nmi \in BOOLEAN
  /\ Len(stack) <= left.handlers
  /\ nmi => ready /\ Len(stack) < left.handlers
  /\ stack # <<>> => ready
  /\ halfway => pc \in {"put", "strobe1", "strobe0"}

PortHeld ==
  /\ PPUADDR \in Nat /\ ppu_addr_latch \in Nat
  /\ step = 1
  /\ DOMAIN ppu_ram = Port!Address

AimInv == Bounded /\ PortHeld /\ Tracked

USE DEF Port!Masked

LEMMA PlaceFacts ==
  /\ AddrSpace \in Nat \ {0} /\ Place \in Nat
  /\ Place % AddrSpace = Place /\ (Place + 1) % AddrSpace = Place + 1
  /\ (Place \div PageSize) * PageSize + (Place % PageSize) = Place
  /\ Place \in Port!Nametables /\ Place + 1 \in Port!Nametables
<1>1. /\ AddrSpace \in Nat \ {0} /\ Place \in Nat
      /\ Place % AddrSpace = Place /\ (Place + 1) % AddrSpace = Place + 1
  BY GameAssumption
<1>2. (Place \div PageSize) * PageSize + (Place % PageSize) = Place
  BY GameAssumption
<1>3. Place \in Port!Nametables /\ Place + 1 \in Port!Nametables
  BY GameAssumption DEF Port!Nametables, Port!NametableBase
<1> QED
  BY <1>1, <1>2, <1>3

LEMMA MaskedTwice ==
  ASSUME NEW n \in Nat
  PROVE  n % AddrSpace \in Nat /\ (n % AddrSpace) % AddrSpace = n % AddrSpace
BY PlaceFacts

LEMMA BlockOf ==
  ASSUME NEW b \in Nat \ {0}, NEW k \in Nat, NEW a \in Nat,
         k * b <= a, a < (k + 1) * b
  PROVE  a \div b = k
OBVIOUS

(* Under a header's mirroring the image of a cell of the nametables is one  *)
(* of them.                                                                 *)
LEMMA MirrorInside ==
  ASSUME NEW a \in Port!Nametables, NEW m \in Port!HeaderMirroring
  PROVE  Port!Toggle(a, m) \in Port!Nametables
<1>1. Unit \in Nat \ {0} /\ a \in Nat /\ 8 * Unit <= a /\ a < 12 * Unit
  BY GameAssumption DEF Port!Nametables, Port!NametableBase
<1>2. CASE m = 0
  <2>1. Port!Toggle(a, m) = IF (a \div Unit) % 2 = 0 THEN a + Unit ELSE a - Unit
    BY <1>1, <1>2 DEF Port!Toggle
  <2>2. PICK k \in {8, 9, 10, 11} : k * Unit <= a /\ a < (k + 1) * Unit
    BY <1>1
  <2>3. a \div Unit = k
    BY <1>1, <2>2, BlockOf
  <2> QED
    BY <1>1, <2>1, <2>2, <2>3 DEF Port!Nametables, Port!NametableBase
<1>3. CASE m = 1
  <2> DEFINE b == 2 * Unit
  <2>1. Unit * (CASE m = 0 -> 1 [] m = 1 -> 2 [] m = 2 -> 4 [] OTHER -> 8) = b
    BY <1>1, <1>3
  <2>2. Port!Toggle(a, m) = IF (a \div b) % 2 = 0 THEN a + b ELSE a - b
    BY <1>3, <2>1 DEF Port!Toggle
  <2>3. b \in Nat \ {0} /\ 4 * b <= a /\ a < 6 * b
    BY <1>1
  <2> HIDE DEF b
  <2>4. PICK k \in {4, 5} : k * b <= a /\ a < (k + 1) * b
    BY <1>1, <2>3
  <2>5. a \div b = k
    BY <1>1, <2>3, <2>4, BlockOf
  <2>6. Port!Toggle(a, m) \in Nat /\ 4 * b <= Port!Toggle(a, m) /\ Port!Toggle(a, m) < 6 * b
    BY <1>1, <2>2, <2>3, <2>4, <2>5
  <2> QED
    BY <1>1, <2>6 DEF b, Port!Nametables, Port!NametableBase
<1> QED
  BY <1>2, <1>3 DEF Port!HeaderMirroring

(* A store to a cell of the nametables reaches it and, under a header's     *)
(* mirroring, nothing outside them.                                         *)
LEMMA PokeInside ==
  ASSUME NEW r, DOMAIN r = Port!Address, NEW a \in Port!Nametables, NEW m, NEW d,
         m \notin Port!OutOfSpace
  PROVE  /\ DOMAIN Port!Poke(r, a, m, d) = Port!Address
         /\ Port!Poke(r, a, m, d)[a] = d
         /\ m \in Port!HeaderMirroring =>
            \A b \in Port!Address \ Port!Nametables : Port!Poke(r, a, m, d)[b] = r[b]
<1>1. \A b \in Port!Nametables : b \in Port!Address /\ Port!RealAddr(b) = b
  BY GameAssumption DEF Port!Nametables, Port!NametableBase, Port!Address, Port!RealAddr
<1>2. Port!Poke(r, a, m, d)
        = [r EXCEPT ![Port!RealAddr(Port!Toggle(a, m))] = d, ![a] = d]
  BY <1>1 DEF Port!Poke
<1>3. ASSUME m \in Port!HeaderMirroring
      PROVE  Port!RealAddr(Port!Toggle(a, m)) \in Port!Nametables
  BY <1>1, <1>3, MirrorInside
<1> QED
  BY <1>1, <1>2, <1>3

(* What the game's accesses do to the picture unit's address registers.     *)
LEMMA PortReads ==
  ASSUME NEW a \in {PPUSTATUS, PPUDATA, PAD}, Read(a)
  PROVE  /\ a = PPUSTATUS => Port!ReadStatus
         /\ a = PPUDATA => Port!ReadData
         /\ a = PAD => UNCHANGED portVars
         /\ nmi' = nmi
<1>1. /\ Bus!RegionOf(a) = IF a = PAD THEN "psg" ELSE "ppu"
      /\ a = PPUSTATUS => Bus!PpuReads(a) = 2
      /\ a = PPUDATA => Bus!PpuReads(a) = 7
  BY BusFacts DEF Bus!PpuReads, Bus!Start, PPUSTATUS, PPUDATA, PAD
<1>2. CASE a = PAD
  BY <1>1, <1>2 DEF Read, frameVars, PAD, PPUSTATUS, PPUDATA
<1>3. CASE a # PAD
  <2>1. PpuRead(Bus!PpuReads(a))
    BY <1>1, <1>3 DEF Read
  <2>2. nmi' = nmi
    BY <2>1 DEF PpuRead, Frame!ReadStatus, frameVars
  <2>3. Port!PpuRead(Bus!PpuReads(a))
    BY <2>1 DEF PpuRead
  <2> QED
    BY <1>1, <1>3, <2>2, <2>3 DEF Port!PpuRead, Port!STATUS, Port!DATA, PPUSTATUS, PPUDATA
<1> QED
  BY <1>2, <1>3

LEMMA PortWrites ==
  ASSUME NEW a \in Registers, NEW d, Write(a, d)
  PROVE  /\ a = PPUCTRL => Port!WriteCtrl(d) \/ Port!WriteIgnored
         /\ a = PPUMASK => Port!WriteIgnored
         /\ a = PPUADDRESS /\ ready => Port!WriteAddr(d)
         /\ a = PPUDATA => Port!WriteData(d)
         /\ a \in {OAMDMA, PAD} => UNCHANGED portVars
         /\ nmi' = nmi
<1> DEFINE psg == a \in {OAMDMA, PAD}
<1>1. /\ a \in {PPUCTRL, PPUMASK, PPUSTATUS, PPUADDRESS, PPUDATA} => ~psg
      /\ Bus!RegionOf(a) = IF psg THEN "psg" ELSE "ppu"
  BY BusFacts DEF Registers, PPUCTRL, PPUMASK, PPUSTATUS, PPUADDRESS, PPUDATA, OAMDMA, PAD
<1>2. CASE psg
  <2>1. UNCHANGED <<portVars, frameVars>>
    BY <1>1, <1>2 DEF Write
  <2> QED
    BY <1>1, <1>2, <2>1 DEF frameVars
<1>3. CASE ~psg
  <2>1. PpuWrite(Bus!PpuWrites(a), d)
    BY <1>1, <1>3 DEF Write
  <2>2. /\ Port!PpuWrite(IF Bus!PpuWrites(a) = 1 THEN Port!MISC ELSE Bus!PpuWrites(a), d)
        /\ nmi' = nmi
    <3> DEFINE reg == Bus!PpuWrites(a)
    <3>1. \/ \E b : Frame!WriteCtrl(b)
          \/ \E b : Frame!WriteMask(b)
          \/ UNCHANGED frameVars
      BY <2>1 DEF PpuWrite
    <3>2. nmi' = nmi
      BY <3>1 DEF Frame!WriteCtrl, Frame!WriteMask, frameVars
    <3> QED
      BY <2>1, <3>2 DEF PpuWrite
  <2>3. CASE a \in {PPUCTRL, PPUMASK}
    BY <1>3, <2>2, <2>3, BusFacts
       DEF Port!PpuWrite, Port!WriteCtrl, Port!CTRL, Port!MISC, Port!ADDR, Port!DATA, Port!MIRROR,
           Port!STATUS, PPUCTRL, PPUMASK, PPUADDRESS, PPUDATA
  <2>4. CASE a = PPUADDRESS
    BY <1>3, <2>2, <2>4, BusFacts
       DEF Port!PpuWrite, Port!CTRL, Port!MISC, Port!ADDR, Port!DATA, Port!MIRROR,
           Port!STATUS, PPUCTRL, PPUMASK, PPUADDRESS, PPUDATA
  <2>5. CASE a = PPUDATA
    BY <1>3, <2>2, <2>5, BusFacts
       DEF Port!PpuWrite, Port!CTRL, Port!MISC, Port!ADDR, Port!DATA, Port!MIRROR,
           Port!STATUS, PPUCTRL, PPUMASK, PPUADDRESS, PPUDATA
  <2>6. CASE a = PPUSTATUS
    BY <1>3, <2>2, <2>6 DEF PPUCTRL, PPUMASK, PPUADDRESS, PPUDATA, PPUSTATUS
  <2> QED
    BY <1>3, <2>3, <2>4, <2>5, <2>6 DEF Registers
<1> QED
  BY <1>2, <1>3

(* Steps that leave the program where it is and no address out of use.      *)
LEMMA AimStays ==
  ASSUME AimInv, UNCHANGED <<pc, halfway, stack, unsplit>>,
         left' \in [handlers : Nat \ {0}, resets : Nat, presses : Nat],
         left'.handlers = left.handlers,
         \/ UNCHANGED portVars
         \/ UNCHANGED dataVars
         \/ \E m : Port!WriteMirroring(m),
         ready' = ready \/ ready' = TRUE,
         nmi' \in BOOLEAN, nmi' => ready' /\ (nmi \/ Len(stack) < left.handlers)
  PROVE  AimInv' /\ ppu_ram' = ppu_ram
<1>1. /\ UNCHANGED <<ppu_addr_latch, addr_received_high_byte, ppu_2007_first_read, step, ppu_ram>>
      /\ PPUADDR' = PPUADDR \/ PPUADDR' = PPUADDR % AddrSpace
  BY DEF portVars, dataVars, Port!WriteMirroring, Port!latches, Port!pair, AimInv, PortHeld
<1>2. PPUADDR' \in Nat /\ PPUADDR' % AddrSpace = PPUADDR % AddrSpace
  BY <1>1, MaskedTwice DEF AimInv, PortHeld
<1>3. PortHeld'
  BY <1>1, <1>2 DEF AimInv, PortHeld, Port!Address
<1>4. Bounded'
  BY DEF AimInv, Bounded
<1>5. Tracked'
  BY <1>1, <1>2 DEF AimInv, Tracked, Undisturbed, Resumed, HighSent, Aimed, Shallow
<1> QED
  BY <1>1, <1>3, <1>4, <1>5 DEF AimInv

(* Instructions of the program and those of a handler that lie before or    *)
(* after its stores to the picture unit.                                    *)
LEMMA AimLoads ==
  ASSUME GameInv, AimInv, LoadStep, UNCHANGED left
  PROVE  AimInv' /\ ppu_ram' = ppu_ram
<1>1. /\ pc \in {"wait1", "wait2", "status", "poll"} /\ Read(Loads[pc].at)
      /\ pc' = Loads[pc].next /\ UNCHANGED <<stack, halfway>>
      /\ unsplit' => unsplit \/ pc = "status"
  BY LoadListing DEF LoadStep
<1>2. UNCHANGED <<ready, mirroring>>
  BY <1>1, ReadKeeps
<1>3. ~halfway
  BY <1>1 DEF AimInv, Bounded
<1>4. CASE pc = "poll"
  <2>1. Loads[pc].at = PAD /\ pc' = "tally"
    BY <1>1, <1>4, LoadListing DEF LDA
  <2>2. UNCHANGED portVars /\ nmi' = nmi
    BY <1>1, <2>1, PortReads
  <2>3. unsplit' => unsplit
    BY <1>1, <1>4
  <2>4. (Undisturbed => Undisturbed') /\ Resumed'
    BY <1>4, <2>1, <2>2
       DEF Undisturbed, Resumed, After, Aimed, portVars, dataVars
  <2> QED
    BY <1>1, <1>2, <1>3, <1>4, <2>1, <2>2, <2>3, <2>4
       DEF AimInv, Bounded, PortHeld, Tracked, Shallow, portVars, dataVars, Port!Address
<1>5. CASE pc # "poll"
  <2>1. Loads[pc].at = PPUSTATUS /\ pc' \in {"wait1", "wait2", "spr_on", "high"}
    BY <1>1, <1>5, LoadListing DEF LDA
  <2>2. Port!ReadStatus /\ nmi' = nmi
    BY <1>1, <2>1, PortReads
  <2>3. /\ PPUADDR' = PPUADDR % AddrSpace /\ addr_received_high_byte' = FALSE
        /\ ppu_addr_latch' = 0
        /\ UNCHANGED <<step, ppu_ram>>
    BY <2>2 DEF Port!ReadStatus
  <2>4. Undisturbed' /\ Resumed'
    BY <2>1, <2>3 DEF Undisturbed, Resumed, After
  <2>5. PortHeld'
    BY <1>2, <2>3, MaskedTwice DEF AimInv, PortHeld, Port!Address
  <2> QED
    BY <1>1, <1>2, <1>3, <2>2, <2>3, <2>4, <2>5 DEF AimInv, Bounded, Tracked
<1> QED
  BY <1>4, <1>5

LEMMA AimStoreReads ==
  ASSUME GameInv, AimInv, StoreRead, UNCHANGED left
  PROVE  AimInv' /\ ppu_ram' = ppu_ram
<1>1. /\ pc \in StoreLabel /\ Read(Stores[pc].at) /\ ReadMatters(Stores[pc].at)
      /\ ~halfway /\ halfway' = TRUE /\ UNCHANGED <<pc, stack, unsplit>>
  BY Listing DEF StoreRead, historyVars
<1>2. UNCHANGED <<ready, mirroring>>
  BY <1>1, ReadKeeps
<1>3. \/ pc = "put" /\ Stores[pc].at = PPUDATA
      \/ pc \in {"strobe1", "strobe0"} /\ Stores[pc].at = PAD
  BY <1>1, Listing DEF StoreLabel, STA, ReadMatters, PPUCTRL, PPUMASK, PPUSTATUS, PPUADDRESS,
     PPUDATA, OAMDMA, PAD
<1>4. CASE pc = "put"
  <2>1. Port!ReadData /\ nmi' = nmi
    BY <1>1, <1>3, <1>4, PortReads DEF PPUSTATUS, PPUDATA, PAD
  <2>2. /\ PPUADDR' = IF ppu_2007_first_read THEN PPUADDR % AddrSpace
                      ELSE (PPUADDR % AddrSpace) + 1
        /\ UNCHANGED <<step, ppu_ram, addr_received_high_byte, ppu_addr_latch>>
    BY <2>1 DEF Port!ReadData, Port!pair, AimInv, PortHeld
  <2>3. PPUADDR' \in Nat /\ (ppu_2007_first_read => PPUADDR' % AddrSpace = PPUADDR % AddrSpace)
    BY <2>2, MaskedTwice DEF AimInv, PortHeld
  <2>4. Aimed => Aimed' \/ PPUADDR' % AddrSpace = Place + 1
    BY <2>2, PlaceFacts DEF Aimed
  <2>5. Undisturbed => Undisturbed'
    BY <1>1, <1>4, <2>2, <2>3 DEF Undisturbed, Aimed, After
  <2>6. Resumed => Resumed'
    BY <1>1, <1>4, <2>4 DEF Resumed
  <2>7. PortHeld'
    BY <1>2, <2>2, <2>3 DEF AimInv, PortHeld, Port!Address
  <2> QED
    BY <1>1, <1>2, <1>4, <2>1, <2>2, <2>5, <2>6, <2>7 DEF AimInv, Bounded, Tracked, Shallow
<1>5. CASE pc # "put"
  <2>1. UNCHANGED portVars /\ nmi' = nmi
    BY <1>1, <1>3, <1>5, PortReads DEF PPUSTATUS, PPUDATA, PAD
  <2>2. (Undisturbed => Undisturbed') /\ Resumed'
    BY <1>1, <1>3, <1>5, <2>1 DEF Undisturbed, Resumed, After, Aimed, portVars, dataVars
  <2> QED
    BY <1>1, <1>2, <1>3, <1>5, <2>1, <2>2
       DEF AimInv, Bounded, PortHeld, Tracked, Shallow, portVars, dataVars, Port!Address
<1> QED
  BY <1>4, <1>5

(* The store to $2007 itself.                                               *)
LEMMA AimPut ==
  ASSUME GameInv, AimInv, StoreWrite, UNCHANGED left, pc = "put"
  PROVE  /\ AimInv'
         /\ unsplit => ppu_ram'[Place] = A
         /\ Shallow /\ mirroring \in Port!HeaderMirroring =>
              \A a \in Port!Address \ Port!Nametables : ppu_ram'[a] = ppu_ram[a]
<1>1. /\ Write(PPUDATA, A) /\ PPUDATA \in Registers /\ pc' = "strobe1"
      /\ halfway' = FALSE /\ UNCHANGED <<stack, unsplit>>
  <2>1. Stores[pc] = STA(PPUDATA, A, "strobe1")
    BY Listing
  <2> QED
    BY <2>1 DEF StoreWrite, STA, historyVars, Registers
<1>2. UNCHANGED <<ready, mirroring>>
  BY <1>1, WriteKeeps
<1>3. Port!WriteData(A) /\ nmi' = nmi
  BY <1>1, PortWrites
<1> DEFINE to == PPUADDR % AddrSpace
<1>4. /\ ppu_ram' = Port!Poke(ppu_ram, to, mirroring, A)
      /\ PPUADDR' = to /\ UNCHANGED <<step, addr_received_high_byte, ppu_addr_latch>>
      /\ mirroring \notin Port!OutOfSpace
  BY <1>3 DEF Port!WriteData, Port!latches, Port!pair
<1>5. to \in Nat /\ to % AddrSpace = to
  BY MaskedTwice DEF AimInv, PortHeld
<1> HIDE DEF to
<1>6. to \in Port!Nametables =>
        /\ DOMAIN ppu_ram' = Port!Address /\ ppu_ram'[to] = A
        /\ mirroring \in Port!HeaderMirroring =>
           \A a \in Port!Address \ Port!Nametables : ppu_ram'[a] = ppu_ram[a]
  BY <1>4, PokeInside DEF AimInv, PortHeld
<1>7. Undisturbed => to = Place
  BY DEF Undisturbed, Aimed, to
<1>8. Resumed => to \in {Place, Place + 1}
  BY DEF Resumed, Aimed, to
<1>9. stack # <<>>
  BY DEF GameInv, Stacked, Outer
<1>10. DOMAIN ppu_ram' = Port!Address
  BY <1>4 DEF AimInv, PortHeld, Port!Poke
<1>11. PortHeld'
  BY <1>2, <1>4, <1>5, <1>10 DEF AimInv, PortHeld, Port!Address
<1>12. (Undisturbed => Undisturbed') /\ Resumed'
  BY <1>1, <1>4, <1>5, <1>7 DEF Undisturbed, Resumed, After, Aimed
<1>13. AimInv'
  BY <1>1, <1>2, <1>3, <1>11, <1>12 DEF AimInv, Bounded, Tracked, Shallow
<1> QED
  BY <1>6, <1>7, <1>8, <1>9, <1>13, PlaceFacts DEF AimInv, Tracked

(* The bits of PPUCTRL the game stores leave the increment at one.          *)
LEMMA StepStaysOne ==
  ASSUME NEW d \in {0, NmiBit}, Port!WriteCtrl(d)
  PROVE  step' = 1
<1>1. (d \div 4) % 2 = 0
  <2>1. PICK k \in Nat : PageSize = 16 * k
    BY GameAssumption
  <2>2. NmiBit = 8 * k
    BY <2>1 DEF NmiBit
  <2>3. NmiBit \div 4 = 2 * k
    BY <2>2
  <2> QED
    BY <2>1, <2>3
<1> QED
  BY <1>1 DEF Port!WriteCtrl

LEMMA AimWrites ==
  ASSUME GameInv, AimInv, StoreWrite, UNCHANGED left, pc # "put"
  PROVE  AimInv' /\ ppu_ram' = ppu_ram
<1> DEFINE at == Stores[pc].at
           d == Stores[pc].data
<1>1. /\ pc \in StoreLabel /\ Write(at, d) /\ at \in Registers
      /\ pc' = Stores[pc].next /\ halfway' = FALSE /\ UNCHANGED <<stack, unsplit>>
  BY Listing, StoresInPlace DEF StoreWrite, historyVars
<1>2. UNCHANGED <<ready, mirroring>> /\ nmi' = nmi
  BY <1>1, WriteKeeps, PortWrites
<1> HIDE DEF at, d
<1>3. CASE pc \in {"nmi_off", "spr_off", "spr_on", "nmi_on"}
  <2>1. /\ pc' \in {"spr_off", "wait1", "nmi_on", "main"}
        /\ at \in {PPUCTRL, PPUMASK}
        /\ at = PPUCTRL => d \in {0, NmiBit}
        /\ at = PPUMASK => d \in {0, SpriteBit}
    BY <1>1, <1>3, Listing DEF STA, at, d, PPUCTRL, PPUMASK
  <2>2. stack = <<>>
    BY <1>3 DEF GameInv, Stacked, Handler
  <2>3. /\ Port!WriteIgnored \/ Port!WriteCtrl(d)
        /\ (Port!WriteCtrl(d) => d \in {0, NmiBit} \/ Port!WriteIgnored)
    BY <1>1, <2>1, PortWrites
  <2>4. step' = 1
    <3>1. CASE Port!WriteIgnored
      BY <3>1 DEF Port!WriteIgnored, AimInv, PortHeld
    <3>2. CASE Port!WriteCtrl(d) /\ d \in {0, NmiBit}
      BY <3>2, StepStaysOne
    <3> QED
      BY <2>3, <3>1, <3>2
  <2>5. /\ PPUADDR' = PPUADDR % AddrSpace
        /\ UNCHANGED <<ppu_ram, ppu_addr_latch>>
    BY <2>3 DEF Port!WriteIgnored, Port!WriteCtrl, Port!latches, Port!pair
  <2>6. PortHeld'
    BY <1>2, <2>4, <2>5, MaskedTwice DEF AimInv, PortHeld, Port!Address
  <2>7. Undisturbed'
    BY <2>1 DEF Undisturbed, After
  <2> QED
    BY <1>1, <1>2, <2>2, <2>5, <2>6, <2>7 DEF AimInv, Bounded, Tracked
<1>4. CASE pc \in {"copy", "strobe1", "strobe0"}
  <2>1. at \in {OAMDMA, PAD}
        /\ (pc = "copy" => pc' = "status")
        /\ (pc # "copy" => pc' \in After /\ pc \in After)
    BY <1>1, <1>4, Listing DEF STA, at, After
  <2>2. UNCHANGED portVars
    BY <1>1, <2>1, PortWrites
  <2>3. (Undisturbed => Undisturbed') /\ Resumed'
    BY <1>4, <2>1, <2>2 DEF Undisturbed, Resumed, After, Aimed, portVars, dataVars
  <2> QED
    BY <1>1, <1>2, <2>2, <2>3
       DEF AimInv, Bounded, PortHeld, Tracked, Shallow, portVars, dataVars, Port!Address
<1>5. CASE pc \in {"high", "low"}
  <2>1. /\ at = PPUADDRESS
        /\ pc = "high" => pc' = "low" /\ d = Place \div PageSize
        /\ pc = "low" => pc' = "put" /\ d = Place % PageSize
    BY <1>1, <1>5, Listing DEF STA, at, d
  <2>2. stack # <<>>
    BY <1>5 DEF GameInv, Stacked, Outer
  <2>3. Port!WriteAddr(d)
    BY <1>1, <2>1, <2>2, PortWrites DEF AimInv, Bounded
  <2>4. /\ addr_received_high_byte =>
             PPUADDR' = ppu_addr_latch * PageSize + d /\ ~addr_received_high_byte'
        /\ ~addr_received_high_byte =>
             /\ ppu_addr_latch' = d /\ PPUADDR' = PPUADDR % AddrSpace
             /\ addr_received_high_byte'
        /\ ppu_2007_first_read' /\ UNCHANGED <<step, ppu_ram>>
    BY <2>3 DEF Port!WriteAddr
  <2>5. pc = "low" /\ HighSent => PPUADDR' = Place /\ ~addr_received_high_byte'
    BY <2>1, <2>4, PlaceFacts DEF HighSent
  <2>6. Undisturbed => Undisturbed'
    BY <1>1, <1>5, <2>1, <2>4, <2>5, PlaceFacts DEF Undisturbed, Aimed, HighSent, After
  <2>7. Resumed => Resumed'
    BY <1>1, <1>5, <2>1, <2>4, <2>5, PlaceFacts, MaskedTwice
       DEF Resumed, Aimed, HighSent, AimInv, PortHeld
  <2>8. PPUADDR' \in Nat /\ ppu_addr_latch' \in Nat
    <3>1. PageSize \in Nat /\ d \in Nat
      BY <1>5, <2>1, GameAssumption
    <3>2. /\ ppu_addr_latch' = ppu_addr_latch \/ ppu_addr_latch' = d
          /\ PPUADDR' = PPUADDR % AddrSpace \/ PPUADDR' = ppu_addr_latch * PageSize + d
      BY <2>3 DEF Port!WriteAddr
    <3> QED
      BY <3>1, <3>2, MaskedTwice DEF AimInv, PortHeld
  <2> QED
    BY <1>1, <1>2, <1>5, <2>1, <2>2, <2>4, <2>6, <2>7, <2>8
       DEF AimInv, Bounded, PortHeld, Tracked, Shallow, Port!Address
<1> QED
  BY <1>1, <1>3, <1>4, <1>5 DEF StoreLabel

LEMMA AimReturns ==
  ASSUME GameInv, AimInv, ReturnFromNmi, UNCHANGED left
  PROVE  AimInv' /\ ppu_ram' = ppu_ram
<1> DEFINE S == [pc : Outer \cup Handler, A : Nat]
           n == Len(stack)
<1>1. /\ pc = "rti" /\ stack' = SubSeq(stack, 1, n - 1) /\ unsplit' = FALSE
      /\ UNCHANGED <<deviceVars, halfway>>
  BY DEF ReturnFromNmi
<1>2. UNCHANGED portVars /\ UNCHANGED <<ready, nmi>>
  BY <1>1 DEF deviceVars, frameVars
<1>3. ~halfway
  BY <1>1 DEF AimInv, Bounded
<1>4. stack # <<>> /\ stack \in Seq(S)
  BY <1>1 DEF GameInv, Stacked, Outer
<1>5. n \in Nat /\ n > 0
  BY <1>4, EmptySeq
<1>7. stack' \in Seq(S)
  BY ReturnKeeps DEF GameInv, Stacked
<1> HIDE DEF S
<1>6. Len(stack') = n - 1
  <2>1. \A k \in 1 .. n - 1 : stack[k] \in S
    BY <1>4, <1>5, ElementOfSeq
  <2>2. 1 \in Int /\ n - 1 \in Int
    BY <1>5
  <2>3. Len(stack') = IF 1 <= n - 1 THEN n - 1 - 1 + 1 ELSE 0
    BY <1>1, <2>1, <2>2, SubSeqProperties
  <2> HIDE DEF n
  <2> QED
    BY <1>5, <2>3
<1> HIDE DEF n
<1>8. PortHeld'
  BY <1>2 DEF AimInv, PortHeld, portVars, dataVars, Port!Address
<1>9. Bounded'
  BY <1>1, <1>2, <1>3, <1>4, <1>5, <1>6 DEF AimInv, Bounded, n
<1>10. ASSUME Shallow', stack' # <<>> PROVE Resumed' /\ Len(stack') # 2
  <2>1. Shallow /\ left.handlers \in Nat /\ n <= left.handlers
    BY <1>10 DEF Shallow, AimInv, Bounded, n
  <2>2. Len(stack') # 0
    BY <1>7, <1>10, EmptySeq
  <2>3. n = 2
    BY <1>5, <1>6, <2>1, <2>2 DEF Shallow
  <2>4. Undisturbed
    BY <2>1, <2>3 DEF AimInv, Tracked, n
  <2>5. ~addr_received_high_byte /\ Aimed
    BY <1>1, <2>4 DEF Undisturbed, After
  <2> QED
    BY <1>2, <1>6, <2>3, <2>5 DEF Resumed, Aimed, portVars, dataVars
<1>11. Tracked'
  <2>1. Shallow' /\ Len(stack') = 2 => stack' # <<>>
    BY Len(<<>>) = 0
  <2> QED
    BY <1>1, <1>10, <2>1 DEF Tracked
<1> QED
  BY <1>2, <1>8, <1>9, <1>11 DEF AimInv, portVars, dataVars

LEMMA AimInterrupts ==
  ASSUME GameInv, AimInv, Interrupt
  PROVE  AimInv' /\ ppu_ram' = ppu_ram
<1>1. /\ ~halfway /\ nmi /\ nmi' = FALSE /\ pc' = "copy" /\ unsplit' = FALSE
      /\ stack' = Append(stack, [pc |-> pc, A |-> A])
      /\ UNCHANGED <<portVars, halfway, left, ready>>
  BY DEF Interrupt, TakeNmi, Frame!TakeNmi
<1>2. stack \in Seq([pc : Outer \cup Handler, A : Nat])
  BY DEF GameInv, Stacked
<1>3. Len(stack) \in Nat /\ Len(stack') = Len(stack) + 1
  BY <1>1, <1>2
<1>4. Bounded'
  <2>1. /\ left \in [handlers : Nat \ {0}, resets : Nat, presses : Nat]
        /\ ready /\ Len(stack) < left.handlers
    BY <1>1 DEF AimInv, Bounded
  <2>2. left.handlers \in Nat
    BY <2>1
  <2>3. Len(stack') <= left.handlers
    BY <1>3, <2>1, <2>2
  <2> QED
    BY <1>1, <2>1, <2>3 DEF Bounded
<1>5. PortHeld'
  BY <1>1 DEF AimInv, PortHeld, portVars, dataVars, Port!Address
<1>6. Undisturbed' /\ Resumed'
  BY <1>1 DEF Undisturbed, Resumed, After
<1> QED
  BY <1>1, <1>4, <1>5, <1>6 DEF AimInv, Tracked, portVars, dataVars

LEMMA AimResets ==
  ASSUME GameInv, AimInv, ResetButton
  PROVE  AimInv' /\ ppu_ram' = ppu_ram
<1>1. UNCHANGED portVars /\ UNCHANGED <<ready, nmi, halfway>>
  BY DEF ResetButton, deviceVars, frameVars
<1>2. /\ left' \in [handlers : Nat \ {0}, resets : Nat, presses : Nat]
      /\ left'.handlers = left.handlers
  <2>1. left \in [handlers : Nat \ {0}, resets : Nat, presses : Nat]
    BY DEF AimInv, Bounded
  <2>2. \/ left' = left
        \/ left.resets > 0 /\ left' = [left EXCEPT !.resets = @ - 1]
    BY DEF ResetButton
  <2> QED
    BY <2>1, <2>2
<1>3. CASE UNCHANGED <<pc, stack, unsplit>>
  BY <1>1, <1>2, <1>3, AimStays DEF AimInv, Bounded
<1>4. CASE ~halfway /\ pc' = "nmi_off" /\ stack' = <<>> /\ unsplit' = FALSE
  <2>1. Len(stack') = 0 /\ Len(stack') # 2
    BY <1>4
  <2>2. Bounded'
    BY <1>1, <1>2, <1>4, <2>1 DEF AimInv, Bounded
  <2>3. PortHeld'
    BY <1>1 DEF AimInv, PortHeld, portVars, dataVars, Port!Address
  <2> QED
    BY <1>1, <1>4, <2>1, <2>2, <2>3 DEF AimInv, Tracked, portVars, dataVars
<1> QED
  BY <1>3, <1>4 DEF ResetButton

(* What a step may do to PPU RAM.                                           *)
Heals ==
  /\ pc = "put" /\ halfway /\ ~halfway' /\ unsplit => ppu_ram'[Place] = A
  /\ left.handlers <= 2 /\ mirroring \in Port!HeaderMirroring =>
       \A a \in Port!Address \ Port!Nametables : ppu_ram'[a] = ppu_ram[a]

LEMMA AimStep ==
  ASSUME GameInv, LoaderInv, AimInv, [ConsoleNext]_consoleVars
  PROVE  AimInv' /\ Heals
<1>1. /\ left \in [handlers : Nat \ {0}, resets : Nat, presses : Nat]
      /\ nmi \in BOOLEAN
      /\ nmi => ready
  BY DEF AimInv, Bounded, PortHeld
<1>2. ASSUME UNCHANGED halfway, ppu_ram' = ppu_ram PROVE Heals
  BY <1>2 DEF Heals
<1>3. CASE LoadCartridge
  <2>1. /\ UNCHANGED <<frameVars, cpuVars, left, unsplit>>
        /\ \/ UNCHANGED portVars
           \/ Port!WriteMirroring(image.mirroring)
    BY <1>3 DEF LoadCartridge, historyVars
  <2>2. \/ UNCHANGED portVars
        \/ \E m : Port!WriteMirroring(m)
    BY <2>1
  <2>3. UNCHANGED <<pc, halfway, stack, unsplit, left, ready, nmi>>
    BY <2>1 DEF frameVars, cpuVars
  <2>4. AimInv' /\ ppu_ram' = ppu_ram
    BY <1>1, <2>2, <2>3, AimStays
  <2> QED
    BY <1>2, <2>3, <2>4
<1>4. CASE OtherProgram
  <2>1. UNCHANGED <<dataVars, frameVars, cpuVars, left, historyVars>>
    BY <1>4 DEF OtherProgram
  <2>3. UNCHANGED <<pc, halfway, stack, unsplit, left, ready, nmi>>
    BY <2>1 DEF frameVars, cpuVars, historyVars
  <2>4. AimInv' /\ ppu_ram' = ppu_ram
    BY <1>1, <2>1, <2>3, AimStays
  <2> QED
    BY <1>2, <2>3, <2>4
<1>5. CASE Keyboard
  <2>1. UNCHANGED <<portVars, frameVars, cpuVars, left, unsplit>>
    BY <1>5 DEF Keyboard
  <2>2. UNCHANGED <<pc, halfway, stack, unsplit, left, ready, nmi>>
    BY <2>1 DEF frameVars, cpuVars
  <2>3. AimInv' /\ ppu_ram' = ppu_ram
    BY <1>1, <2>1, <2>2, AimStays
  <2> QED
    BY <1>2, <2>2, <2>3
<1>6. CASE Line
  <2>1. UNCHANGED <<portVars, cpuVars, left, unsplit>> /\ ready' = TRUE
    BY <1>6 DEF Line, Frame!DrawLine, Frame!StartVblank, Frame!EndFrame
  <2>2. nmi' = nmi \/ nmi' = (nmi \/ generates_nmi)
    BY <1>6 DEF Line, Frame!DrawLine, Frame!StartVblank, Frame!EndFrame
  <2>3. nmi' # nmi => Len(stack) < left.handlers
    BY <1>6 DEF Line
  <2>4. nmi' \in BOOLEAN
    <3>1. ASSUME nmi' = nmi PROVE nmi' \in BOOLEAN
      BY <1>1, <3>1
    <3>2. ASSUME nmi' = (nmi \/ generates_nmi) PROVE nmi' \in BOOLEAN
      BY <3>2, Zenon
    <3> QED
      BY <2>2, <3>1, <3>2
  <2>5. nmi' => nmi \/ Len(stack) < left.handlers
    BY <2>3
  <2>6. UNCHANGED <<pc, halfway, stack, unsplit, left>>
    BY <2>1 DEF cpuVars
  <2>7. AimInv' /\ ppu_ram' = ppu_ram
    BY <1>1, <2>1, <2>4, <2>5, <2>6, AimStays
  <2> QED
    BY <1>2, <2>6, <2>7
<1>7. CASE Instruction
  <2>1. UNCHANGED left
    BY <1>7 DEF Instruction
  <2>2. CASE LoadStep
    BY <1>2, <2>1, <2>2, AimLoads DEF LoadStep
  <2>3. CASE StoreRead
    <3>1. halfway'
      BY <2>3 DEF StoreRead
    <3> QED
      BY <2>1, <2>3, <3>1, AimStoreReads DEF Heals
  <2>4. CASE StoreWrite /\ pc = "put"
    BY <2>1, <2>4, AimPut DEF Heals, Shallow
  <2>5. CASE StoreWrite /\ pc # "put"
    BY <2>1, <2>5, AimWrites DEF Heals
  <2>6. CASE ReturnFromNmi
    BY <1>2, <2>1, <2>6, AimReturns DEF ReturnFromNmi
  <2>7. CASE Tally
    <3>1. /\ UNCHANGED portVars /\ UNCHANGED <<ready, nmi, halfway, stack, unsplit>>
          /\ pc = "tally" /\ pc' = "rti"
      BY <2>7 DEF Tally, deviceVars, frameVars
    <3>2. (Undisturbed => Undisturbed') /\ Resumed'
      BY <3>1 DEF Undisturbed, Resumed, After, Aimed, portVars, dataVars
    <3>3. AimInv'
      BY <2>1, <3>1, <3>2
         DEF AimInv, Bounded, PortHeld, Tracked, Shallow, portVars, dataVars, Port!Address
    <3> QED
      BY <1>2, <3>1, <3>3 DEF portVars, dataVars
  <2> QED
    BY <1>7, <2>2, <2>3, <2>4, <2>5, <2>6, <2>7 DEF Instruction
<1>8. CASE Interrupt
  BY <1>2, <1>8, AimInterrupts DEF Interrupt, TakeNmi
<1>9. CASE ResetButton
  BY <1>2, <1>9, AimResets DEF ResetButton
<1>10. CASE UNCHANGED consoleVars
  <2>1. UNCHANGED <<portVars, pc, halfway, stack, unsplit, left, ready, nmi>>
    BY <1>10 DEF consoleVars, deviceVars, frameVars, cpuVars, historyVars
  <2>2. AimInv' /\ ppu_ram' = ppu_ram
    BY <1>1, <2>1, AimStays
  <2> QED
    BY <1>2, <2>1, <2>2
<1> QED
  BY <1>3, <1>4, <1>5, <1>6, <1>7, <1>8, <1>9, <1>10 DEF ConsoleNext

LEMMA AimStart == ConsoleInit => AimInv
<1> SUFFICES ASSUME ConsoleInit PROVE AimInv
  OBVIOUS
<1>1. /\ stack = <<>> /\ ~unsplit /\ halfway = FALSE /\ left \in Upsets
  BY DEF ConsoleInit, Init
<1>2. left \in [handlers : Nat \ {0}, resets : Nat, presses : Nat]
  <2>1. MaxPresses \in Nat
    BY GameAssumption
  <2>2. left \in [handlers : Nat \ {0}, resets : Nat, presses : 0 .. MaxPresses]
    BY <1>1, GameAssumption
  <2> QED
    BY <2>1, <2>2
<1>3. /\ PPUADDR = 0 /\ ppu_addr_latch = 0 /\ step = 1
      /\ ppu_ram = [a \in Port!Address |-> 0]
  BY DEF ConsoleInit, Port!Init
<1>4. nmi = FALSE
  BY DEF ConsoleInit, Frame!Init
<1>5. Len(stack) = 0 /\ Len(stack) # 2
  BY <1>1
<1>6. left.handlers \in Nat
  BY <1>2
<1>7. Bounded
  <2>1. 0 <= left.handlers
    BY <1>6
  <2>2. ~nmi /\ ~halfway /\ nmi \in BOOLEAN
    BY <1>1, <1>4
  <2> QED
    BY <1>1, <1>2, <1>5, <2>1, <2>2 DEF Bounded
<1>8. PortHeld
  BY <1>1, <1>3 DEF PortHeld
<1>9. Tracked
  BY <1>1, <1>5 DEF Tracked
<1> QED
  BY <1>7, <1>8, <1>9 DEF AimInv

(* Whatever resets, lines and handlers come in between, and wherever: a     *)
(* handler that nothing splits writes its cell and not another; and where   *)
(* one handler at most interrupts another none writes outside the           *)
(* nametables, though half of its address, or the step to the next cell,    *)
(* may be the other's.                                                      *)
THEOREM HandlersAim == ConsoleSpec => NametableHeals
<1>1. ConsoleInit => GameInv /\ AimInv
  BY GameStart, AimStart
<1>2. GameInv /\ AimInv /\ LoaderInv /\ [ConsoleNext]_consoleVars => GameInv' /\ AimInv'
  BY GameStep, AimStep
<1>3. GameInv /\ AimInv /\ LoaderInv /\ [ConsoleNext]_consoleVars => [Heals]_consoleVars
  BY AimStep
<1>4. NametableHeals <=> [][Heals]_consoleVars
  BY PTL DEF NametableHeals, Heals
<1> QED
  BY <1>1, <1>2, <1>3, <1>4, ImplementsLoader, LoaderInvariance, PTL DEF ConsoleSpec

=============================================================================
