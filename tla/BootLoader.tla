------------------------------ MODULE BootLoader ------------------------------
(***************************************************************************)
(* boot.c: the cartridge's file is read into a buffer of zeros, its image  *)
(* from front to back from there into the machine's RAM, and a reset       *)
(* starts the program.  The image is a header, the program's blocks and    *)
(* the picture pages; the program lies in RAM like everything else, so the *)
(* running program may store over it.                                      *)
(***************************************************************************)
EXTENDS Naturals, Sequences

CONSTANTS
  Blocks,      (* contents of a program block                               *)
  Pages,       (* contents of a picture page                                *)
  Stored,      (* what a program may make of a block by storing into it     *)
  Mappers,     (* mmc_id of the headers                                     *)
  Cartridges,  (* the images there are                                      *)
  RomSize,     (* rom and buf in picture pages: 128                         *)
  MaxBlocks, MaxPages, MaxStores

Image ==
  [signed : BOOLEAN,
   mapper : Mappers,
   program : UNION {[1 .. n -> Blocks] : n \in 0 .. MaxBlocks},
   pages : UNION {[1 .. n -> Pages] : n \in 0 .. MaxPages},
   mirroring : {0, 1}]

ASSUME ImageAssumption ==
  /\ RomSize \in Nat
  /\ MaxBlocks \in Nat /\ MaxPages \in Nat /\ MaxStores \in Nat
  /\ Mappers \subseteq 0 .. 15
  /\ Cartridges \subseteq Image

VARIABLES
  image,       (* [signed, mapper, program, pages, mirroring], as its       *)
               (* header has it                                             *)
  held,        (* the parts of it the file holds to their ends              *)
  off,         (* what romread has read: parts of the image                 *)
  loading,     (* the part of fce_load_rom to come                          *)
  memory,      (* blocks at FIRST_CODE_OFFSET and SECOND_CODE_OFFSET        *)
  chr,         (* the slots mmc_append_chr_rom_page has filled              *)
  patterns,    (* the pattern tables, at 0x16000                            *)
  mirroring,
  started,     (* the block whose last words the reset vector came from     *)
  stores

vars == <<image, held, off, loading, memory, chr, patterns, mirroring, started,
          stores>>

None == "none"     (* RAM as it comes                                       *)
Zeros == "zeros"   (* a part of rom the file has not filled                 *)
Off == "off"       (* not reset yet                                         *)

Parts == 1 + Len(image.program) + Len(image.pages)

TypeOK ==
  /\ image \in Cartridges /\ held \in 0 .. Parts
  /\ off \in 0 .. 1 + MaxBlocks + MaxPages
  /\ loading \in
       {"file", "header", "program", "pages", "done", "refused", "bare",
        "overrun"}
  /\ memory \in [{1, 2} -> Blocks \cup Stored \cup {None, Zeros}]
  /\ chr \in Seq(Pages \cup {Zeros}) /\ Len(chr) <= MaxPages
  /\ patterns \in Pages \cup {None, Zeros} /\ mirroring \in 0 .. 6
  /\ started \in Blocks \cup Stored \cup {None, Zeros, Off}
  /\ stores \in 0 .. MaxStores

Init ==
  /\ image \in Cartridges /\ held \in 0 .. Parts
  /\ off = 0 /\ loading = "file"
  /\ memory = [b \in {1, 2} |-> None]
  /\ chr = <<>> /\ patterns = None /\ mirroring = 0
  /\ started = Off
  /\ stores = 0

-----------------------------------------------------------------------------
(* xiaobawang_init and nes6502_load_firmware: a machine may be started      *)
(* without a cartridge, or with one that is not found.                      *)
OpenFile ==
  /\ loading = "file" /\ loading' \in {"header", "refused", "bare"}
  /\ UNCHANGED <<image, held, off, memory, chr, patterns, mirroring, started,
                 stores>>

(* The part of the image at an offset, as romread copies it to buf, whether *)
(* the file is as long as its header says or not.                           *)
Rom(at) ==
  IF at >= held THEN Zeros
  ELSE IF at <= Len(image.program) THEN image.program[at]
  ELSE image.pages[at - Len(image.program)]

ReadHeader ==
  /\ loading = "header"
  /\ loading' = IF held > 0 /\ image.signed THEN "program" ELSE "refused"
  /\ off' = 1
  /\ UNCHANGED <<image, held, memory, chr, patterns, mirroring, started,
                 stores>>

Loadable == image.mapper \in {0, 3}

(* What lies in rom to the end of so many blocks and pages: the header      *)
(* takes less than a page, a block takes two.                               *)
Fits(blocks, pages) == 2 * blocks + pages < RomSize

(* Slip: a program of one block is put in the first half only.              *)
ReadProgramOnce ==
  /\ loading = "program" /\ Fits(Len(image.program), 0)
  /\ loading' = IF Loadable THEN "pages" ELSE "refused"
  /\ memory' = [b \in {1, 2} |-> IF Loadable /\ b <= Len(image.program)
                                 THEN Rom(off + b - 1) ELSE memory[b]]
  /\ off' = off + Len(image.program)
  /\ UNCHANGED <<image, held, chr, patterns, mirroring, started, stores>>

(* One block is put in both halves; of more than two the rest is read and   *)
(* not used, and of none the zeros in buf are.  Mappers 0 and 3 are loaded  *)
(* alike.                                                                   *)
ReadProgram ==
  /\ loading = "program" /\ Fits(Len(image.program), 0)
  /\ loading' = IF Loadable THEN "pages" ELSE "refused"
  /\ memory' = [b \in {1, 2} |->
                  IF ~Loadable THEN memory[b]
                  ELSE CASE Len(image.program) = 0 -> Zeros
                         [] Len(image.program) = 1 -> Rom(off)
                         [] OTHER -> Rom(off + b - 1)]
  /\ off' = off + Len(image.program)
  /\ UNCHANGED <<image, held, chr, patterns, mirroring, started, stores>>

(* Slip: every page is shown in turn.                                       *)
AppendPageShown ==
  /\ loading = "pages" /\ Len(chr) < Len(image.pages)
  /\ Fits(Len(image.program), Len(chr) + 1)
  /\ chr' = Append(chr, Rom(off)) /\ off' = off + 1
  /\ patterns' = Rom(off)
  /\ UNCHANGED <<image, held, loading, memory, mirroring, started, stores>>

AppendPage ==
  /\ loading = "pages" /\ Len(chr) < Len(image.pages)
  /\ Fits(Len(image.program), Len(chr) + 1)
  /\ chr' = Append(chr, Rom(off)) /\ off' = off + 1
  /\ patterns' = IF chr = <<>> THEN Rom(off) ELSE patterns
  /\ UNCHANGED <<image, held, loading, memory, mirroring, started, stores>>

(* Nothing keeps the copy of a larger image inside rom and buf.  What it    *)
(* does is undefined, and nothing is said of the machine from there on.     *)
Overrun ==
  /\ \/ loading = "program" /\ ~Fits(Len(image.program), 0)
     \/ /\ loading = "pages" /\ Len(chr) < Len(image.pages)
        /\ ~Fits(Len(image.program), Len(chr) + 1)
  /\ loading' = "overrun"
  /\ UNCHANGED <<image, held, off, memory, chr, patterns, mirroring, started,
                 stores>>

SetMirroring ==
  /\ loading = "pages" /\ Len(chr) = Len(image.pages)
  /\ loading' = "done"
  /\ mirroring' = image.mirroring
  /\ UNCHANGED <<image, held, off, memory, chr, patterns, started, stores>>

(* do_cpu_reset: the vector is at the end of the second half.               *)
Reset ==
  /\ loading = "done"
  /\ started' = memory[2]
  /\ UNCHANGED <<image, held, off, loading, memory, chr, patterns, mirroring,
                 stores>>

(* The running program stores into a half, through its own address only; *)
(* or into the picture's memory through $2007, or to the mirroring register.*)
Store ==
  /\ started # Off /\ stores < MaxStores /\ stores' = stores + 1
  /\ \/ \E b \in {1, 2}, v \in Stored :
          /\ memory' = [memory EXCEPT ![b] = v]
          /\ UNCHANGED <<patterns, mirroring>>
     \/ \E p \in Pages : patterns' = p /\ UNCHANGED <<memory, mirroring>>
     \/ \E m \in 0 .. 6 : mirroring' = m /\ UNCHANGED <<memory, patterns>>
  /\ UNCHANGED <<image, held, off, loading, chr, started>>

Next ==
  \/ OpenFile \/ ReadHeader \/ ReadProgram \/ AppendPage \/ Overrun
  \/ SetMirroring \/ Reset \/ Store

Spec == Init /\ [][Next]_vars

-----------------------------------------------------------------------------
(* The block whose end holds the vectors: the first if there is no second.  *)
LastBlock == IF Len(image.program) = 1 THEN 1 ELSE 2

(* An image without a program leaves the buffer's zeros.                    *)
Block(b) == IF b <= Len(image.program) THEN image.program[b] ELSE Zeros

(* However many blocks and pages an image has, none and more than the       *)
(* arrays hold included, if it is loaded the first of the pages is in the   *)
(* pattern tables, the first two blocks or the one twice in the program's   *)
(* halves, every page in its slot in order, and nothing of the image is     *)
(* unread (fce_load_rom).                                                   *)
LoadedWhole ==
  loading = "done" /\ stores = 0 /\ held = Parts =>
    /\ off = Parts
    /\ memory[1] = Block(1) /\ memory[2] = Block(LastBlock)
    /\ chr = image.pages
    /\ patterns = IF image.pages = <<>> THEN None ELSE image.pages[1]
    /\ mirroring = image.mirroring

(* Each reset starts the program at the vector of the image's last loaded   *)
(* block, the only block included, unless the program has stored there since*)
(* or the file ends before it: of a file cut short nothing is said and its  *)
(* program starts at the zeros of the buffer, as that of an image without   *)
(* blocks does (do_cpu_reset).                                              *)
RestartsProgram ==
  [][Reset => \/ LastBlock < held /\ started' = Block(LastBlock)
              \/ LastBlock >= held /\ started' = Zeros
              \/ stores > 0 /\ started' \in Stored]_vars

=============================================================================
