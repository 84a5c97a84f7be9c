# The NES machine of qemu-nes in TLA+

This directory is a verification development of the emulator in `src/`: a QEMU
machine for the 8-bit console (a 6502 processor translated by TCG, a picture
unit, a controller port, a framebuffer) that loads one cartridge image and runs
it. The modules are translated from the C sources; `PROJECT.json` names, for
every definition, the lines it stands for.

## 1. The system

### Parts, state and operations

| part | source | state | operations |
|---|---|---|---|
| PPU register file | `hw/nes6502/nesppu.c` 53-241 | PPUADDR, the `$2006` latch and its toggle, the first-read flag, PPUCTRL bit 2, mirroring, PPU RAM | `ppu_read`, `ppu_write` |
| PPU frame | `nesppu.c` 408-540 | scanline, PPUSTATUS bits 6 and 7, three pixel buffers, sprite-0 latch | timer callback `ppu_cycle`; writes to `$2000`, `$2001`; reads of `$2002` |
| PPU rendering | `nesppu.c` 245-406 | the scroll register, `ppu_screen_background`, the pixel buffers' contents | the background of a scanline, its sprites, the sprite-0 comparison |
| framebuffer | `hw/display/nesfb.c` | address halves, backdrop, three layers, "inited" | `nesfb_write`, `nextfb_update` |
| sprite memory | `nesppu.c` 159-197, `nespsg.c` 73-93 | OAM, OAMADDR, CPU RAM | `$2003`, `$2004`, the copy of `$4014` |
| controller port | `nespsg.c` | shift position, latched keys, report counts, `prev_write` | `psg_read`, `psg_write`, keyboard handler |
| CPU stack and interrupt | `target/nes6502/translate.c` 202-318, 1226-1245, 1316-1408, 1846-1944; `helper.c` 29-67; `nesmcu.c` 168-184 | pc, stack pointer, flags, the packed status byte, RAM, the interrupt request | pushes, pulls, calls, returns, BRK, interrupt entry |
| CPU arithmetic | `translate.c` 172-200, 490-964, 1254-1810 | A, X, Y, a memory cell, C Z V N | the computing, moving and comparing instructions |
| CPU addressing, branches, decoding | `translate.c` 310-480, 1861-2225; `insn.decode` | memory, X, Y, pc, the opcodes in memory | the addressing modes, jumps and branches, the opcode table |
| translation loop, CPU object | `translate.c` 2240-2394, `cpu.c`, `cpu.h` | translation blocks | reset, block ends |
| loader and memory map | `hw/nes6502/boot.c`, `nesmcu.c` 187-262 | the bus: 7 RAM regions and 3 devices | load a cartridge, reset |
| board | `hw/nes6502/xiaobawang.c` 126-142 | none | start with a cartridge, without, or not at all |
| disassembler, gdb stub, migration, `queue.h`, `target/avr` | | | no behaviour of the machine's own (section 8) |

### How they interact

The CPU runs translated code on its own thread. Every load and store outside
RAM is a call of a device's handler under QEMU's global lock; the scanline
timer and the keyboard handler run on the main thread under the same lock. So
one handler is one atomic step, and *between any two bus accesses* (even the
two accesses of one store instruction: the addressing modes of `translate.c`
load their operand for stores too) the timer or the keyboard may run. The
interrupt travels from `ppu_cycle` through `next_irq` to a latched bit that the
CPU looks at between translation blocks. The PPU drives the framebuffer by bus
writes from inside its timer callback: the address of a pixel buffer in two
halves, the layer it belongs to, and the flip. The sprite copy of `$4014` is a
loop of bus writes inside the store's handler, and the loader, too, reaches the
picture unit and its memory by bus writes. Nothing keeps a device's own memory
from the processor but its address.

### What is hard, and what correctness means

* *Register file*: state that changes at the next access instead of this one, a
  read hidden in each store, writes dropped before the first scanline. Correct:
  a program sees a port with a cursor (`DataPort`); paired nametables agree;
  colours are not overwritten by stores elsewhere.
* *Frame*: layers switched in the middle of a frame, six hand-over writes, two
  cleanings, two sprite-0 latches, an interrupt line whose level is ignored.
  Correct: the console shows what was drawn for this frame and nothing else;
  buffers stay within capacity; the flag and the interrupt keep their times.
* *Rendering*: two passes over a row of tiles with signed columns, sprites met
  by their place in a row of tiles, a bitmap that is never cleared. Correct: a
  row is the two nametables side by side moved by the scroll; a sprite is drawn
  whole and once; the sprite-0 flag comes where the sprite covers a colour.
* *Controller*: a position shared by reads that count and reads that do not, a
  strobe detected by memory that other registers overwrite. Correct: polls are
  aligned, no button is invented, each press is reported in full and ends.
* *Sprite memory*: a ring used by single stores and by copies. Correct: what
  was last delivered lies before OAMADDR, and a copy returns to where it began.
* *Stack*: two implementations (generated code and C) of the same layout, with
  different wrapping. Correct: returns restore; the zero page is not touched.
* *Arithmetic*: 32-bit temporaries, flags found by masks. Correct: flags say
  what signed and unsigned arithmetic says; no bit is lost; the carry survives
  from one byte of a long number to the next.
* *Addressing and decoding*: masks that some modes have and others lack, an
  operand length per opcode. Correct: loops over memory reach each cell once,
  in order, and nothing else; instructions are met where they were laid.
* *Loader*: one running offset over an image whose parts depend on its header,
  a program that lies in RAM. Correct: everything lies where the machine looks
  for it, and a reset starts a program again that left itself alone.
* *Bus*: regions whose order of mapping would decide who answers if two shared
  an address; slots for pages and addresses with an index that nothing compares
  with a region's end. Correct: nobody reaches what is not his.
* *The whole machine*: a handler may be interrupted by the next frame's, a reset
  leaves every device as it is, and the sprites change while a picture is being
  drawn. Correct: a game gets going, counts each press, and its pictures follow
  its world.

The hazards, each with its line and the properties aimed at it, are listed in
`PROJECT.json`.

## 2. The plan

### Modules and their order

Most important first: what a cartridge's program depends on every frame comes
before what it depends on once.

| order | modules | composes | status |
|---|---|---|---|
| 1 | `PpuMemory`, `PpuPort`, `DataPort` | `PpuPort` extends `PpuMemory` and implements `DataPort` | done |
| 2 | `NesFb`, `PpuFrame`, `PpuFrameHistory` | the PPU's frame drives the framebuffer's registers | done |
| 3 | `Stack6502`, `Stack6502History` | the CPU's stack and `nesmcu.c`'s interrupt | done |
| 4 | `Alu6502`, `Branch6502`, `Address6502`, `Decode6502` | the instructions, a part each | done |
| 5 | `Program6502`, `MultiByte`, `CompareBranch`, `MemoryLoops`, `Programs6502` | programs made of the parts of 4 | done |
| 6 | `NesPad`, `PadPoll` | the controller, the keyboard and the polling program | done |
| 7 | `SpriteMemory`, `SpriteMemoryHistory` | the PPU's sprite memory and the controller device's copy loop | done |
| 8 | `PpuRows`, `PpuRowsHistory` | what a scanline draws, under the frame of 2 | done |
| 9 | `MemoryMap`, `BootLoader` | the bus, the loader, reset | done |
| 10 | `Instructions6502`, `Blocks6502` | translation blocks, their ends and the jumps between them implement instructions one after the other | done |
| 11 | `Machine` | `Blocks6502` and `PpuFrame`: the program's accesses from inside blocks, the scanline timer, the interrupt on its way between them | done |
| 12 | `Slideshow`, `Console` | `BootLoader`, `PpuPort`, `PpuFrame`, `SpriteMemory` and `NesPad` over `MemoryMap`, under one game, from power on, with handlers inside handlers and resets | done |

Properties that need memory of what happened are stated over history variables
in a module of their own (`...History`), which adds to each action what it
records and never restrains it.

### Abstract specifications

* `DataPort`: a cursor over PPU memory that stores put values at and loads read
  from one access late. `PpuPort` implements it (model-checked and proved).
* `Instructions6502`: a processor that runs one instruction after the other and
  is interrupted between two of them. `Blocks6502` implements it (model-checked
  under `Machine`, and proved).
* `Slideshow`: a world that moves on and pictures of it, each of the present or
  of moments not older than the last picture's, up to date again and again.
  `Console` implements it (model-checked): the world is a cell of RAM, a picture
  the sprite each line of the foreground that was flipped was drawn with.

### Theorems worth proving

All invariants of the runs and all their action properties but one are proved,
and with them the refinements of `DataPort`, of `Instructions6502` and of
`BootLoader` by `Console` (section 6). To come: `PressCounts`, from `AimInv`
and the pad's `Inv` together, and the safety part of `Slideshow`'s refinement.

## 3. Modules and the code

* **`PpuMemory`** is `ppu_ram` with its address mapping (`nesppu.c` 53-99, the
  palette and the paired nametables). In **`PpuPort`**, `PpuRead` and
  `PpuWrite` are the `case`s of `ppu_read` and `ppu_write`. `Load` is one bus
  access of the processor; a store is two, `StoreRead` (the operand load of the
  addressing mode) and `StoreWrite`, with the store in `bus` between them,
  where `Cycle`, the first scanline, may come. `PpuPortHistory` remembers where
  the program last set the address and how many accesses it has made since.
* **`NesFb`** is the framebuffer's registers as operators on a record; the four
  writes of a hand-over and the flip are `nesfb_write`'s `case`s.
  **`PpuFrame`** has `Cycle` (the timer callback as a whole: a scanline drawn
  or not, vertical blank, the end of the frame with its six hand-over writes
  and cleanings), the program's stores to `$2000` and `$2001`, its reads of
  `$2002`, and `TakeNmi`, the CPU taking the latched interrupt.
  `PpuFrameHistory` remembers what was drawn and hit.
* **`PpuRows`** is what `ppu_draw_background_scanline`,
  `ppu_draw_sprite_scanline` and the comparison at the scanline's end do to the
  buffers and to `ppu_screen_background`, with the pixel loops as sets and
  functions of columns. `Names` has the four nametables and the memory after
  them, where the second pass ends up from the last. The program changes scroll,
  layers, base nametable, halves of the pattern tables and sprites between any
  two scanlines.
* **`NesPad`** is `psg_read`, `psg_write` and `nextkbd_event`; **`PadPoll`** is
  the program that strobes and reads, an interrupt that stores to sound
  registers between any two accesses, and the keyboard.
* **`SpriteMemory`** is `$2003`, `$2004` and the copy of `$4014`, as a whole in
  one step as in the handler.
* **`Stack6502`** keeps the two implementations apart: `translate.c`'s pushes
  and pulls wrap and mask as the generated code does, `helper.c`'s as C does.
  The packed status byte `P` and the flags are separate state, as they are in
  the code. `next_irq` and the interrupt's entry are actions of their own that
  may come between any two instructions. `Stack6502History` remembers the
  frames.
* **`Alu6502`** has an action per instruction over a byte of `2 * Half` values
  (the sign bit is `Half`, so the byte's width is a parameter) and the value
  its addressing mode found; temporaries are integers as wide as the code's.
  **`Branch6502`** is which flag each branch looks at, **`Address6502`** what
  each addressing mode computes, **`Decode6502`** the opcode table with operand
  lengths and a program counter going through laid code.
* **`Program6502`** is a listing gone through one instruction at a time.
  **`MultiByte`** has loops that add, subtract and halve numbers of `N` bytes;
  **`CompareBranch`** the signed and unsigned comparisons; **`MemoryLoops`** a
  copy, a fill, a gather through pointers (the two a program gives must not
  share a cell, or the second overwrites the first) and an indirect jump.
  **`Programs6502`** runs one of them, or laid opcodes, or any instructions.
* **`Instructions6502`** keeps the next instruction, the words on the stack,
  the interrupt's request, and nothing of blocks. **`Blocks6502`** is how
  `translate.c` ends blocks: `pc_w` is stale inside a block and only the
  block's own `at` moves on; `GotoTb` is `gen_goto_tb`, a jump inside the page
  that may have been patched past the store of `pc_w`, or else a store and a
  lookup; `LookupAndGoto` follows the jumps, calls and returns; `RTI` goes to
  the main loop; `TooMany` cuts a block anywhere; BRK scribbles over `pc_w` and
  goes on; an undecoded opcode stops with `pc_w` as it is. A block that is
  jumped to looks at the request before its first instruction and, leaving for
  it, takes `pc_w` from its own start (`nes6502_cpu_synchronize_from_tb`). What
  `cpu_get_tb_cpu_state` leaves uninitialized only chooses between blocks of
  the same code. The main loop and the patching of jumps are QEMU's, outside
  `src/`, and modelled from how this code uses them. A program is a `Text`, the
  kind and targets of the instruction at each address.
* **`Machine`** extends `Blocks6502` and runs `PpuFrame` beside it: `Line` is
  the scanline timer, whose `next_irq` sets the request the blocks look at;
  `Instruct` an instruction, which may access `$2000`, `$2001` or `$2002`.
* **`BootLoader`** is `nes6502_load_firmware` (`OpenFile`: there may be no
  cartridge, or none that is found), `fce_load_rom`'s running offset,
  `do_cpu_reset` and the regions they write. The file may end before its image
  does: `held` is the number of parts it has whole, and the buffer's zeros are
  what is loaded for the others, as they are for the program of an image
  without blocks. Nothing in `fce_load_rom` compares the image's size with the
  arrays': `Fits` says what they hold (`RomSize`), and `Overrun` is the copy
  that goes past them, after which the model stops.
* **`MemoryMap`** is the bus `atmega_realize` lays out, with the code's own
  numbers: `Start` and `Size` of each region, the register behind a device's
  address (`ppu_read` masks to eight, `ppu_write` to sixteen, so that `$2008`,
  the mirroring, can be stored to and never read), and the addresses that the
  loader, the copy and the picture unit compute.
* **`Console`** extends `BootLoader` with instances of `PpuPort`, `PpuFrame`,
  `SpriteMemory` and `NesPad`, whose handlers it calls through `Read` and
  `Write`, for addresses of `MemoryMap`. `Stores` and `Loads` are the listing of
  a game: it waits for two vertical blanks, switches sprites and interrupt on
  and idles; its handler copies the sprites, writes a cell of a nametable and
  polls the pad. A store is `StoreRead` and `StoreWrite`; where the read changes
  nothing that the write would not change (`ReadMatters`) they are one step.
  `TakeNmi` keeps the program counter and A on `stack`, so that handlers nest.
  `Line` is the timer's callback, `Keyboard` the player, `ResetButton` the reset
  of the machine, which sets the program counter and nothing else. The sprite
  is one cell, the world, and stands on every line.

Some definitions are used by no specification (`ReadStatusKeepsPair`,
`UpdateScreenKeepsFg`, `RtiStatusLast` and others, each with a comment). Each
is a plausible slip in the operator it stands beside; `PROJECT.json`
(`mutants`) says which operator it would replace and which property then fails.
They show that the property has something to say about that line.

## 4. The runs

`tlc -config X.cfg M` checks one; all are listed in `PROJECT.json` with what
they show.

| run | module | bounds | distinct states |
|---|---|---|---|
| `ppu_port` | `MCPpuPort` | 32 cells, nametables of two, bytes of 3 bits, 3 accesses through `$2007`, 2, 3 and 5 stored to `$2008` | 3.0 million |
| `ppu_picture` | `MCPpuPicture` | 2 lines of 2 pixels, all ways of switching two layers | 199 thousand |
| `machine` | `MCMachine` | a program of 16 instructions on pages of 8, 2 lines, blank from line 3 of 5, 2 words under a request | 64 thousand |
| `rows` | `MCPpuRows` | 8 by 6 pixels, tiles of 2, two sprites, 8 scroll values, all 4 bases | 238 thousand |
| `pad_poll` | `PadPoll` | 3 buttons, each reported twice | 2 thousand |
| `sprite_memory` | `SpriteMemoryHistory` | 4 cells of OAM, 2 RAM pages, 3 pages asked | 747 thousand |
| `stack` | `MCStack6502` | 8 bytes of stack, 3 frames | 1.1 million |
| `programs` | `MCPrograms6502` | bytes of 3 bits, numbers of 2 bytes, pages of 8 | 444 thousand |
| `console` | `MCConsole` | images of up to 3 blocks and 2 pages, and one of 4 blocks, on arrays of 3 blocks and a page, 1 store; presses reported twice, 2 lines, blank from line 2 of 3, a handler in a handler, a reset or a second press | 322 thousand |
| `stack_status`, `jump_pointer`, `rows_off_screen` | | as above | to the first violation |

**`ppu_port`.** `ImplementsDataPort` is the refinement; `NametablesPaired` that
two nametables that mirror each other agree as long as the mirroring is the
loader's; `AccessSequence` that a program which sets the address and then loads
or stores walks memory in order. `PaletteKept` holds whatever byte a program has
stored to `$2008`: only a store in `ReachesPalette` changes a colour. Under the
mirroring of a header that is the palette's own block; with 2 stored the
nametables reach it too, and with 3 the second pattern table (`ppu_write` shifts
`0x400` by any byte). 4 and 5 name a bit that a word has and the address space
has not, and the next store fails the assertion of `nesppu.c` 73: `WriteData` is
not enabled. 6 stands for the shifts that leave the 16 bits. `TypeOK` bounds
PPUADDR by its two bytes, which holds because every access masks it before it
adds to it. The 32 cells
keep the code's proportions (16 units of two cells, a unit to a nametable), and
addresses reach past the end of the space and are folded. `MaxAccesses` bounds
the accesses through `$2007`, between which the program may set the address and
the mirroring any number of times; three are enough for one that leaves the
address where it is, one that moves it, and one after the address has crossed a
boundary or was set anew. The increment of 8 takes a nametable's address into
the palette's block in one step. A byte has three bits, so that two halves make an address.

**`ppu_picture`.** The frame with pixels and without the interrupt, which the
pixels never look at. `ShowsPicture` relates the console to the lines drawn for
the last flip and the layers shown at it; `NoStaleLines` says that no buffer
holds a line of an earlier frame, `BackgroundBounded` that the background fits
its buffer, `OneHitPerFrame` that the sprite-0 flag rises once. (`VblankWindow`,
that the flag of vertical blank is up only in its lines, is proved, not run.)
Two lines show a
change of layers before, between and after; a third would repeat the second.

**`machine`.** The frame with the interrupt and without pixels, beside a
program that runs in translation blocks. `ImplementsInstructions` is the
refinement: an interrupt returns to the instruction it kept from being next,
wherever the blocks end and whichever jumps have been patched. `NmiKeepsComing`
is the liveness property: an interrupt enabled for good keeps coming, even to a
program that waits in a loop of one block. The program of `MCText` has an
instruction of each kind on each side of a page's border: a call, a loop within
its page, branches to this page and the next, BRK before the end of a block, a
subroutine that the interrupt's handler calls too, and an opcode that is none.
`MaxDepth`, the words on the stack when an interrupt is requested, lets one
come inside the subroutine.

**`rows`.** The picture is constant (`MCNames`, `MCPatterns`, `MCPalettes`:
holes, opaque tiles, one of each attribute, nametables mirrored in pairs); what
changes is scroll, switches (by a store to one of `$2000` and `$2001` at a
time) and sprites, with at most `MaxWrites` changes in a frame. Every scroll value of
the screen's width is taken. The constraint `ScrollingOrShowing` keeps the
product down: background at every scroll with sprites off the screen, or
sprites at two scrolls. Nothing the renderer computes of one reads the other
but the sprite-0 comparison, and that is checked at both of those scrolls.
`SpritesWhole` is about sprites that stood still while they were drawn,
`SpritesBounded` about frames in which nothing changed, and `HitAtOverlap`
about a program that splits the screen at sprite 0, on a row that the bitmap
has: `ppu_screen_background` goes by columns, so that what is written past the
end of one column lies at the top of the next, and a sprite drawn on the lines
after the bitmap's last may be hit by them; `RowShowsPicture` holds of
every scanline whose second pass draws what lies beside the base (`Seamless`):
from any base without scrolling, and from the first three with it, of which the
second goes on into the third, the first one's mirror.

**`pad_poll`.** A poll meets the keyboard and the sound driver between any two
accesses. Without a sound store in the strobe it is aligned (`PollAligned`);
even with one, no button is invented (`NoPhantomButton`). A press is reported
in full (`ReportedInFull`) and ends (`ButtonsGoUp`, liveness).

**`sprite_memory`.** `OamIsARing`: the last bytes delivered lie before OAMADDR,
whichever way they came; `CopyRotates`: a copy fills the whole of sprite memory
from OAMADDR on and leaves OAMADDR where it was. OAM of 4 cells is long enough
for a copy that wraps after a store.

**`stack`.** `FramesIntact`, `Restores` and `PageKept` for programs whose pulls
meet their own kind of push. `MaxFrames` lets an interrupt come inside a
subroutine with something pushed; `PullLimit` bounds how far a program may pull
past the page's top, which nothing in the code does. `VIEW Live` joins states
that differ only in dead bytes: what lies at or below the pointer is pushed
over before it is pulled again by a program that is still sound, and the
properties say nothing of one that is not, so no step that they speak of is
lost.

**`programs`.** Loops on multi-byte numbers (`RunningResult`), signed and
unsigned branches (`BranchesOrder`), copies, gathers and fills
(`LoopsMoveBytes`), an indirect jump from every cell but the last of a page
(`JumpLands`), every pair of opcodes (`Synchronised`: the program counter stands
where an instruction was laid, and only stops at one that is not documented),
and any instruction in any order with any operand (`SignedOverflow`,
`CompareOrders`, `RotationsLoseNothing`). A byte of 3 bits has every case of
the flags: a sign bit, a top bit below it and a low bit. Two bytes show one
carry from byte to byte and the last one's fate. Opcodes are the real 256 and
are laid from 33020, across a page.

**`console`.** First the loader: images of every length in the bounds, signed or
not, of each kind of mapper, whole and cut short after any part, or no file at
all. `LoadedWhole` says what lies in each region, `RestartsProgram` what a reset
starts: the vector of the image's last loaded block unless that was stored over
or is zeros. Three blocks are one more than the memory holds; images without a block, and two
that overrun the loader's arrays, one at its pages and one at its program, are
among them. Of a program that
is not the game nothing is known but that it stores.

Then the game. `Listening`: once it idles, sprites and interrupt are on, though
the stores before the first scanline are dropped and the first vertical blank
it meets is pretended. `NametableHeals`: an address set by a handler that was
not cut into is where its byte goes, whatever half of an address a reset or
another handler left behind; and no handler writes outside the nametables, as
long as the mirroring is one that a header asks for.
`PressCounts`: a press moves the world on before the button is forgotten.
`ImplementsSlideshow` is the refinement of `Slideshow`: pictures may be torn and
never go back, and, with its liveness, a world that stands still is shown,
that is, the program gets to its main loop again after any reset and its
handlers go on coming.

The two lines of a picture let a copy come before, between and after them.
`Upsets` gives each behaviour one of three: handlers two deep, one reset, or a
second press, with which the press that ends meets one that begins. Two of
these in one behaviour are left out for their number of states alone. A press
is reported `Lasting` times; two reports, one of which the read before a store
may spend, leave one for the game's own load.

Two of the properties say how deep handlers may nest for them to hold, and the
proofs and larger runs say why. An address set by a handler that was not cut
into is the one its byte goes to however deep the others are; but that no byte
goes outside the nametables is stated for handlers two deep, since a third one
can leave a whole address behind where the second had left half of one.
`PressCounts` is stated for handlers no deeper than `Lasting`: every handler
that is cut into may spend a report on its way.

`CHECK_DEADLOCK FALSE` stands where a system really stops: a program has ended,
the loader has refused a file.

## 5. Fairness

* `Machine`: `WF(Line)`, since `ppu_cycle` re-arms its own timer on every path
  (`nesppu.c` 501), and `WF(Thread)`, the CPU's thread running on. Nothing is
  assumed of when that thread looks for the interrupt: that it does follows
  from the look on entering a block and from how blocks end. The program owes
  nothing.
* `PadPoll`: `WF(Program)`, the CPU going on with its polling loop. Neither the
  keyboard nor the sound driver must ever come.
* `Programs6502`: `WF(ProgramsNext)`, the CPU going on from each instruction.

* `Console`: `WF(Ticks)`, the timer, as in `Machine`; `WF(Instruction \/
  Interrupt)`, the CPU's thread; and `SF(Outside)`, strong fairness of the
  program's own instructions outside the handler. A model without clocks allows
  a handler that takes a whole frame, every frame, and a program that looks at
  `$2002` only at moments when the flag is down. The code's clock does not: a
  line comes every 30 microseconds (`nesppu.c` 501-505), a frame is more than
  260 of them, and a handler of a dozen instructions is over in a few. So of
  the moments at which the program outside can get on, which come back every
  frame, some are the program's. Neither the keyboard nor the reset button nor
  the loader is fair.

No action of a user or of the outside is fair.

## 6. What is proved

With TLAPS, for every value of the constants that the named assumptions allow.

A theorem of a component is one of its specification, `Spec`, or of `HSpec`
where the property is about what the history variables remember. Each proof
module begins with lemmas on the operators and ends with the theorems; between
them is an inductive invariant, of named parts, with one step per action.

**`PpuPortProofs`** (assumes `MemoryAssumption`, `PortAssumption`):
`TypeCorrect`, `Refinement` (`ImplementsDataPort`), `PairsKept`
(`NametablesPaired`), `ColoursKept` (`PaletteKept`) and `AccessesInSequence`
(`AccessSequence`). The assumptions leave the bytes stored to any register
free, the mirroring's included; they ask that one increment past the end of
the address space still fits PPUADDR's two bytes (`0x4000 + 32`). The refinement has one lemma per action (`LoadSimulates`,
`StoreReadSimulates`, `StoreWriteSimulates`, `CycleSimulates`) under `TypeOK`:
of a store's two bus accesses one is a step of `DataPort` and one a stutter,
the read for `$2007` (memory is seen with the pending byte already in it) and
the write for the other registers. What carries the argument is that folding an
address twice is folding it once, so the register may keep an address past the
end where `DataPort` keeps a cell. For `AccessSequence` `RunTracked`
adds that the first-read flag tells whether the run has begun, that the masked
address is the cell the run has reached, and that between the read and the
write of one store the run has begun.

**`PpuFrameProofs`** (assumes `FrameAssumption`, `ColourAssumption`):
`TypeCorrect`, `BuffersFresh` (`NoStaleLines`), `BackgroundFits`
(`BackgroundBounded`), `FrameProtocol` (`VblankWindow`, and `HandshakeDone`: no
half of an address is left over between two callbacks), `ConsoleShows`
(`ShowsPicture`) and `HitOnce` (`OneHitPerFrame`). The capacity is not
inductive as it stands: `FrameInv` strengthens it with `RowsBounded`, that
after the scanline of number n the background holds at most n + 1 rows.
`PictureInv` is `FrameInv` with what the console and the buffers have to do
with the lines drawn (`Painted`, `ShowsPicture`), that a console not yet set up
shows nothing, and what the history remembers of the hit (`HitUsed`). The six
hand-over writes of the frame's end are shown, write by write, to leave no
pointer over and to give each layer its own buffer.

**`PpuRowsProofs`** (assumes `RowsAssumption`): `TypeCorrect`,
`SpritesComplete` (`SpritesWhole`), `SpritesFew` (`SpritesBounded`), `RowsMeet`
(`RowShowsPicture`) and `HitsWhereSeen` (`HitAtOverlap`), for every size of
tiles and screen and every picture. The sprites' invariant is `Sprited`: on
each line since the program last changed anything, a sprite that was met is
wholly in its layer's buffer (`DrawnSince`); in a frame without changes the
buffers hold pixels of sprites only (`OnlySprites`), and no more than a tile's
width for each time one was met (`FewPixels`). For the background
the two passes over a row of tiles are shown to put each column of the screen
from one place only (`OnePlace`, `SamePlace`, `Seam`), and that place to be the
world's (`RowIsWorld`). `HitAtOverlap` rests on `FromPicture`: as long as the
program changes nothing, every coloured cell of the bitmap comes from a line's
pass over the picture as it is set.

**`PsgProofs`** (assumes `OamAssumption`, `PadAssumption`, `SoundAssumption`).
Sprite memory: `TypeCorrect`, `OamStaysARing` (`OamIsARing`), `CopiesRotate`
(`CopyRotates`), from `Ring`. The pad: `PollTypeCorrect`, `Aligned`
(`PollAligned`), `NoPhantom` (`NoPhantomButton`), `InFull` (`ReportedInFull`),
from `Inv`: the types, the shift position at each access of the poll
(`Position`), what the strobe is remembered as (`Strobed`), and that the
device's count of each button's reports is what the loads answered (`Tallied`).

**`Stack6502Proofs`** (assumes `StackAssumption`): `TypeCorrect`, `FramesWhole`
(`FramesIntact`), `ReturnsRestore` (`Restores`), `StaysInPage` (`PageKept`).
Everything is said of programs whose pulls have met their own kind of push,
`sound`; the invariant is `sound => Good`. `Good` adds to the frames' contents
that they lie one above the other without a gap (`Contiguous`), that of any two
one is wholly above the other and all are above the pointer (`Above`), and that
the pointer is never above where it began: so a push writes into no frame. Packing
and unpacking the status byte are shown inverse to each other.

**`Programs6502Proofs`** (assumes `HalfAssumption`, `NAssumption`,
`LayoutAssumption` and `MemoryLoops`'s `ImageAssumption`). For any instructions
in any order: `TypeCorrect`,
`OverflowTold` (`SignedOverflow`), `CompareTells` (`CompareOrders`), `BitsKept`
(`RotationsLoseNothing`). These are lemmas on the flag operators: the mask test
on temporaries that may be negative or too wide equals what signed arithmetic
says, case by case of the operands' signs. For the programs, each with an
invariant that says what is known at each of its instructions: `OrderTold`
(`BranchesOrder`; `Comparing`), `JumpsLand` (`JumpLands`; `JumpKnows`),
`BytesMoved` (`LoopsMoveBytes`; `MoveKnows`: the pointers are kept and memory
is as the turns gone have made it), `OpcodesFound` (`Synchronised`;
`CodeKnown`, for any number of opcodes laid from anywhere), `SumsRight`
(`RunningResult`; `SumKnows`: the bytes done have the value they should, the
carry counted with the place of the next byte, for numbers of any length), and
`RunsInstructions`, that the programs are instructions of `Alu6502`.

**`Blocks6502Proofs`** (assumes nothing of the constants, which stand for any
text, page and space): `TypeCorrect` and `Refinement`
(`ImplementsInstructions`), for every text and every way of cutting it into
blocks. The inductive fact is that a block about to be entered stands at its
first instruction (`TypeOK`), which makes `LeaveBlock`'s program counter the
right one; then one lemma for each kind of step: to find, enter, leave or cut a
block is a stutter, an interrupt an interrupt, and an instruction the same
instruction (`GotoTbGoes`: however a jump is made, its target is next).

**`ConsoleProofs`**. Of the bus (no assumption; the numbers are the code's): no
two regions share an address (`RegionsApart`), so that the region `RegionOf`
chooses is the one there is; then, for every operand, pointer, number of pages
and stored page: the processor's own accesses stay out of the devices' memory,
even the index that is not masked (`ProgramStaysInside`), the loader's writes
stay apart and off the reset vector (`LoaderStaysInside`), the port stays in
the picture unit's memory under every mirroring that is not asserted against,
its mirror writes too (`PortStaysInside`), and a
copy is of the page that was asked for only if that is one of the first eight
(`CopyReadsPage`).

Of the machine with a cartridge in it (assumes `ImageAssumption`,
`GameAssumption` and those of the devices): `ImplementsLoader`, that `Console`
implements `BootLoader`'s `Spec`; `ImageLoaded` (`LoadedWhole`) and
`AlwaysRestarts` (`RestartsProgram`) from `LoaderInv`; `GameListens`
(`Listening`) from `GameInv`: under any number of handlers lies the program
(`Stacked`), and how far it has come tells which of its stores were taken
(`Heard`: the vertical blank that ends its second wait is a real one);
`HandlersAim` (`NametableHeals`) from `AimInv`: how deep handlers are and when
an interrupt may come (`Bounded`), and what the port's address and its toggle
can be between a handler's stores (`Tracked`): `Undisturbed` if nothing has cut
into it, `Resumed`, less but enough, if handlers have that nothing cut into.

**Recursion.** The copy's loop, the layout of opcodes and the value of a number
of n bytes are recursive functions. What they are for every n is proved by
induction, with sets in the place of the predicates that the library's
induction theorems take: the set of the n for which the fact fails has no least
member (`LeastNatural`, `SetInduction`), so it is empty.

Left to TLC: `ButtonsGoUp`, `NmiKeepsComing`, `ProgramEnds` (liveness is out of
the prover's reach) and `ImplementsSlideshow`, which has liveness in it;
`PressCounts`, which needs the pad's, the sprite memory's and the game's
invariants at once; and the times at which interrupts come in `Machine`.

## 7. Where the code and its comments part

Shown by a run each:

* `PHP` pushes the status byte as the last `PLP`, `RTI` or interrupt packed it,
  not the flags (`translate.c` 1230; `stack_status`).
* An indirect jump through the last cell of a page reads its second byte from
  the page number times 65536, and adds it as a low byte (`translate.c`
  392-393; `jump_pointer`). The comment describes the processor's own quirk,
  which is another one.
* Background tiles off the screen are not all skipped: the test is `> 256`
  (`nesppu.c` 293; `rows_off_screen`). What is shown is right all the same
  (`RowShowsPicture`); the sprite-0 comparison is fed the wrong columns.

Seen while modelling, and not of a kind a run shows:

* `RTS` to the last address leaves the program counter beyond the space and
  fails the assertion of `cpu.h` 219.
* The limit of eight sprites to a line is commented out (`nesppu.c` 366-369).
* The second pass over the background draws the nametable that follows the base
  in memory (`nesppu.c` 297): from the fourth that is the memory behind them,
  and from the second the third, which need not be what lies beside it.
* Clipping the leftmost eight columns clips the first tile of each nametable,
  wherever the scroll puts it, and not the screen's left edge.
* `ROL` of `0x7F` with the carry set answers a carry that is not there
  (`translate.c` 1613); `RotationsLoseNothing` excepts that one case by name.
* An opcode that is none leaves the loop with the program counter of an earlier
  block (`helper.c` 133): whoever goes on from there runs instructions again.
* A program that stores to `$2008` can pair the nametables or a pattern table
  with the palette's block (2, 3), and ends the emulator with its next store to
  `$2007` after a 4 or a 5 (`nesppu.c` 73, 237).
* The loader copies as many blocks and pages as a header names, into two arrays
  of one MiB (`boot.c` 84, 110-111).
* No device is reset with the machine: only the program counter is.

## 8. Not modelled

* What the copy of an image that is larger than the loader's arrays does
  (`Overrun` is where the model ends), and the loader's messages.
* `queue.h`: no source that is built includes it.
* The disassembler, the gdb stub, the register dump: formatting.
* Snapshots: saving and loading are QEMU's. The list of fields (`machine.c`
  99-118) names the registers of another processor, and no device describes its
  state, so that a machine loaded from one goes on with what is there.
* `target/avr`: QEMU's target, the template of `target/nes6502`, built apart.
* Painting pixels on the console's surface (`nesfb.c`): layout.
* The palette's entries (a pixel is its colour and palette), and the
  sprite-overflow bit, which is set at start and never cleared.
* Sound: the registers keep what is stored and nothing plays it.
* In `Console`, translation blocks (proved in `Blocks6502Proofs` to do what
  instructions one after the other do), and stores by the game into itself.
* Stores into translated code: whether a block is thrown away when code it was
  made from is stored over is decided outside `src/` (what `cpu_ldub_code`,
  `translate.c` 149, has told QEMU). `Decode6502` reads opcodes from memory
  each time.
* Blocks under the stack: `Stack6502` takes the interrupt between any two
  instructions, more often than blocks allow, so its properties cover them.
