------------------------------- MODULE MemoryMap -------------------------------
(***************************************************************************)
(* The system bus as atmega_realize of nesmcu.c lays it out: which region  *)
(* an address is in, and which register of which device it names.  The     *)
(* processor, the loader and the devices all reach each other through it;  *)
(* nothing keeps a device's own memory from the processor but the address. *)
(***************************************************************************)
EXTENDS Naturals

Start ==
  [cpu_ram |-> \h0, ppu |-> \h2000, psg |-> \h4000, memory |-> \h6000,
   ppu_ram |-> \h16000, mmc_prg_pages |-> \h1A000, mmc_chr_pages |-> \h41A000,
   ppu_sprram |-> \h61A000, fb_ram |-> \hB000000, fb |-> \hC000000]

(* The windows the devices ask for.                                         *)
PpuWindow == \h2000
PsgWindow == \h2000
FbWindow == [fb_ram |-> \h1CB100, fb |-> \h1000]

Size ==
  [cpu_ram |-> \h2000, ppu |-> PpuWindow, psg |-> PsgWindow, memory |-> \h10000,
   ppu_ram |-> \h4000, mmc_prg_pages |-> 256 * \h4000,
   mmc_chr_pages |-> 256 * \h2000, ppu_sprram |-> \h100,
   fb_ram |-> FbWindow.fb_ram, fb |-> FbWindow.fb]

Region ==
  {"cpu_ram", "ppu", "psg", "memory", "ppu_ram", "mmc_prg_pages",
   "mmc_chr_pages", "ppu_sprram", "fb_ram", "fb"}

(* What the processor's own loads and stores are for.                       *)
Program == {"cpu_ram", "ppu", "psg", "memory"}

Maps(r, a) == Start[r] <= a /\ a < Start[r] + Size[r]

RegionOf(a) == CHOOSE r \in Region : Maps(r, a)

-----------------------------------------------------------------------------
(* The registers behind the two devices' addresses.  The picture unit masks *)
(* a read to eight registers and a write to sixteen, so that the register   *)
(* of the mirroring, $2008, is one for the loader's write only.             *)
PpuReads(a) == (a - Start["ppu"]) % 8
PpuWrites(a) == (a - Start["ppu"]) % 16
PsgRegister(a) == a - Start["psg"]

(* cpu_ram_read: where the copy of $4014 reads byte i of a page.            *)
CopyAddress(page, i) == (\h100 * page + i) % \h800

Bytes(first, n) == {a \in Nat : first <= a /\ a < first + n}

(* What mmc_append_chr_rom_page writes; and the writes of fce_load_rom, of  *)
(* the two halves of a program and of the pattern tables.                   *)
PageSlot(n) == Bytes(n * \h2000 + \h1A000, \h2000)
Halves == Bytes(\h8000, \h8000)
Patterns == Bytes(\h16000, \h2000)

(* What do_cpu_reset reads.                                                 *)
ResetVector == Bytes(\hFFFC, 2)

(* ppu_ram_read and ppu_ram_write, for an address the port has masked.      *)
PortAddress(a) == \h16000 + a

=============================================================================
