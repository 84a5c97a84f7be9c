------------------------------ MODULE Address6502 ------------------------------
(***************************************************************************)
(* The addressing modes of translate.c: the cell an instruction's operand  *)
(* stands for, given memory m and an index register.  The byte has Page    *)
(* values, a page Page cells and the address space Page pages.             *)
(***************************************************************************)
EXTENDS Integers

CONSTANT Page   (* the values of a byte, 0x100                              *)

Space == Page * Page

(* The board has RAM past the address space; X can index into it.           *)
Cells == 0 .. Space + Page - 2

Word(low, high) == low + Page * high

-----------------------------------------------------------------------------
(* One operator per mode; n is an operand of one byte, w one of two.        *)

ZeroPageX(n, x) == (n + x) % Page

(* Only the mode indexed by X keeps the sum as it is.                       *)
AbsoluteX(w, x) == w + x

(* Slip: neither does the one indexed by Y reduce it.                       *)
AbsoluteYUnmasked(w, y) == w + y

AbsoluteY(w, y) == (w + y) % Space

(* Slip: the high byte of the pointer is read past the zero page.           *)
IndirectXAcross(m, n, x) ==
  Word(m[(n + x) % Page], m[((n + x) % Page) + 1])

(* Both bytes of the pointer are in the zero page.                          *)
IndirectX(m, n, x) == Word(m[(n + x) % Page], m[(n + 1 + x) % Page])

(* Slip: the same.                                                          *)
IndirectYAcross(m, n, y) == (Word(m[n], m[n + 1]) + y) % Space

IndirectY(m, n, y) == (Word(m[n], m[(n + 1) % Page]) + y) % Space

(* What a cell at a shifted address may hold: beyond Cells are the stores   *)
(* of the cartridge's pages.                                                *)
Far(m, a) == IF a \in Cells THEN {m[a]} ELSE 0 .. Page - 1

(* Slip: the bytes of the pointer the wrong way round.                      *)
IndirectSwapped(m, w) == {Word(m[w + 1], m[w])}

(* Where JMP through a pointer at w goes.  A pointer in the last cell of    *)
(* its page is read from that cell and from one at a shifted address, and   *)
(* the second byte is added without being shifted.                          *)
Indirect(m, w) ==
  IF w % Page = Page - 1
  THEN {m[w] + b : b \in Far(m, (w - (w % Page)) * Page)}
  ELSE {Word(m[w], m[w + 1])}

=============================================================================
