----------------------------- MODULE MCPrograms6502 -----------------------------
(* Bytes of three bits, numbers of two of them, pages of eight cells;       *)
(* listings of two opcodes of eight bits, laid across a page.               *)
EXTENDS Programs6502

MCHalf == 4
MCN == 2
MCPrograms == Sums \cup Comparisons \cup Loops \cup {"opcodes", "any"}
MCJump == {"jump"}
MCImage == [a \in Cells |-> (a + a \div Size) % Size]

(* The source's pointer straddles the end of the zero page.                 *)
MCPointers == {[s |-> Size - 1, d |-> 2]}

MCOrigin == 33020

=============================================================================
