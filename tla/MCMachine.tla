------------------------------ MODULE MCMachine ------------------------------
(* A program with a subroutine, a loop that waits, a handler that calls the *)
(* same subroutine, and an opcode that is none, in pages of eight bytes.    *)
EXTENDS Machine

At(kind, next, to) == [kind |-> kind, next |-> next, to |-> to]

MCText ==
  [a \in {0, 3, 4, 5, 6, 8, 9, 11, 14, 20, 21, 23, 24, 40, 41, 44} |->
     CASE a = 0  -> At("call", 3, 20)
       [] a = 3  -> At("plain", 4, 0)
       [] a = 4  -> At("brk", 5, 0)
       [] a = 5  -> At("plain", 6, 0)
       [] a = 6  -> At("branch", 8, 5)
       [] a = 8  -> At("plain", 9, 0)
       [] a = 9  -> At("branch", 11, 14)
       [] a = 11 -> At("jump", 14, 0)
       [] a = 14 -> At("unknown", 15, 0)
       [] a = 20 -> At("plain", 21, 0)
       [] a = 21 -> At("branch", 23, 24)
       [] a = 23 -> At("brk", 24, 0)
       [] a = 24 -> At("return", 25, 0)
       [] a = 40 -> At("plain", 41, 0)
       [] a = 41 -> At("call", 44, 20)
       [] a = 44 -> At("rti", 45, 0)]

MCNoSprites == {[bbg |-> 0, fg |-> 0]}
MCMasks == {[bg |-> FALSE, spr |-> FALSE]}

=============================================================================
