------------------------------ MODULE MCStack6502 ------------------------------
(* A stack page of eight bytes, room for an interrupt and a call.           *)
EXTENDS Stack6502History

(* What the stack page holds at and below the pointer is dead: a sound      *)
(* program pushes over it before it pulls it, and an unsound one has        *)
(* stopped.  States that differ there alone are one state.                  *)
Live ==
  <<pc, stack_point, flags, P, A, X, nmi, frames, sound,
    [a \in {c \in DOMAIN mem : c > stack_point + StackSize} |-> mem[a]]>>

=============================================================================
