--------------------------- MODULE Stack6502History ---------------------------
(***************************************************************************)
(* Stack6502 with the frames the program and the interrupt have on the     *)
(* stack.  A program is sound while each pull meets what its own kind of   *)
(* push left, every push and interrupt finds room below the pointer, and   *)
(* nobody moves the pointer by hand.                                       *)
(***************************************************************************)
EXTENDS Stack6502, SequencesExt

CONSTANT MaxFrames    (* bound: frames on the stack                         *)

VARIABLES
  frames,    (* oldest first                                                *)
  sound

historyVars == <<vars, frames, sound>>

(* What a frame was pushed for, the pointer before it, and what its pull    *)
(* must bring back.                                                         *)
Frame(kind, n, value) == [kind |-> kind, size |-> n, at |-> stack_point, value |-> value]

HInit == Init /\ frames = <<>> /\ sound = TRUE

Pushes(f) ==
  IF stack_point >= f.size
  THEN /\ Len(frames) < MaxFrames
       /\ frames' = Append(frames, f)
       /\ UNCHANGED sound
  ELSE sound' = FALSE /\ UNCHANGED frames

Pulls(kind) ==
  IF frames # <<>> /\ Last(frames).kind = kind
  THEN frames' = Front(frames) /\ UNCHANGED sound
  ELSE sound' = FALSE /\ UNCHANGED frames

Keeps == UNCHANGED <<frames, sound>>

(* BRK zeroes the byte above the pointer, which is the top frame's.         *)
HInstruction ==
  \/ (LDA \/ LDX \/ SEC \/ CLC \/ CLI \/ TSX) /\ Keeps
  \/ TXS /\ sound' = (X = stack_point) /\ UNCHANGED frames
  \/ BRK /\ sound' = (frames = <<>> /\ stack_point > 0) /\ UNCHANGED frames
  \/ PHA /\ Pushes(Frame("data", 1, A))
  \/ PHP /\ Pushes(Frame("status", 1, WithBit(WithBit(P, 16), 32)))
  \/ PLA /\ Pulls("data")
  \/ PLP /\ Pulls("status")
  \/ JSR /\ Pushes(Frame("call", 2, (pc + 2) % WordSize))
  \/ RTS /\ Pulls("call")
  \/ RTI /\ Pulls("nmi")
  \/ TakeNmi /\ Pushes(Frame("nmi", 3, [pc |-> pc, flags |-> flags]))

HNext ==
  \/ pc < WordSize /\ sound /\ HInstruction
  \/ RaiseNmi /\ Keeps

HSpec == HInit /\ [][HNext]_historyVars

-----------------------------------------------------------------------------
(* Where a frame's pull will look for it.                                   *)
Held(f) ==
  LET top == f.at + StackSize
      word == mem[top - 1] + PageBytes * mem[top]
  IN  CASE f.kind \in {"data", "status"} -> mem[top] = f.value
        [] f.kind = "call" -> word = f.value
        [] f.kind = "nmi"  -> /\ word = f.value.pc
                              /\ Unpack(mem[top - 2]) =
                                   [f.value.flags EXCEPT !.i = 1, !.u = 0]

(* While the program is sound its frames lie one below the other down to    *)
(* the pointer, each intact in the cells its pull will read, whichever of   *)
(* them translate.c's code pushed and whichever helper.c's.                 *)
FramesIntact ==
  sound =>
    \A i \in 1 .. Len(frames) :
      LET f == frames[i]
      IN  /\ f.at = (IF i = Len(frames) THEN stack_point ELSE frames[i + 1].at)
                      + f.size
          /\ Held(f)

(* A return goes back to where the call or the interrupt came from, with    *)
(* the pointer, and after an interrupt the flags, as they were then: all    *)
(* but I, which exec_interrupt sets before it packs them, and the unused    *)
(* bit.  Interrupts may nest, and strike between any two instructions.      *)
Restores ==
  [][sound' /\ Len(frames') < Len(frames)
       => LET f == Last(frames)
          IN  /\ stack_point' = f.at
              /\ \/ f.kind = "data" /\ A' = f.value
                 \/ f.kind = "status" /\ P' = WithBit(SansBit(f.value, 16), 32)
                 \/ f.kind = "call" /\ pc' = f.value + 1
                 \/ f.kind = "nmi" /\ pc' = f.value.pc
                      /\ flags' = [f.value.flags EXCEPT !.i = 1, !.u = 1]]_historyVars

(* A sound program never touches a cell outside the stack page through the  *)
(* stack: a word pushed where only one byte is left would reach the page    *)
(* below.                                                                   *)
PageKept ==
  [][sound' => \A a \in 0 .. MemSize - 1 \ (StackSize .. 2 * StackSize - 1) :
                  mem'[a] = mem[a]]_historyVars

=============================================================================
