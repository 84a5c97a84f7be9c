------------------------------ MODULE Programs6502 ------------------------------
(***************************************************************************)
(* What programs make of the processor: one runs, be it a loop on numbers, *)
(* a comparison, a loop on memory, a listing laid out as opcodes, or any   *)
(* instructions of Alu6502 in any order.                                   *)
(***************************************************************************)
EXTENDS MultiByte, CompareBranch, MemoryLoops, Decode6502

allVars == <<vars, program, at, left, right, out, memoryVars, codeVars>>

NoSum == out = Nothing
NoLoop ==
  /\ mem = Nothing /\ s = 0 /\ d = 0 /\ from = 0 /\ to = 0
  /\ start = Nothing /\ landed = 0
NoCode == code = <<>> /\ pc = 0 /\ stopped = FALSE
NoOperands == left = Nothing /\ right = Nothing

ProgramsInit ==
  /\ Init
  /\ \/ SumInit /\ NoLoop /\ NoCode
     \/ CompareInit /\ NoSum /\ NoLoop /\ NoCode
     \/ LoopInit /\ NoSum /\ NoCode
     \/ Start({"opcodes"}, "laid") /\ CodeInit /\ NoSum /\ NoLoop /\ NoOperands
     \/ Start({"any"}, "any") /\ NoSum /\ NoLoop /\ NoCode /\ NoOperands

ProgramsNext ==
  \/ SumNext /\ UNCHANGED <<memoryVars, codeVars>>
  \/ CompareNext /\ UNCHANGED <<out, memoryVars, codeVars>>
  \/ LoopNext /\ UNCHANGED <<out, codeVars>>
  \/ /\ program = "opcodes"
     /\ CodeNext
     /\ UNCHANGED <<vars, program, at, left, right, out, memoryVars>>
  \/ /\ program = "any"
     /\ Next
     /\ UNCHANGED <<program, at, left, right, out, memoryVars, codeVars>>

(* The CPU loop goes on from each instruction to the next.                  *)
ProgramsSpec ==
  ProgramsInit /\ [][ProgramsNext]_allVars /\ WF_allVars(ProgramsNext)

-----------------------------------------------------------------------------
(* The loops and comparisons end, for every operand: the index comes round  *)
(* to zero, cpu_update_zn_flags or the test of trans_INX sets the zero flag,*)
(* no instruction in between clears it, and BNE sees it.                    *)
ProgramEnds ==
  program \notin {"opcodes", "any"} => <>(at \in {"done", "yes", "no"})

=============================================================================
