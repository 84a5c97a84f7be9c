---------------------------- MODULE CompareBranch -----------------------------
(***************************************************************************)
(* What the flags are for: the idioms by which programs of this processor  *)
(* compare two bytes and branch.  A program is named for the branch that   *)
(* decides.                                                                *)
(*                                                                         *)
(*  unsigned: LDA #left ; CMP #right ; BCC, BCS, BEQ or BNE yes            *)
(*  signed:   LDA #left ; SEC ; SBC #right ; BVC skip ; EOR #sign          *)
(*            skip: BMI or BPL yes                                         *)
(***************************************************************************)
EXTENDS Program6502

SignedBranch == {"BMI", "BPL"}
UnsignedBranch == {"BCC", "BCS", "BEQ", "BNE"}
Comparisons == SignedBranch \cup UnsignedBranch

CompareInit == Start(Comparisons, "load") /\ left \in Byte /\ right \in Byte

LoadLeft == Go("load", IF program \in SignedBranch THEN "sec" ELSE "cmp") /\ LDA(left)

Compare ==
  \/ Go("cmp", "decide") /\ CMP(right)
  \/ Go("sec", "sbc") /\ SEC
  \/ Go("sbc", "bvc") /\ SBC(right)

FlipSign == GoIf("bvc", "BVC", "decide", "eor") \/ (Go("eor", "decide") /\ EOR(Half))

Decide == GoIf("decide", program, "yes", "no")

CompareNext == program \in Comparisons /\ (LoadLeft \/ Compare \/ FlipSign \/ Decide)

-----------------------------------------------------------------------------
Yes == at = "yes"

(* The branches tell the order of the bytes.  After CMP, of unsigned ones:  *)
(* cpu_compare against the conditions of trans_BCC, trans_BCS, trans_BEQ    *)
(* and trans_BNE.  After a subtraction whose sign is flipped when it        *)
(* overflows, of signed ones: sbc_common, trans_BVC, trans_EORIM, trans_BMI.*)
BranchesOrder ==
  at \in {"yes", "no"} =>
    /\ program = "BCC" => (Yes <=> left < right)
    /\ program = "BCS" => (Yes <=> left >= right)
    /\ program = "BEQ" => (Yes <=> left = right)
    /\ program = "BNE" => (Yes <=> left # right)
    /\ program = "BMI" => (Yes <=> Signed(left) < Signed(right))
    /\ program = "BPL" => (Yes <=> Signed(left) >= Signed(right))

=============================================================================
