------------------------------ MODULE Branch6502 ------------------------------
(***************************************************************************)
(* The branches of translate.c: which flag each looks at, and where a taken*)
(* branch goes.                                                            *)
(***************************************************************************)
EXTENDS Integers

(* Slip: BVC is taken whatever the flag.                                    *)
TakenOnEither(branch, f) ==
  \/ branch = "BPL" /\ f.n = 0
  \/ branch = "BMI" /\ f.n # 0
  \/ branch = "BVC"
  \/ branch = "BVS" /\ f.v = 1
  \/ branch = "BCC" /\ f.c = 0
  \/ branch = "BCS" /\ f.c = 1
  \/ branch = "BNE" /\ f.z = 0
  \/ branch = "BEQ" /\ f.z = 1

Taken(branch, f) ==
  \/ branch = "BPL" /\ f.n = 0
  \/ branch = "BMI" /\ f.n # 0
  \/ branch = "BVC" /\ f.v = 0
  \/ branch = "BVS" /\ f.v = 1
  \/ branch = "BCC" /\ f.c = 0
  \/ branch = "BCS" /\ f.c = 1
  \/ branch = "BNE" /\ f.z = 0
  \/ branch = "BEQ" /\ f.z = 1

(* The displacement counts from the next instruction.                       *)
Relative(imm, next) == next + (IF imm >= 128 THEN imm - 256 ELSE imm)

=============================================================================
