------------------------------ MODULE MultiByte -------------------------------
(***************************************************************************)
(* What the carry is for: the loops by which programs of this processor    *)
(* add, subtract and halve numbers of N bytes.  The carry has to come      *)
(* through the load, the store and the count between one byte's operation  *)
(* and the next.                                                           *)
(*                                                                         *)
(*        CLC or SEC ; LDX #N                                              *)
(*  loop: LDA left ; ADC right, SBC right or ROR A ; STA out               *)
(*        DEX ; BNE loop                                                   *)
(***************************************************************************)
EXTENDS Program6502

CONSTANT N     (* bytes of a number, lowest first                           *)

ASSUME NAssumption == N \in 1 .. Size - 1

VARIABLE out

Sums == {"add", "subtract", "halve"}

Number == [0 .. N - 1 -> Byte]

SumInit ==
  /\ Start(Sums, "carry")
  /\ left \in Number
  /\ right \in IF program = "halve" THEN {left} ELSE Number
  /\ out = [i \in 0 .. N - 1 |-> 0]

(* The byte an iteration works on: sums go up, halving comes down.          *)
Turn == IF program = "halve" THEN X - 1 ELSE N - X

SetCarry ==
  Go("carry", "count") /\ (IF program = "subtract" THEN SEC ELSE CLC) /\ UNCHANGED out

LoadLength == Go("count", "load") /\ LDX(N) /\ UNCHANGED out

LoadByte == Go("load", "operate") /\ LDA(left[Turn]) /\ UNCHANGED out

Operate ==
  /\ Go("operate", "store")
  /\ \/ program = "add" /\ ADC(right[Turn])
     \/ program = "subtract" /\ SBC(right[Turn])
     \/ program = "halve" /\ OnA(RotatedRight)
  /\ UNCHANGED out

StoreByte == Go("store", "next") /\ STA /\ out' = [out EXCEPT ![Turn] = M']

CountDown ==
  \/ Go("next", "branch") /\ DEX /\ UNCHANGED out
  \/ GoIf("branch", "BNE", "load", "done") /\ UNCHANGED out

SumNext ==
  /\ program \in Sums
  /\ SetCarry \/ LoadLength \/ LoadByte \/ Operate \/ StoreByte \/ CountDown

-----------------------------------------------------------------------------
(* What a byte weighs by its place, and the number that n bytes of f are,   *)
(* from one on.                                                             *)
Place[n \in 0 .. N] == IF n = 0 THEN 1 ELSE Size * Place[n - 1]

Value(f, from, n) ==
  LET value[k \in 0 .. N - from] ==
        IF k = 0 THEN 0 ELSE value[k - 1] + f[from + k - 1] * Place[k - 1]
  IN  value[n]

Past == N - X             (* the bytes a loop has done, when it goes back   *)

(* At the head of each loop the bytes so far and the carry are the sum or   *)
(* difference of the operands' bytes so far, or half of the bytes from the  *)
(* top down, and so at the end of the whole numbers: adc_common, sbc_common *)
(* and trans_RORA hand the carry on, and nothing between them touches it.   *)
RunningResult ==
  program \in Sums /\ at \in {"load", "done"} =>
    /\ at = "done" => Past = N
    /\ program = "add" =>
         Value(out, 0, Past) + Place[Past] * flags.c
           = Value(left, 0, Past) + Value(right, 0, Past)
    /\ program = "subtract" =>
         Value(out, 0, Past) - Place[Past] * (1 - flags.c)
           = Value(left, 0, Past) - Value(right, 0, Past)
    /\ program = "halve" =>
         2 * Value(out, X, Past) + flags.c = Value(left, X, Past)

=============================================================================
