----------------------------- MODULE Program6502 ------------------------------
(***************************************************************************)
(* A program for the processor: a listing of instructions of Alu6502 and   *)
(* branches of Branch6502, gone through one by one.  The modules that      *)
(* extend this one have the listings.                                      *)
(***************************************************************************)
EXTENDS Alu6502, Branch6502

CONSTANT Programs   (* the listings that are run                            *)

VARIABLES
  program,          (* the one that is                                      *)
  at,               (* its instruction to come                              *)
  left, right       (* what it computes on                                  *)

Nothing == "nothing"      (* in the variables of other programs             *)

Go(a, b) == at = a /\ at' = b /\ UNCHANGED <<program, left, right>>

(* BNE to the instruction back, BVC to skip, and so on.                     *)
GoIf(a, branch, there, next) ==
  Go(a, IF Taken(branch, flags) THEN there ELSE next) /\ UNCHANGED vars

Start(listing, first) == program \in Programs \cap listing /\ at = first

=============================================================================
