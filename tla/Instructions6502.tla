--------------------------- MODULE Instructions6502 ---------------------------
(***************************************************************************)
(* What a program expects of the processor: one instruction after the      *)
(* other, and an interrupt that strikes between two of them and returns to *)
(* the one it kept from being next.                                        *)
(***************************************************************************)
EXTENDS Integers, Sequences

CONSTANTS
  Text,        (* address -> the instruction there: its kind, the address   *)
               (* of the next one, and where it goes                        *)
  Start,       (* the first one                                             *)
  Vector       (* the interrupt's handler                                   *)

VARIABLES
  ip,          (* the next instruction                                      *)
  stack,       (* the words pushed, the last one on top                     *)
  nmi,         (* an interrupt has been requested                           *)
  stopped      (* an instruction has not been decoded                       *)

ipVars == <<ip, stack, nmi, stopped>>

Push(word) == stack' = Append(stack, word)
Top == stack[Len(stack)]
Pop == stack # <<>> /\ stack' = SubSeq(stack, 1, Len(stack) - 1)

-----------------------------------------------------------------------------
IpInit == ip = Start /\ stack = <<>> /\ nmi = FALSE /\ stopped = FALSE

(* BRK does not jump.                                                       *)
Straight(i) ==
  /\ i.kind \in {"plain", "brk"}
  /\ ip' = i.next /\ UNCHANGED stack

Branch(i) ==
  /\ i.kind = "branch"
  /\ ip' \in {i.next, i.to} /\ UNCHANGED stack

Jump(i) == i.kind = "jump" /\ ip' = i.to /\ UNCHANGED stack
Call(i) == i.kind = "call" /\ ip' = i.to /\ Push(i.next - 1)
Return(i) == i.kind = "return" /\ Pop /\ ip' = Top + 1
ReturnFromNmi(i) == i.kind = "rti" /\ Pop /\ ip' = Top

Step ==
  /\ ip \in DOMAIN Text /\ ~stopped
  /\ LET i == Text[ip]
     IN  Straight(i) \/ Branch(i) \/ Jump(i) \/ Call(i) \/ Return(i) \/ ReturnFromNmi(i)
  /\ UNCHANGED <<nmi, stopped>>

(* Nothing is promised of the program counter where the machine stops.      *)
Undecoded ==
  /\ ip \in DOMAIN Text /\ Text[ip].kind = "unknown"
  /\ stopped' = TRUE
  /\ UNCHANGED <<stack, nmi>>

Interrupt ==
  /\ nmi /\ ~stopped
  /\ Push(ip) /\ ip' = Vector
  /\ nmi' = FALSE /\ UNCHANGED stopped

Request == nmi' = TRUE /\ UNCHANGED <<ip, stack, stopped>>

IpNext == Step \/ Undecoded \/ Interrupt \/ Request

IpSpec == IpInit /\ [][IpNext]_ipVars

=============================================================================
