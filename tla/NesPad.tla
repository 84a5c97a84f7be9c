-------------------------------- MODULE NesPad --------------------------------
(***************************************************************************)
(* The controller port of nespsg.c: psg_read and psg_write on $4016 and on *)
(* the sound registers, and the keyboard handler.  A store of an odd byte  *)
(* and then an even one restarts the shift position; each read of $4016    *)
(* then answers for the next button.  The keyboard only latches: a button  *)
(* is forgotten once it has been reported Lasting times.                   *)
(*                                                                         *)
(* As everywhere behind this CPU's bus, a store reads its register before  *)
(* it writes it, and each access takes QEMU's global lock by itself, so    *)
(* the keyboard handler may run between the two.                           *)
(***************************************************************************)
EXTENDS Naturals

CONSTANTS
  Buttons,   (* buttons of the pad: 8                                       *)
  Lasting    (* LASTING_CYCLES: 30                                          *)

ASSUME PadAssumption == Buttons \in Nat \ {0} /\ Lasting \in Nat \ {0}

Button == 1 .. Buttons

(* The read after the last button's has a slot of its own, never latched.   *)
Slot == 1 .. Buttons + 1
Past == Buttons + 1

VARIABLES
  p,            (* the slot of the last read; Past stands for all beyond it *)
  key,          (* the buttons latched by the keyboard handler              *)
  count,        (* how often each slot has been reported                    *)
  prev_write    (* bit 0 of the last byte written to any of the registers   *)

padVars == <<p, key, count, prev_write>>

PadTypeOK ==
  /\ p \in 0 .. Past
  /\ key \subseteq Button
  /\ count \in [Slot -> 0 .. Lasting]
  /\ prev_write \in {0, 1}

PadInit ==
  /\ p = Past
  /\ key = {}
  /\ count = [s \in Slot |-> 0]
  /\ prev_write = 0

-----------------------------------------------------------------------------
(* psg_read.  The slot a read of $4016 looks at, and what it answers.       *)
Latched == p < Past /\ p + 1 \in key
Answer == IF Latched /\ count[p + 1] < Lasting THEN 1 ELSE 0

(* Slip: the count of a forgotten button is not restarted.                  *)
ReadKeepsCount ==
  /\ p' = IF p < Past THEN p + 1 ELSE p
  /\ IF ~Latched
     THEN UNCHANGED <<key, count>>
     ELSE IF count[p + 1] < Lasting
     THEN /\ count' = [count EXCEPT ![p + 1] = @ + 1]
          /\ UNCHANGED key
     ELSE /\ key' = key \ {p + 1}
          /\ UNCHANGED count
  /\ UNCHANGED prev_write

(* Slip: a button that has been reported in full is not forgotten.          *)
ReadForgetsNothing ==
  /\ p' = IF p < Past THEN p + 1 ELSE p
  /\ count' = IF Latched /\ count[p + 1] < Lasting
              THEN [count EXCEPT ![p + 1] = @ + 1]
              ELSE count
  /\ UNCHANGED <<key, prev_write>>

Read ==
  /\ p' = IF p < Past THEN p + 1 ELSE p
  /\ IF ~Latched
     THEN UNCHANGED <<key, count>>
     ELSE IF count[p + 1] < Lasting
     THEN /\ count' = [count EXCEPT ![p + 1] = @ + 1]
          /\ UNCHANGED key
     ELSE /\ count' = [count EXCEPT ![p + 1] = 0]
          /\ key' = key \ {p + 1}
  /\ UNCHANGED prev_write

(* Slip: the strobe restarts at the first button's own slot.                *)
WritePadPastFirst(d) ==
  /\ p' = IF d % 2 = 0 /\ prev_write = 1 THEN 1 ELSE p
  /\ prev_write' = d % 2
  /\ UNCHANGED <<key, count>>

(* Slip: the strobe acts on its rising edge.                                *)
WritePadOnRise(d) ==
  /\ p' = IF d % 2 = 1 /\ prev_write = 0 THEN 0 ELSE p
  /\ prev_write' = d % 2
  /\ UNCHANGED <<key, count>>

(* psg_write on $4016.                                                      *)
WritePad(d) ==
  /\ p' = IF d % 2 = 0 /\ prev_write = 1 THEN 0 ELSE p
  /\ prev_write' = d % 2
  /\ UNCHANGED <<key, count>>

(* psg_write on any other register but $4014; the read before it answers 0  *)
(* and changes nothing.                                                     *)
WriteSound(d) ==
  /\ prev_write' = d % 2
  /\ UNCHANGED <<p, key, count>>

(* nextkbd_event for the code of a button.  Other codes, and releases,      *)
(* change nothing a read looks at.                                          *)
Press(b) ==
  /\ key' = key \cup {b}
  /\ UNCHANGED <<p, count, prev_write>>

=============================================================================
