-------------------------------- MODULE PadPoll --------------------------------
(***************************************************************************)
(* The controller port under the program every cartridge runs: store 1 and *)
(* then 0 to $4016, load it once per button, and again.  An interrupt's    *)
(* handler may store to a sound register between any two accesses of the   *)
(* program, and the user may press a button between any two accesses.      *)
(***************************************************************************)
EXTENDS NesPad, Sequences

CONSTANT SoundData    (* bytes the sound driver stores                      *)

ASSUME SoundAssumption == SoundData \subseteq Nat

VARIABLES
  pc,        (* the program's next access: see Access                       *)
  bits,      (* what the loads of this poll have answered so far            *)
  spoiled,   (* the last sound byte between the two stores was even         *)
  reports    (* loads that answered 1 for a button since it was latched     *)

pollVars == <<padVars, pc, bits, spoiled, reports>>

(* The four accesses of the two stores, then the loads.                     *)
Access == {"read1", "write1", "read0", "write0", "load"}

PollTypeOK ==
  /\ PadTypeOK
  /\ pc \in Access
  /\ bits \in UNION {[1 .. n -> {0, 1}] : n \in 0 .. Buttons}
  /\ spoiled \in BOOLEAN
  /\ reports \in [Button -> 0 .. Lasting]

PollInit ==
  /\ PadInit
  /\ pc = "read1"
  /\ bits = <<>>
  /\ spoiled = FALSE
  /\ reports = [b \in Button |-> 0]

(* The first access of a store: translate.c loads the operand of a store.   *)
ReadBeforeStore ==
  /\ \/ pc = "read1" /\ pc' = "write1"
     \/ pc = "read0" /\ pc' = "write0"
  /\ Read
  /\ reports' = [b \in Button |-> IF b \in key' THEN reports[b] ELSE 0]
  /\ UNCHANGED <<bits, spoiled>>

StrobeOn ==
  /\ pc = "write1" /\ pc' = "read0"
  /\ WritePad(1)
  /\ spoiled' = FALSE
  /\ UNCHANGED <<bits, reports>>

StrobeOff ==
  /\ pc = "write0" /\ pc' = "load"
  /\ WritePad(0)
  /\ bits' = <<>>
  /\ UNCHANGED <<spoiled, reports>>

Load ==
  /\ pc = "load"
  /\ Read
  /\ bits' = Append(bits, Answer)
  /\ reports' = [b \in Button |->
                   IF b \notin key' THEN 0
                   ELSE IF b = Len(bits) + 1 THEN reports[b] + Answer
                   ELSE reports[b]]
  /\ pc' = IF Len(bits') = Buttons THEN "read1" ELSE "load"
  /\ UNCHANGED spoiled

Program == ReadBeforeStore \/ StrobeOn \/ StrobeOff \/ Load

Keyboard ==
  /\ \E b \in Button : Press(b)
  /\ UNCHANGED <<pc, bits, spoiled, reports>>

Sound ==
  /\ \E d \in SoundData :
       /\ WriteSound(d)
       /\ spoiled' = IF pc \in {"read0", "write0"} THEN d % 2 = 0 ELSE spoiled
  /\ UNCHANGED <<pc, bits, reports>>

PollNext == Program \/ Keyboard \/ Sound

(* The CPU executes its program.                                            *)
PollSpec == PollInit /\ [][PollNext]_pollVars /\ WF_pollVars(Program)

-----------------------------------------------------------------------------
(* A poll reports a button only if that very button is latched, even when   *)
(* a sound store between the two stores has spoiled the strobe: then the    *)
(* loads of the poll before, and the two reads of the stores, have left the *)
(* shift position beyond the last button (psg_read, psg_write).             *)
NoPhantomButton ==
  [][\A b \in Button :
       (bits' # bits /\ Len(bits') = b /\ bits'[b] = 1) => b \in key]_pollVars

(* A poll with an unspoiled strobe asks for every button in turn: the reads *)
(* that precede the writes never shift the position of a load.              *)
PollAligned ==
  pc = "load" => p = IF spoiled THEN Past ELSE Len(bits)

(* A button is forgotten only after exactly Lasting polls have reported it: *)
(* no report is lost to the extra read of a store, and none is repeated.    *)
ReportedInFull ==
  [][\A b \in Button : (b \in key /\ b \notin key') => reports[b] = Lasting]_pollVars

(* A pressed button does not stay pressed: a program that keeps polling     *)
(* either has a strobe spoiled or sees the button go up, however often the  *)
(* sound driver and the keyboard come in between.                           *)
ButtonsGoUp ==
  \A b \in Button : (b \in key) ~> (spoiled \/ b \notin key)

=============================================================================
