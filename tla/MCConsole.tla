------------------------------ MODULE MCConsole ------------------------------
(* The game, with the handlers nested once, or the machine reset once, or   *)
(* the button pressed twice; and images of every shape that are not the     *)
(* game, for the loader: rom holds three blocks and a page, so that the     *)
(* second page after three blocks and a program of four overrun it.         *)
EXTENDS Console

MCBlocks == {"b1", "b2", "game"}
MCPages == {"p1", "p2"}

MCUpsets ==
  {[handlers |-> 2, resets |-> 0, presses |-> 1],
   [handlers |-> 1, resets |-> 1, presses |-> 1],
   [handlers |-> 1, resets |-> 0, presses |-> 2]}

GameImage ==
  [signed |-> TRUE, mapper |-> 0, program |-> <<"b1", "game">>,
   pages |-> <<"p1">>, mirroring |-> 1]

Plain(i) ==
  /\ Len(i.program) <= 3 /\ i.signed /\ i.mapper = 0 /\ i.mirroring = 1
  /\ \A n \in DOMAIN i.program : i.program[n] # "game"

Some == [GameImage EXCEPT !.program = <<"b1">>]

MCCartridges ==
  {GameImage} \cup {i \in Image : Plain(i)}
  \cup {[Some EXCEPT !.signed = FALSE], [Some EXCEPT !.mirroring = 0]}
  \cup {[Some EXCEPT !.mapper = m] : m \in {1, 3}}
  \cup {[Some EXCEPT !.program = <<"b1", "b2", "b1", "b2">>]}
=============================================================================
