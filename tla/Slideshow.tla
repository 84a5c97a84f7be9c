------------------------------- MODULE Slideshow -------------------------------
(***************************************************************************)
(* What the player of a game sees: a world that moves on, and pictures of  *)
(* it.  A picture may be torn, its rows taken at different moments, but    *)
(* none shows a moment before one already seen, none is of a moment to     *)
(* come, and a world that stands still is shown as it is.                  *)
(***************************************************************************)
EXTENDS Naturals

CONSTANT End     (* bound: the last moment                                  *)

VARIABLES
  world,         (* the present moment                                      *)
  shown,         (* the moments the rows of the picture were taken at       *)
  newest         (* the latest moment ever shown                            *)

slideVars == <<world, shown, newest>>

SlideInit == world = 0 /\ shown = {} /\ newest = 0

MoveOn ==
  /\ world < End /\ world' = world + 1
  /\ UNCHANGED <<shown, newest>>

Latest(rows) == CHOOSE t \in rows : \A u \in rows : u <= t

(* A picture may be blank.                                                  *)
Show(rows) ==
  /\ rows \subseteq newest .. world
  /\ shown' = rows
  /\ newest' = IF rows = {} THEN newest ELSE Latest(rows)
  /\ UNCHANGED world

SlideNext == MoveOn \/ \E rows \in SUBSET (newest .. world) : Show(rows)

(* The screen is up to date again and again.                                *)
Shows == []<>(shown = {world})

SlideSpec == SlideInit /\ [][SlideNext]_slideVars /\ Shows

=============================================================================
