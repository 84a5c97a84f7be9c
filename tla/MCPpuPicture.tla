----------------------------- MODULE MCPpuPicture -----------------------------
(* PpuFrame with two visible rows of two pixels and every way of switching  *)
(* the layers while a frame is drawn.                                       *)
EXTENDS PpuFrameHistory

MCSprites == {[bbg |-> 1, fg |-> 0], [bbg |-> 0, fg |-> 2]}
MCMasks == [bg : BOOLEAN, spr : BOOLEAN]

=============================================================================
