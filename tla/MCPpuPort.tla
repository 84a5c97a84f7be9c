------------------------------ MODULE MCPpuPort ------------------------------
(* PpuPort with nametables of two cells: 32 cells, bytes of 3 bits.         *)
EXTENDS PpuPortHistory

(* As the halves of an address, 0 and 6 are pattern cells, 6 * 8 and        *)
(* 6 * 8 + 6 are nametable cells beyond the mask, from which a run of       *)
(* stores reaches the palette.  To $2000, 6 selects the big increment; to   *)
(* $2008, 2 pairs the nametables with the palette's block, 3 pairs it with  *)
(* a pattern table and 5 fails the assertion of the next store.             *)
MCStoreData ==
  [reg \in Register |-> CASE reg \in {CTRL, ADDR} -> {0, 6}
                          [] reg = DATA -> {6}
                          [] reg = MIRROR -> {2, 3, 5}
                          [] OTHER -> {1}]

=============================================================================
