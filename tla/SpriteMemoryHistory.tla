-------------------------- MODULE SpriteMemoryHistory --------------------------
(***************************************************************************)
(* SpriteMemory with the bytes delivered since the program last positioned *)
(* OAMADDR, by single stores and by copies alike.                          *)
(***************************************************************************)
EXTENDS SpriteMemory

VARIABLE stream     (* the last OamSize bytes delivered, oldest first       *)

historyVars == <<vars, stream>>

Latest(s) == SubSeq(s, IF Len(s) > OamSize THEN Len(s) - OamSize + 1 ELSE 1, Len(s))

HInit == Init /\ stream = <<>>

HNext ==
  \/ (StoreRead \/ StoreRam) /\ UNCHANGED stream
  \/ WriteOamAddr /\ stream' = <<>>
  \/ WriteOamData /\ stream' = Latest(Append(stream, bus.data))
  \/ WriteDma
     /\ stream' = [i \in 1 .. OamSize |-> PageByte(bus.data, i - 1)]

HSpec == HInit /\ [][HNext]_historyVars

-----------------------------------------------------------------------------
(* Sprite memory is a ring: the cells before OAMADDR hold the bytes last    *)
(* delivered, newest first, however single stores to $2004 and copies       *)
(* through $4014 are mixed.                                                 *)
OamIsARing ==
  \A k \in 1 .. Len(stream) :
    oam[(OAMADDR + OamSize - k) % OamSize] = stream[Len(stream) - k + 1]

=============================================================================
