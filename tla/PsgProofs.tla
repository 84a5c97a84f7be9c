------------------------------ MODULE PsgProofs -------------------------------
(***************************************************************************)
(* The two things a program gets from nespsg.c besides sound.              *)
(*                                                                         *)
(* $4014, for every size of sprite memory and of RAM, every page asked for *)
(* and every mixture of single stores and copies: sprite memory stays the  *)
(* ring of the bytes delivered, and a copy rotates its page by OAMADDR.    *)
(*                                                                         *)
(* $4016, for every number of buttons, every length of a press and every   *)
(* sound driver: polls stay aligned with the buttons, no button is         *)
(* reported that is not down, and each press is reported in full.          *)
(*                                                                         *)
(* What the copy's loop leaves behind is a fact about a recursive function *)
(* for every number of turns.  It is proved by induction with a set in the *)
(* place of a predicate: natural numbers are compared by the intervals     *)
(* below them, whose inclusion is well-founded.                            *)
(***************************************************************************)
EXTENDS PadPoll, SpriteMemoryHistory, FiniteSetTheorems, SequenceTheorems, TLAPS

-----------------------------------------------------------------------------
(* Induction                                                                *)

LEMMA LeastNatural ==
  ASSUME NEW M, M \subseteq Nat, M # {}
  PROVE  \E x \in M : \A y \in M : x <= y
<1> DEFINE Below == {0 .. n : n \in M}
           R == StrictSubsetOrdering(Nat)
<1>1. \A n \in M : n \in Nat /\ 0 .. n \subseteq Nat /\ IsFiniteSet(0 .. n)
  BY FS_Interval
<1>2. Below \subseteq FiniteSubsetsOf(Nat) /\ Below # {}
  BY <1>1 DEF FiniteSubsetsOf
<1>3. IsWellFoundedOn(R, FiniteSubsetsOf(Nat))
  BY FS_StrictSubsetOrderingWellFounded
<1>4. PICK I \in Below : \A J \in Below : ~(<<J, I>> \in R)
  <2> HIDE DEF Below, R
  <2> QED
    BY <1>2, <1>3, WFMin
<1>5. PICK x \in M : I = 0 .. x
  OBVIOUS
<1>6. ASSUME NEW y \in M, ~(x <= y) PROVE FALSE
  <2>1. y \in Nat /\ x \in Nat /\ y < x
    BY <1>6
  <2>2. 0 .. y \in Below /\ 0 .. y \subseteq 0 .. x /\ x \in 0 .. x /\ x \notin 0 .. y
    BY <2>1
  <2>3. <<0 .. y, 0 .. x>> \in R
    BY <2>1, <2>2 DEF StrictSubsetOrdering
  <2> QED
    BY <1>4, <1>5, <2>2, <2>3
<1> QED
  BY <1>6

LEMMA SetInduction ==
  ASSUME NEW T, 0 \in T, \A n \in Nat : n \in T => n + 1 \in T
  PROVE  Nat \subseteq T
<1> SUFFICES ASSUME ~(Nat \subseteq T) PROVE FALSE
  OBVIOUS
<1>1. Nat \ T \subseteq Nat /\ Nat \ T # {}
  OBVIOUS
<1>2. PICK x \in Nat \ T : \A y \in Nat \ T : x <= y
  BY <1>1, LeastNatural
<1>3. x # 0 /\ x - 1 \in Nat /\ ~(x <= x - 1) /\ (x - 1) + 1 = x
  BY <1>2
<1> QED
  BY <1>2, <1>3

-----------------------------------------------------------------------------
(* Positions in the ring                                                    *)

LEMMA Wraps ==
  ASSUME NEW n \in Nat \ {0}, NEW x \in Nat, x < n + n
  PROVE  x % n = IF x < n THEN x ELSE x - n
<1>1. x \div n = IF x < n THEN 0 ELSE 1
  OBVIOUS
<1>2. x = (x \div n) * n + (x % n) /\ x % n \in Nat
  OBVIOUS
<1> QED
  BY <1>1, <1>2

(* How far behind OAMADDR a cell is, going up.                              *)
Offset(c) == IF c >= OAMADDR THEN c - OAMADDR ELSE c + OamSize - OAMADDR

LEMMA Offsets ==
  ASSUME OAMADDR \in Cell
  PROVE  /\ OamSize \in Nat \ {0}
         /\ \A c \in Cell : Offset(c) \in Cell
         /\ \A i \in Cell : /\ (OAMADDR + i) % OamSize \in Cell
                            /\ Offset((OAMADDR + i) % OamSize) = i
         /\ \A c \in Cell : (OAMADDR + Offset(c)) % OamSize = c
         /\ (OAMADDR + OamSize) % OamSize = OAMADDR
<1>1. OamSize \in Nat \ {0} /\ OAMADDR \in Nat /\ OAMADDR < OamSize
  BY OamAssumption DEF Cell
<1>2. \A c \in Cell : Offset(c) \in Cell
  BY <1>1 DEF Cell, Offset
<1>3. ASSUME NEW i \in 0 .. OamSize
      PROVE  (OAMADDR + i) % OamSize = IF OAMADDR + i < OamSize THEN OAMADDR + i
                                       ELSE OAMADDR + i - OamSize
  <2> DEFINE x == OAMADDR + i
  <2>1. x \in Nat /\ x < OamSize + OamSize
    BY <1>1
  <2> HIDE DEF x
  <2>2. x % OamSize = IF x < OamSize THEN x ELSE x - OamSize
    BY <1>1, <2>1, Wraps
  <2> QED
    BY <1>1, <2>2 DEF x
<1>4. ASSUME NEW i \in Cell
      PROVE  /\ (OAMADDR + i) % OamSize \in Cell
             /\ Offset((OAMADDR + i) % OamSize) = i
  BY <1>1, <1>3, <1>4 DEF Cell, Offset
<1>5. ASSUME NEW c \in Cell PROVE (OAMADDR + Offset(c)) % OamSize = c
  BY <1>1, <1>2, <1>3, <1>5 DEF Cell, Offset
<1>6. (OAMADDR + OamSize) % OamSize = OAMADDR
  BY <1>1, <1>3
<1> QED
  BY <1>1, <1>2, <1>4, <1>5, <1>6

-----------------------------------------------------------------------------
(* The copy                                                                 *)

Bytes == Stored \cup {0}

LEMMA PageByteType ==
  ASSUME ram \in [0 .. RamSize - 1 -> Bytes], NEW page \in Nat, NEW i \in Nat
  PROVE  PageByte(page, i) \in Bytes
<1>1. OamSize \in Nat \ {0} /\ RamPages \in Nat \ {0}
  BY OamAssumption
<1>2. OamSize * page \in Nat /\ RamSize \in Nat \ {0}
  BY <1>1 DEF RamSize
<1> DEFINE x == OamSize * page + i
<1>3. x \in Nat
  BY <1>2
<1> HIDE DEF x
<1>4. x % RamSize \in 0 .. RamSize - 1
  BY <1>2, <1>3
<1> QED
  BY <1>4 DEF PageByte, x

(* After n of the loop's turns the first n of the page's bytes are in       *)
(* place, and the rest is as it was.                                        *)
Placed(page, n) ==
  [oam |-> [c \in Cell |-> IF Offset(c) < n THEN PageByte(page, Offset(c)) ELSE oam[c]],
   addr |-> (OAMADDR + n) % OamSize]

LEMMA PlacedFirst ==
  ASSUME TypeOK, NEW page \in Nat
  PROVE  Placed(page, 0) = [oam |-> oam, addr |-> OAMADDR]
<1>1. OAMADDR \in Cell /\ oam = [c \in Cell |-> oam[c]]
  BY DEF TypeOK
<1>2. \A c \in Cell : ~(Offset(c) < 0)
  BY <1>1, Offsets DEF Cell
<1>3. (OAMADDR + 0) % OamSize = OAMADDR
  BY <1>1, OamAssumption, Wraps DEF Cell
<1>4. [c \in Cell |-> IF Offset(c) < 0 THEN PageByte(page, Offset(c)) ELSE oam[c]] = oam
  BY <1>1, <1>2
<1> QED
  BY <1>3, <1>4 DEF Placed

LEMMA PlacedNext ==
  ASSUME TypeOK, NEW page \in Nat, NEW n \in Cell
  PROVE  Placed(page, n + 1) = Deliver(Placed(page, n), PageByte(page, n))
<1> DEFINE a == (OAMADDR + n) % OamSize
           old == [c \in Cell |-> IF Offset(c) < n THEN PageByte(page, Offset(c)) ELSE oam[c]]
           new == [c \in Cell |-> IF Offset(c) < n + 1 THEN PageByte(page, Offset(c)) ELSE oam[c]]
<1>1. OAMADDR \in Cell /\ n \in Nat /\ n < OamSize /\ OamSize \in Nat \ {0}
  BY OamAssumption DEF TypeOK, Cell
<1>2. a \in Cell /\ Offset(a) = n
  BY <1>1, Offsets
<1>3. \A c \in Cell : Offset(c) \in Cell /\ (Offset(c) = n => c = a)
  BY <1>1, Offsets
<1>4. (a + 1) % OamSize = (OAMADDR + (n + 1)) % OamSize
  <2>1. a = IF OAMADDR + n < OamSize THEN OAMADDR + n ELSE OAMADDR + n - OamSize
    <3> DEFINE x == OAMADDR + n
    <3>1. x \in Nat /\ x < OamSize + OamSize
      BY <1>1 DEF Cell
    <3> HIDE DEF x
    <3>2. x % OamSize = IF x < OamSize THEN x ELSE x - OamSize
      BY <1>1, <3>1, Wraps
    <3> QED
      BY <1>1, <3>2 DEF x, a
  <2> HIDE DEF a
  <2>2. a + 1 \in Nat /\ a + 1 <= OamSize /\ a + 1 < OamSize + OamSize
    BY <1>1, <1>2 DEF Cell
  <2>3. (a + 1) % OamSize = IF a + 1 < OamSize THEN a + 1 ELSE a + 1 - OamSize
    <3> DEFINE x == a + 1
    <3>1. x \in Nat /\ x < OamSize + OamSize
      BY <2>2
    <3> HIDE DEF x
    <3>2. x % OamSize = IF x < OamSize THEN x ELSE x - OamSize
      BY <1>1, <3>1, Wraps
    <3> QED
      BY <1>1, <1>2, <2>2, <3>2 DEF x, Cell
  <2>4. (OAMADDR + (n + 1)) % OamSize
          = IF OAMADDR + (n + 1) < OamSize THEN OAMADDR + (n + 1)
            ELSE OAMADDR + (n + 1) - OamSize
    <3> DEFINE x == OAMADDR + (n + 1)
    <3>1. x \in Nat /\ x < OamSize + OamSize
      BY <1>1 DEF Cell
    <3> HIDE DEF x
    <3>2. x % OamSize = IF x < OamSize THEN x ELSE x - OamSize
      BY <1>1, <3>1, Wraps
    <3> QED
      BY <1>1, <3>2 DEF x
  <2>5. OAMADDR \in Nat /\ OAMADDR < OamSize
    BY <1>1 DEF Cell
  <2> QED
    BY <1>1, <2>1, <2>3, <2>4, <2>5
<1> HIDE DEF a
<1>5. new = [old EXCEPT ![a] = PageByte(page, n)]
  <2>1. ASSUME NEW c \in Cell
        PROVE  new[c] = IF c = a THEN PageByte(page, n) ELSE old[c]
    <3>1. Offset(c) \in Nat
      BY <1>3 DEF Cell
    <3>2. CASE c = a
      BY <1>1, <1>2, <3>2
    <3>3. CASE c # a
      <4>1. Offset(c) < n + 1 <=> Offset(c) < n
        BY <1>1, <1>3, <3>1, <3>3
      <4> QED
        BY <3>3, <4>1
    <3> QED
      BY <3>2, <3>3
  <2> HIDE DEF new
  <2>2. new = [c \in Cell |-> new[c]]
    BY DEF new
  <2> QED
    BY <1>2, <2>1, <2>2
<1> QED
  BY <1>4, <1>5 DEF Placed, Deliver, a

(* The loop: it delivers the page's bytes from OAMADDR upwards, round the   *)
(* ring, and is back where it was.                                          *)
LEMMA LoopPlaces ==
  ASSUME TypeOK, NEW page \in Nat
  PROVE  Copied(page) = Placed(page, OamSize)
<1> DEFINE Turns == 0 .. OamSize
           Is(f) == f = [n \in Turns |->
                           IF n = 0 THEN [oam |-> oam, addr |-> OAMADDR]
                           ELSE Deliver(f[n - 1], PageByte(page, n - 1))]
           after == CHOOSE f : Is(f)
           w == [n \in Turns |-> Placed(page, n)]
           T == {n \in Nat : n <= OamSize => after[n] = Placed(page, n)}
<1>1. OamSize \in Nat \ {0}
  BY OamAssumption
<1>2. \A n \in Turns : n # 0 => n - 1 \in Turns /\ n - 1 \in Cell /\ (n - 1) + 1 = n
  BY <1>1 DEF Cell
<1>3. Is(w)
  <2>1. ASSUME NEW n \in Turns
        PROVE  Placed(page, n) = IF n = 0 THEN [oam |-> oam, addr |-> OAMADDR]
                                 ELSE Deliver(w[n - 1], PageByte(page, n - 1))
    <3>1. CASE n = 0
      BY <3>1, PlacedFirst
    <3>2. CASE n # 0
      <4>1. n - 1 \in Cell /\ w[n - 1] = Placed(page, n - 1) /\ (n - 1) + 1 = n
        BY <1>2, <3>2
      <4>2. Placed(page, (n - 1) + 1) = Deliver(Placed(page, n - 1), PageByte(page, n - 1))
        BY <4>1, PlacedNext
      <4> QED
        BY <3>2, <4>1, <4>2
    <3> QED
      BY <3>1, <3>2
  <2> QED
    BY <2>1
<1>4. Is(after)
  <2> HIDE DEF Is
  <2> QED
    BY <1>3
<1>5. \A n \in Turns : after[n] = IF n = 0 THEN [oam |-> oam, addr |-> OAMADDR]
                                  ELSE Deliver(after[n - 1], PageByte(page, n - 1))
  <2> HIDE DEF after
  <2> QED
    BY <1>4
<1>6. Copied(page) = after[OamSize]
  BY DEF Copied
<1> HIDE DEF Is, after, w
<1>7. 0 \in T
  BY <1>1, <1>5, PlacedFirst
<1>8. ASSUME NEW n \in Nat, n \in T PROVE n + 1 \in T
  <2>1. SUFFICES ASSUME n + 1 <= OamSize PROVE after[n + 1] = Placed(page, n + 1)
    OBVIOUS
  <2>2. n \in Cell /\ n + 1 \in Turns /\ n + 1 # 0 /\ (n + 1) - 1 = n /\ n <= OamSize
    BY <1>1, <2>1 DEF Cell
  <2>3. after[n + 1] = Deliver(after[n], PageByte(page, n))
    BY <1>5, <2>2
  <2> QED
    BY <1>8, <2>2, <2>3, PlacedNext
<1>9. OamSize \in T
  <2> HIDE DEF T
  <2> QED
    BY <1>1, <1>7, <1>8, SetInduction
<1> QED
  BY <1>1, <1>6, <1>9

LEMMA CopyPlaces ==
  ASSUME TypeOK, NEW page \in Nat
  PROVE  /\ Copied(page).addr = OAMADDR
         /\ Copied(page).oam \in [Cell -> Bytes]
         /\ \A c \in Cell : Copied(page).oam[c] = PageByte(page, Offset(c))
<1>1. OAMADDR \in Cell /\ ram \in [0 .. RamSize - 1 -> Bytes]
  BY DEF TypeOK, Bytes
<1>2. \A c \in Cell : Offset(c) \in Nat /\ Offset(c) < OamSize
  BY <1>1, Offsets DEF Cell
<1>3. \A c \in Cell : PageByte(page, Offset(c)) \in Bytes
  BY <1>1, <1>2, PageByteType
<1>4. /\ Copied(page).addr = (OAMADDR + OamSize) % OamSize
      /\ Copied(page).oam = [c \in Cell |-> IF Offset(c) < OamSize
                                            THEN PageByte(page, Offset(c)) ELSE oam[c]]
  BY LoopPlaces DEF Placed
<1> QED
  BY <1>1, <1>2, <1>3, <1>4, Offsets

-----------------------------------------------------------------------------
(* The inductive invariant.                                                 *)

Ring ==
  /\ TypeOK
  /\ stream \in Seq(Bytes) /\ Len(stream) <= OamSize
  /\ OamIsARing

(* The cell before one that lies k below OAMADDR.                           *)
LEMMA Behind ==
  ASSUME OAMADDR \in Cell, NEW k \in 1 .. OamSize - 1
  PROVE  /\ (((OAMADDR + 1) % OamSize) + OamSize - (k + 1)) % OamSize
               = (OAMADDR + OamSize - k) % OamSize
         /\ (OAMADDR + OamSize - k) % OamSize \in Cell \ {OAMADDR}
         /\ (((OAMADDR + 1) % OamSize) + OamSize - 1) % OamSize = OAMADDR
         /\ (OAMADDR + 1) % OamSize \in Cell
<1>1. /\ OamSize \in Nat \ {0} /\ OAMADDR \in Nat /\ OAMADDR < OamSize
      /\ k \in Nat /\ k >= 1 /\ k < OamSize
  BY OamAssumption DEF Cell
<1> DEFINE b == (OAMADDR + 1) % OamSize
<1>2. b = IF OAMADDR + 1 < OamSize THEN OAMADDR + 1 ELSE 0
  <2> DEFINE x == OAMADDR + 1
  <2>1. x \in Nat /\ x < OamSize + OamSize
    BY <1>1
  <2> HIDE DEF x
  <2>2. x % OamSize = IF x < OamSize THEN x ELSE x - OamSize
    BY <1>1, <2>1, Wraps
  <2> QED
    BY <1>1, <2>2 DEF x
<1> HIDE DEF b
<1>3. b \in Nat /\ b < OamSize
  BY <1>1, <1>2
<1> DEFINE y == OAMADDR + OamSize - k
           z == b + OamSize - (k + 1)
           t == b + OamSize - 1
<1>4. /\ y \in Nat /\ y < OamSize + OamSize /\ z \in Nat /\ z < OamSize + OamSize
      /\ t \in Nat /\ t < OamSize + OamSize
  BY <1>1, <1>3
<1>5. /\ z = IF OAMADDR + 1 < OamSize THEN y ELSE y - OamSize
      /\ t = IF OAMADDR + 1 < OamSize THEN OAMADDR + OamSize ELSE OamSize - 1
      /\ OAMADDR + 1 < OamSize \/ OAMADDR = OamSize - 1
  BY <1>1, <1>2
<1>6. y = OAMADDR + OamSize - k
  OBVIOUS
<1> HIDE DEF y, z, t
<1>7. /\ y % OamSize = IF y < OamSize THEN y ELSE y - OamSize
      /\ z % OamSize = IF z < OamSize THEN z ELSE z - OamSize
      /\ t % OamSize = IF t < OamSize THEN t ELSE t - OamSize
  BY <1>1, <1>4, Wraps
<1>8. y % OamSize \in Cell \ {OAMADDR} /\ z % OamSize = y % OamSize /\ t % OamSize = OAMADDR
  BY <1>1, <1>4, <1>5, <1>6, <1>7 DEF Cell
<1>9. b \in Cell
  BY <1>1, <1>3 DEF Cell
<1> QED
  BY <1>8, <1>9 DEF b, y, z, t

LEMMA OneBehind ==
  ASSUME OAMADDR \in Cell
  PROVE  /\ (((OAMADDR + 1) % OamSize) + OamSize - 1) % OamSize = OAMADDR
         /\ (OAMADDR + 1) % OamSize \in Cell
<1>1. OamSize \in Nat \ {0} /\ OAMADDR \in Nat /\ OAMADDR < OamSize
  BY OamAssumption DEF Cell
<1>2. CASE OamSize = 1
  <2>1. OAMADDR = 0
    BY <1>1, <1>2
  <2> QED
    BY <1>2, <2>1 DEF Cell
<1>3. CASE OamSize # 1
  <2>1. 1 \in 1 .. OamSize - 1
    BY <1>1, <1>3
  <2> QED
    BY <2>1, Behind
<1> QED
  BY <1>2, <1>3

LEMMA BusHolds ==
  ASSUME TypeOK
  PROVE  /\ bus = Idle => bus.reg = "none"
         /\ bus.reg = "addr" => bus.data \in Cell
         /\ bus.reg = "data" => bus.data \in Bytes
         /\ bus.reg = "dma" => bus.data \in Nat
<1>1. CASE bus \in [reg : {"addr"}, data : Cell]
  BY <1>1 DEF Idle
<1>2. CASE bus \in [reg : {"data"}, data : Stored]
  BY <1>2 DEF Idle, Bytes
<1>3. CASE bus \in [reg : {"dma"}, data : Pages]
  <2>1. bus.reg = "dma" /\ bus.data \in Pages
    BY <1>3
  <2>2. bus.data \in Nat
    BY <2>1, OamAssumption
  <2> QED
    BY <2>1, <2>2 DEF Idle
<1>4. CASE bus = Idle
  BY <1>4 DEF Idle
<1> QED
  BY <1>1, <1>2, <1>3, <1>4 DEF TypeOK, Pending

LEMMA CellsOfRam ==
  ASSUME NEW page \in Nat, page < RamPages, NEW c \in Cells
  PROVE  OamSize * page + c \in 0 .. RamSize - 1
<1>1. /\ OamSize \in Nat \ {0} /\ RamPages \in Nat /\ c \in Nat /\ c < OamSize
      /\ page + 1 <= RamPages
  BY OamAssumption
<1>2. OamSize * (page + 1) <= OamSize * RamPages
  BY <1>1
<1>3. OamSize * (page + 1) = OamSize * page + OamSize
  BY <1>1
<1>4. OamSize * page \in Nat /\ OamSize * RamPages \in Nat
  BY <1>1
<1> QED
  BY <1>1, <1>2, <1>3, <1>4 DEF RamSize

LEMMA LatestType ==
  ASSUME NEW s \in Seq(Bytes), Len(s) <= OamSize, NEW d \in Bytes
  PROVE  LET t == Latest(Append(s, d))
         IN  /\ t \in Seq(Bytes) /\ Len(t) <= OamSize /\ Len(t) > 0
             /\ t[Len(t)] = d
             /\ \A k \in 1 .. Len(t) - 1 : /\ k \in 1 .. Len(s)
                                            /\ t[Len(t) - k] = s[Len(s) - k + 1]
<1> DEFINE u == Append(s, d)
           n == Len(s)
           lo == IF n + 1 > OamSize THEN (n + 1) - OamSize + 1 ELSE 1
           t == Latest(u)
<1>1. /\ u \in Seq(Bytes) /\ Len(u) = n + 1 /\ u[n + 1] = d
      /\ \A i \in 1 .. n : u[i] = s[i]
  BY AppendProperties
<1>2. n \in Nat /\ OamSize \in Nat \ {0} /\ n <= OamSize
  BY OamAssumption
<1> HIDE DEF u
<1>3. t = SubSeq(u, lo, n + 1)
  BY <1>1 DEF Latest
<1>4. /\ lo \in Nat /\ lo >= 1 /\ lo <= n + 1 /\ (n + 1) - lo + 1 <= OamSize
      /\ lo \in Int /\ n + 1 \in Int
  BY <1>2
<1> HIDE DEF t, lo
<1>5. \A i \in lo .. n + 1 : u[i] \in Bytes
  <2>1. \A i \in lo .. n + 1 : i \in 1 .. Len(u)
    BY <1>1, <1>2, <1>4
  <2> QED
    BY <1>1, <2>1, ElementOfSeq
<1> HIDE DEF n
<1>6. /\ t \in Seq(Bytes) /\ Len(t) = (n + 1) - lo + 1
      /\ \A i \in 1 .. (n + 1) - lo + 1 : t[i] = u[lo + i - 1]
  BY <1>3, <1>4, <1>5, SubSeqProperties
<1>7. Len(t) > 0 /\ Len(t) <= OamSize /\ Len(t) \in Nat
  BY <1>2, <1>4, <1>6
<1>8. t[Len(t)] = d
  <2>1. lo + Len(t) - 1 = n + 1 /\ Len(t) \in 1 .. (n + 1) - lo + 1
    BY <1>2, <1>4, <1>6
  <2> QED
    BY <1>1, <1>6, <2>1
<1>9. ASSUME NEW k \in 1 .. Len(t) - 1
      PROVE  k \in 1 .. n /\ t[Len(t) - k] = s[n - k + 1]
  <2> DEFINE i == Len(t) - k
             j == n - k + 1
  <2>1. i \in 1 .. (n + 1) - lo + 1 /\ lo + i - 1 = j /\ j \in 1 .. n /\ k \in 1 .. n
    BY <1>2, <1>4, <1>6, <1>7
  <2> HIDE DEF i, j
  <2>2. t[i] = u[j] /\ u[j] = s[j]
    BY <1>1, <1>6, <2>1
  <2> QED
    BY <2>1, <2>2 DEF i, j
<1> QED
  BY <1>6, <1>7, <1>8, <1>9 DEF t, u, n

-----------------------------------------------------------------------------
(* One lemma per action.                                                    *)

LEMMA StoreReadKeeps ==
  ASSUME Ring, StoreRead, UNCHANGED stream
  PROVE  Ring'
<1>1. TypeOK'
  BY DEF Ring, StoreRead, TypeOK
<1>2. UNCHANGED <<oam, OAMADDR, stream>>
  BY DEF StoreRead
<1> QED
  BY <1>1, <1>2 DEF Ring, OamIsARing

LEMMA StoreRamKeeps ==
  ASSUME Ring, StoreRam, UNCHANGED stream
  PROVE  Ring'
<1>1. UNCHANGED <<oam, OAMADDR, bus, stream>>
  BY DEF StoreRam
<1>2. PICK page \in Pages, c \in Cells, d \in Stored :
        page < RamPages /\ ram' = [ram EXCEPT ![OamSize * page + c] = d]
  BY DEF StoreRam
<1>3. page \in Nat
  BY OamAssumption
<1>4. OamSize * page + c \in 0 .. RamSize - 1
  BY <1>2, <1>3, CellsOfRam
<1>5. ram' \in [0 .. RamSize - 1 -> Stored \cup {0}]
  BY <1>2, <1>4 DEF Ring, TypeOK
<1> QED
  BY <1>1, <1>5 DEF Ring, TypeOK, OamIsARing

LEMMA AddrKeeps ==
  ASSUME Ring, WriteOamAddr, stream' = <<>>
  PROVE  Ring'
<1>1. TypeOK'
  BY BusHolds DEF Ring, WriteOamAddr, TypeOK
<1>2. stream' \in Seq(Bytes) /\ Len(stream') = 0 /\ OamSize \in Nat
  BY EmptySeq, OamAssumption
<1>3. OamIsARing'
  BY <1>2 DEF OamIsARing
<1> QED
  BY <1>1, <1>2, <1>3 DEF Ring

LEMMA DataKeeps ==
  ASSUME Ring, WriteOamData, stream' = Latest(Append(stream, bus.data))
  PROVE  Ring'
<1>1. /\ bus.data \in Bytes /\ bus' = Idle /\ ram' = ram
      /\ oam' = [oam EXCEPT ![OAMADDR] = bus.data]
      /\ OAMADDR' = (OAMADDR + 1) % OamSize
  BY BusHolds DEF Ring, WriteOamData, Deliver
<1>2. /\ OAMADDR \in Cell /\ oam \in [Cell -> Bytes]
      /\ OamSize \in Nat \ {0} /\ stream \in Seq(Bytes)
      /\ Len(stream) \in Nat /\ Len(stream) <= OamSize
  BY OamAssumption DEF Ring, TypeOK, Bytes
<1>3. OAMADDR' \in Cell /\ (OAMADDR' + OamSize - 1) % OamSize = OAMADDR
  BY <1>1, <1>2, OneBehind
<1>4. /\ stream' \in Seq(Bytes) /\ Len(stream') <= OamSize
      /\ Len(stream') > 0 /\ Len(stream') \in Nat
      /\ stream'[Len(stream')] = bus.data
      /\ \A k \in 1 .. Len(stream') - 1 :
           /\ k \in 1 .. Len(stream)
           /\ stream'[Len(stream') - k] = stream[Len(stream) - k + 1]
  <2> DEFINE t == Latest(Append(stream, bus.data))
  <2>1. /\ t \in Seq(Bytes) /\ Len(t) <= OamSize /\ Len(t) > 0
        /\ t[Len(t)] = bus.data
        /\ \A k \in 1 .. Len(t) - 1 :
             /\ k \in 1 .. Len(stream)
             /\ t[Len(t) - k] = stream[Len(stream) - k + 1]
    BY <1>1, <1>2, LatestType
  <2>2. stream' = t
    OBVIOUS
  <2> HIDE DEF t
  <2>3. Len(t) \in Nat
    BY <2>1
  <2> QED
    BY <2>1, <2>2, <2>3
<1>5. oam' \in [Cell -> Bytes] /\ oam'[OAMADDR] = bus.data
      /\ \A c \in Cell \ {OAMADDR} : oam'[c] = oam[c]
  BY <1>1, <1>2
<1>6. ASSUME NEW j \in 1 .. Len(stream')
      PROVE  oam'[(OAMADDR' + OamSize - j) % OamSize] = stream'[Len(stream') - j + 1]
  <2>1. CASE j = 1
    <3>1. Len(stream') - j + 1 = Len(stream')
      BY <1>4, <2>1
    <3> QED
      BY <1>3, <1>4, <1>5, <2>1, <3>1
  <2>2. CASE j # 1
    <3> DEFINE k == j - 1
    <3>1. /\ k \in 1 .. Len(stream') - 1 /\ k \in 1 .. OamSize - 1 /\ j = k + 1
          /\ Len(stream') - j + 1 = Len(stream') - k
      BY <1>2, <1>4, <2>2
    <3> HIDE DEF k
    <3>2. /\ (OAMADDR' + OamSize - j) % OamSize = (OAMADDR + OamSize - k) % OamSize
          /\ (OAMADDR + OamSize - k) % OamSize \in Cell \ {OAMADDR}
      BY <1>1, <1>2, <3>1, Behind
    <3>3. oam[(OAMADDR + OamSize - k) % OamSize] = stream[Len(stream) - k + 1]
      BY <1>4, <3>1 DEF Ring, OamIsARing
    <3> QED
      BY <1>4, <1>5, <3>1, <3>2, <3>3
  <2> QED
    BY <2>1, <2>2
<1>7. TypeOK'
  BY <1>1, <1>3, <1>5 DEF Ring, TypeOK, Bytes
<1> QED
  BY <1>4, <1>6, <1>7 DEF Ring, OamIsARing

(* A copy is the page in order, from OAMADDR on.                            *)
LEMMA DmaRotates ==
  ASSUME TypeOK, WriteDma
  PROVE  /\ TypeOK' /\ OAMADDR' = OAMADDR /\ bus.data \in Nat
         /\ \A i \in Cell : oam'[(OAMADDR + i) % OamSize] = PageByte(bus.data, i)
<1>1. bus.data \in Nat
  BY BusHolds DEF WriteDma
<1>2. /\ oam' = Copied(bus.data).oam /\ OAMADDR' = Copied(bus.data).addr
      /\ bus' = Idle /\ ram' = ram
  BY DEF WriteDma
<1>3. /\ OAMADDR' = OAMADDR /\ oam' \in [Cell -> Bytes]
      /\ \A c \in Cell : oam'[c] = PageByte(bus.data, Offset(c))
  BY <1>1, <1>2, CopyPlaces
<1>4. OAMADDR \in Cell
  BY DEF TypeOK
<1>5. ASSUME NEW i \in Cell
      PROVE  oam'[(OAMADDR + i) % OamSize] = PageByte(bus.data, i)
  <2>1. (OAMADDR + i) % OamSize \in Cell /\ Offset((OAMADDR + i) % OamSize) = i
    BY <1>4, Offsets
  <2> QED
    BY <1>3, <2>1
<1>6. TypeOK'
  BY <1>2, <1>3 DEF TypeOK, Bytes
<1> QED
  BY <1>1, <1>3, <1>5, <1>6

LEMMA DmaKeeps ==
  ASSUME Ring, WriteDma, stream' = [i \in 1 .. OamSize |-> PageByte(bus.data, i - 1)]
  PROVE  Ring'
<1>1. /\ TypeOK' /\ OAMADDR' = OAMADDR /\ bus.data \in Nat
      /\ \A i \in Cell : oam'[(OAMADDR + i) % OamSize] = PageByte(bus.data, i)
  BY DmaRotates DEF Ring
<1>2. /\ OAMADDR \in Nat /\ OAMADDR < OamSize /\ OamSize \in Nat \ {0}
      /\ ram \in [0 .. RamSize - 1 -> Bytes]
  BY OamAssumption DEF Ring, TypeOK, Cell, Bytes
<1>3. \A i \in 1 .. OamSize : PageByte(bus.data, i - 1) \in Bytes
  BY <1>1, <1>2, PageByteType
<1>4. stream' \in Seq(Bytes) /\ Len(stream') = OamSize
  <2> DEFINE f == [i \in 1 .. OamSize |-> PageByte(bus.data, i - 1)]
  <2>1. f \in [1 .. OamSize -> Bytes]
    BY <1>3
  <2> HIDE DEF f
  <2>2. f \in Seq(Bytes) /\ Len(f) = OamSize
    BY <1>2, <2>1
  <2> QED
    BY <2>2 DEF f
<1>5. ASSUME NEW k \in 1 .. OamSize
      PROVE  oam'[(OAMADDR' + OamSize - k) % OamSize] = stream'[OamSize - k + 1]
  <2> DEFINE i == OamSize - k
  <2>1. /\ i \in Cell /\ OAMADDR + OamSize - k = OAMADDR + i
        /\ OamSize - k + 1 = i + 1 /\ i + 1 \in 1 .. OamSize /\ (i + 1) - 1 = i
    BY <1>2 DEF Cell
  <2> HIDE DEF i
  <2>2. stream'[i + 1] = PageByte(bus.data, i)
    BY <2>1
  <2> QED
    BY <1>1, <2>1, <2>2
<1>6. OamIsARing'
  BY <1>4, <1>5 DEF OamIsARing
<1> QED
  BY <1>1, <1>2, <1>4, <1>6 DEF Ring

-----------------------------------------------------------------------------
LEMMA RingInvariance == HSpec => []Ring
<1>1. HInit => Ring
  <2> SUFFICES ASSUME HInit PROVE Ring
    OBVIOUS
  <2>1. OamSize \in Nat \ {0}
    BY OamAssumption
  <2>2. TypeOK
    BY <2>1 DEF HInit, Init, TypeOK, Cell
  <2>3. stream \in Seq(Bytes) /\ Len(stream) = 0
    BY EmptySeq DEF HInit
  <2> QED
    BY <2>1, <2>2, <2>3 DEF Ring, OamIsARing
<1>2. Ring /\ [HNext]_historyVars => Ring'
  <2> SUFFICES ASSUME Ring, [HNext]_historyVars PROVE Ring'
    OBVIOUS
  <2>1. CASE UNCHANGED historyVars
    BY <2>1 DEF historyVars, vars, Ring, TypeOK, OamIsARing
  <2> QED
    BY <2>1, StoreReadKeeps, StoreRamKeeps, AddrKeeps, DataKeeps, DmaKeeps DEF HNext
<1> QED
  BY <1>1, <1>2, PTL DEF HSpec

(* SpriteMemory's type invariant.                                           *)
THEOREM TypeCorrect == HSpec => []TypeOK
<1>1. Ring => TypeOK
  BY DEF Ring
<1> QED
  BY <1>1, RingInvariance, PTL

(* The cells before OAMADDR always hold the bytes last delivered, newest    *)
(* first, for every size of sprite memory and every mixture of stores to    *)
(* $2003, $2004 and $4014.                                                  *)
THEOREM OamStaysARing == HSpec => []OamIsARing
<1>1. Ring => OamIsARing
  BY DEF Ring
<1> QED
  BY <1>1, RingInvariance, PTL

(* Every copy through $4014 rotates its page by OAMADDR, leaves no cell of  *)
(* the old contents and OAMADDR where it was, whatever page is asked for.   *)
THEOREM CopiesRotate == HSpec => CopyRotates
<1> DEFINE Rotates ==
      bus.reg = "dma" /\ bus' = Idle
        => /\ OAMADDR' = OAMADDR
           /\ \A i \in Cell :
                oam'[(OAMADDR + i) % OamSize] = PageByte(bus.data, i)
<1>1. Ring /\ [HNext]_historyVars => [Rotates]_vars
  <2> SUFFICES ASSUME Ring, [HNext]_historyVars, bus.reg = "dma", bus' = Idle
               PROVE  /\ OAMADDR' = OAMADDR
                      /\ \A i \in Cell :
                           oam'[(OAMADDR + i) % OamSize] = PageByte(bus.data, i)
    OBVIOUS
  <2>1. bus # Idle
    BY DEF Idle
  <2>2. WriteDma
    BY <2>1 DEF HNext, historyVars, vars, StoreRead, StoreRam, WriteOamAddr, WriteOamData
  <2> QED
    BY <2>2, DmaRotates DEF Ring
<1>2. CopyRotates <=> [][Rotates]_vars
  BY PTL DEF CopyRotates
<1> QED
  BY <1>1, <1>2, RingInvariance, PTL DEF HSpec

-----------------------------------------------------------------------------
(* The controller port                                                      *)

USE PadAssumption, SoundAssumption DEF Button, Slot, Past

(* The inductive invariant.  Where the shift position stands follows from   *)
(* the program's place: the loads of a poll leave it at the last button,    *)
(* the read of the first store moves it past, and from there on no read     *)
(* moves it, so that the strobe alone decides where the loads begin.        *)
Position ==
  /\ Len(bits) \in 0 .. Buttons
  /\ pc = "load" => Len(bits) < Buttons /\ p = IF spoiled THEN Past ELSE Len(bits)
  /\ pc = "read1" => p \in {Buttons, Past}
  /\ pc \in {"write1", "read0", "write0"} => p = Past

(* The last byte before the second store is odd unless a sound byte came.   *)
Strobed ==
  pc \in {"read0", "write0"} => prev_write = IF spoiled THEN 0 ELSE 1

(* What the loads have answered for a button is what psg_read counts.       *)
Tallied ==
  \A b \in Button : /\ reports[b] = count[b]
                    /\ b \notin key => count[b] = 0

Inv ==
  /\ PadTypeOK
  /\ pc \in Access
  /\ bits \in Seq({0, 1})
  /\ spoiled \in BOOLEAN
  /\ reports \in [Button -> Nat]
  /\ Position
  /\ Strobed
  /\ Tallied

-----------------------------------------------------------------------------
(* One lemma per access.                                                    *)

(* The read of psg_read looks at no latched slot beyond the last button.    *)
LEMMA ReadBeyond ==
  ASSUME PadTypeOK, p \in {Buttons, Past}, Read
  PROVE  p' = Past /\ key' = key /\ count' = count /\ prev_write' = prev_write
<1>1. ~Latched
  BY DEF PadTypeOK, Latched
<1> QED
  BY <1>1 DEF Read, PadTypeOK

LEMMA ReadBeforeStoreKeeps ==
  ASSUME Inv, ReadBeforeStore
  PROVE  Inv'
<1>1. p \in {Buttons, Past} /\ PadTypeOK
  BY DEF Inv, Position, ReadBeforeStore
<1>2. p' = Past /\ key' = key /\ count' = count /\ prev_write' = prev_write
  BY <1>1, ReadBeyond DEF ReadBeforeStore
<1>3. PadTypeOK'
  BY <1>1, <1>2 DEF PadTypeOK
<1>4. reports' = reports
  <2>1. \A b \in Button : b \notin key => reports[b] = 0
    BY DEF Inv, Tallied
  <2>2. reports' = [b \in Button |-> IF b \in key THEN reports[b] ELSE 0]
    BY <1>2 DEF ReadBeforeStore
  <2>3. reports = [b \in Button |-> reports[b]]
    BY DEF Inv
  <2> QED
    BY <2>1, <2>2, <2>3
<1>5. Tallied'
  BY <1>2, <1>4 DEF Inv, Tallied
<1>6. Position' /\ Strobed' /\ pc' \in Access
  BY <1>2 DEF ReadBeforeStore, Inv, Position, Strobed, Access
<1> QED
  BY <1>3, <1>4, <1>5, <1>6 DEF Inv, ReadBeforeStore

LEMMA StrobeKeeps ==
  ASSUME Inv, StrobeOn \/ StrobeOff
  PROVE  Inv'
<1>1. CASE StrobeOn
  <2>1. p' = p /\ prev_write' = 1 /\ key' = key /\ count' = count
    BY <1>1 DEF StrobeOn, WritePad
  <2>2. PadTypeOK' /\ Tallied'
    BY <1>1, <2>1 DEF StrobeOn, Inv, PadTypeOK, Tallied
  <2>3. Position' /\ Strobed'
    BY <1>1, <2>1 DEF StrobeOn, Inv, Position, Strobed
  <2> QED
    BY <1>1, <2>2, <2>3 DEF StrobeOn, Inv, Access
<1>2. CASE StrobeOff
  <2>1. /\ p' = IF prev_write = 1 THEN 0 ELSE p
        /\ prev_write' = 0 /\ key' = key /\ count' = count
    BY <1>2 DEF StrobeOff, WritePad
  <2>2. PadTypeOK' /\ Tallied'
    BY <1>2, <2>1 DEF StrobeOff, Inv, PadTypeOK, Tallied
  <2>3. bits' = <<>> /\ Len(bits') = 0 /\ bits' \in Seq({0, 1})
    BY <1>2 DEF StrobeOff
  <2>4. p' = IF spoiled THEN Past ELSE 0
    BY <1>2, <2>1 DEF StrobeOff, Inv, Position, Strobed
  <2>5. Position' /\ Strobed'
    BY <1>2, <2>3, <2>4 DEF StrobeOff, Position, Strobed
  <2> QED
    BY <1>2, <2>2, <2>3, <2>5 DEF StrobeOff, Inv, Access
<1> QED
  BY <1>1, <1>2

(* What a load of the poll answers, and for which button.                   *)
LEMMA LoadAnswers ==
  ASSUME Inv, Load
  PROVE  /\ Len(bits) \in Nat /\ Len(bits) + 1 \in Button
         /\ bits' \in Seq({0, 1}) /\ Len(bits') = Len(bits) + 1
         /\ bits'[Len(bits')] = Answer
         /\ Latched <=> ~spoiled /\ Len(bits) + 1 \in key
         /\ Latched => p + 1 = Len(bits) + 1
         /\ p' = IF spoiled THEN Past ELSE Len(bits')
<1>1. /\ Len(bits) \in Nat /\ Len(bits) < Buttons /\ bits \in Seq({0, 1})
      /\ p = IF spoiled THEN Past ELSE Len(bits)
  BY DEF Inv, Position, Load
<1>2. Answer \in {0, 1} /\ bits' = Append(bits, Answer)
  BY DEF Answer, Load
<1>3. /\ bits' \in Seq({0, 1}) /\ Len(bits') = Len(bits) + 1
      /\ bits'[Len(bits) + 1] = Answer
  BY <1>1, <1>2
<1>4. p' = IF spoiled THEN Past ELSE Len(bits')
  BY <1>1, <1>3 DEF Load, Read
<1> QED
  BY <1>1, <1>3, <1>4 DEF Latched

LEMMA LoadKeeps ==
  ASSUME Inv, Load
  PROVE  Inv'
<1> DEFINE s == Len(bits) + 1
<1>1. /\ s \in Button /\ s \in Slot /\ s # Past
      /\ Latched => p + 1 = s /\ s \in key
      /\ ~Latched => Answer = 0
  BY LoadAnswers DEF Answer
<1>2. PadTypeOK
  BY DEF Inv
<1>3. PadTypeOK' /\ key' \subseteq key
  <2>1. p' \in 0 .. Past /\ prev_write' = prev_write
    BY <1>2 DEF Load, Read, PadTypeOK
  <2>2. CASE ~Latched
    BY <1>2, <2>1, <2>2 DEF Load, Read, PadTypeOK
  <2>3. CASE Latched /\ count[p + 1] < Lasting
    <3>1. key' = key /\ count' = [count EXCEPT ![s] = count[s] + 1] /\ count[s] < Lasting
      BY <1>1, <2>3 DEF Load, Read
    <3>2. count[s] + 1 \in 0 .. Lasting
      BY <1>1, <1>2, <3>1 DEF PadTypeOK
    <3>3. count' \in [Slot -> 0 .. Lasting]
      BY <1>1, <1>2, <3>1, <3>2 DEF PadTypeOK
    <3> QED
      BY <1>2, <2>1, <3>1, <3>3 DEF PadTypeOK
  <2>4. CASE Latched /\ ~(count[p + 1] < Lasting)
    <3>1. key' = key \ {s} /\ count' = [count EXCEPT ![s] = 0]
      BY <1>1, <2>4 DEF Load, Read
    <3>2. count' \in [Slot -> 0 .. Lasting]
      BY <1>1, <1>2, <3>1, 0 \in 0 .. Lasting DEF PadTypeOK
    <3>3. key' \subseteq key
      BY <3>1
    <3> QED
      BY <1>2, <2>1, <3>2, <3>3 DEF PadTypeOK
  <2> QED
    BY <2>2, <2>3, <2>4
<1>4. \A b \in Button : /\ reports'[b] = IF b \notin key' THEN 0
                                         ELSE IF b = s THEN reports[b] + Answer
                                         ELSE reports[b]
  BY DEF Load
<1>5. Answer \in {0, 1} /\ reports' \in [Button -> Nat]
  <2>1. Answer \in {0, 1}
    BY DEF Answer
  <2>2. \A b \in Button : reports[b] \in Nat
    BY DEF Inv
  <2>3. reports' = [b \in Button |-> IF b \notin key' THEN 0
                                     ELSE IF b = s THEN reports[b] + Answer
                                     ELSE reports[b]]
    BY DEF Load
  <2> QED
    BY <2>1, <2>2, <2>3
<1>6. Tallied'
  <2> SUFFICES ASSUME NEW b \in Button
               PROVE  reports'[b] = count'[b] /\ (b \notin key' => count'[b] = 0)
    BY DEF Tallied
  <2>1. reports[b] = count[b] /\ (b \notin key => count[b] = 0) /\ count[b] \in Nat
    BY <1>2 DEF Inv, Tallied, PadTypeOK
  <2>2. CASE ~Latched
    BY <1>1, <1>4, <2>1, <2>2 DEF Load, Read
  <2>3. CASE Latched /\ count[p + 1] < Lasting
    <3>1. key' = key /\ count' = [count EXCEPT ![s] = @ + 1] /\ Answer = 1
      BY <1>1, <2>3 DEF Load, Read, Answer
    <3> QED
      BY <1>1, <1>2, <1>4, <2>1, <2>3, <3>1 DEF PadTypeOK
  <2>4. CASE Latched /\ ~(count[p + 1] < Lasting)
    <3>1. key' = key \ {s} /\ count' = [count EXCEPT ![s] = 0] /\ Answer = 0
      BY <1>1, <2>4 DEF Load, Read, Answer
    <3> QED
      BY <1>1, <1>2, <1>4, <2>1, <2>4, <3>1 DEF PadTypeOK
  <2> QED
    BY <2>2, <2>3, <2>4
<1>7. /\ bits' \in Seq({0, 1}) /\ Len(bits') = Len(bits) + 1 /\ Len(bits) \in Nat
      /\ p' = IF spoiled THEN Past ELSE Len(bits')
  BY LoadAnswers
<1>8. pc' = IF Len(bits') = Buttons THEN "read1" ELSE "load"
  BY DEF Load
<1>9. Position' /\ Strobed'
  <2>1. spoiled' = spoiled
    BY DEF Load
  <2>2. CASE Len(bits') = Buttons
    BY <1>7, <1>8, <2>1, <2>2 DEF Position, Strobed
  <2>3. CASE Len(bits') # Buttons
    BY <1>1, <1>7, <1>8, <2>1, <2>3 DEF Position, Strobed
  <2> QED
    BY <2>2, <2>3
<1> QED
  BY <1>3, <1>5, <1>6, <1>7, <1>8, <1>9 DEF Inv, Load, Access

(* The keyboard's callback and the sound driver touch neither the position  *)
(* nor a count.                                                             *)
LEMMA OthersKeep ==
  ASSUME Inv, Keyboard \/ Sound \/ UNCHANGED pollVars
  PROVE  Inv'
<1>1. CASE Keyboard
  <2>1. PICK b \in Button : Press(b)
    BY <1>1 DEF Keyboard
  <2>2. PadTypeOK' /\ Tallied'
    BY <1>1, <2>1 DEF Keyboard, Press, Inv, PadTypeOK, Tallied
  <2>3. Position' /\ Strobed'
    BY <1>1, <2>1 DEF Keyboard, Press, Inv, Position, Strobed
  <2> QED
    BY <1>1, <2>2, <2>3 DEF Keyboard, Inv
<1>2. CASE Sound
  <2>1. PICK d \in SoundData :
          /\ WriteSound(d)
          /\ spoiled' = IF pc \in {"read0", "write0"} THEN d % 2 = 0 ELSE spoiled
    BY <1>2 DEF Sound
  <2>2. prev_write' = d % 2 /\ prev_write' \in {0, 1}
    BY <2>1 DEF WriteSound
  <2>6. spoiled' \in BOOLEAN
    <3>1. (d % 2 = 0) \in BOOLEAN /\ spoiled \in BOOLEAN
      BY Zenon DEF Inv
    <3> QED
      BY <2>1, <3>1, Zenon
  <2>3. PadTypeOK' /\ Tallied'
    BY <1>2, <2>1, <2>2 DEF Sound, WriteSound, Inv, PadTypeOK, Tallied
  <2>4. Strobed'
    BY <1>2, <2>1, <2>2 DEF Sound, Strobed
  <2>5. Position'
    BY <1>2, <2>1 DEF Sound, WriteSound, Inv, Position
  <2> QED
    BY <1>2, <2>2, <2>3, <2>4, <2>5, <2>6 DEF Sound, Inv
<1>3. CASE UNCHANGED pollVars
  BY <1>3 DEF pollVars, padVars, Inv, PadTypeOK, Position, Strobed, Tallied
<1> QED
  BY <1>1, <1>2, <1>3

LEMMA Invariance == PollSpec => []Inv
<1>1. PollInit => Inv
  <2> SUFFICES ASSUME PollInit PROVE Inv
    OBVIOUS
  <2>1. PadTypeOK
    BY DEF PollInit, PadInit, PadTypeOK
  <2>2. Position /\ Strobed
    BY DEF PollInit, PadInit, Position, Strobed
  <2>3. Tallied /\ reports \in [Button -> Nat]
    BY DEF PollInit, PadInit, Tallied
  <2>4. pc \in Access /\ bits \in Seq({0, 1})
    BY DEF PollInit, Access
  <2>5. spoiled \in BOOLEAN
    BY Zenon DEF PollInit
  <2> QED
    BY <2>1, <2>2, <2>3, <2>4, <2>5 DEF Inv
<1>2. Inv /\ [PollNext]_pollVars => Inv'
  BY ReadBeforeStoreKeeps, StrobeKeeps, LoadKeeps, OthersKeep DEF PollNext, Program
<1> QED
  BY <1>1, <1>2, PTL DEF PollSpec

-----------------------------------------------------------------------------
(* The controller port keeps its types under every program that polls it:   *)
(* in particular no button is ever reported more often than Lasting times.  *)
THEOREM PollTypeCorrect == PollSpec => []PollTypeOK
<1>1. Inv => PollTypeOK
  <2> SUFFICES ASSUME Inv PROVE PollTypeOK
    OBVIOUS
  <2>1. bits \in [1 .. Len(bits) -> {0, 1}] /\ Len(bits) \in 0 .. Buttons
    BY LenProperties DEF Inv, Position
  <2>2. bits \in UNION {[1 .. n -> {0, 1}] : n \in 0 .. Buttons}
    BY <2>1
  <2>3. reports \in [Button -> 0 .. Lasting]
    BY DEF Inv, Tallied, PadTypeOK
  <2> QED
    BY <2>2, <2>3 DEF Inv, PollTypeOK
<1> QED
  BY <1>1, Invariance, PTL

(* Every load of a poll looks at its own button, or, after a spoiled strobe *)
(* (psg_write), at none: whatever the sound driver and the extra reads of   *)
(* the stores do between them.                                              *)
THEOREM Aligned == PollSpec => []PollAligned
<1>1. Inv => PollAligned
  BY DEF Inv, Position, PollAligned
<1> QED
  BY <1>1, Invariance, PTL

(* What a step means for a poll's answers and for the latched buttons.      *)
LEMMA OnlyLoads ==
  ASSUME Inv, [PollNext]_pollVars
  PROVE  /\ bits' # bits /\ bits' # <<>> => Load
         /\ ~(key \subseteq key') => Load
<1>1. CASE ReadBeforeStore
  <2>1. p \in {Buttons, Past} /\ PadTypeOK
    BY <1>1 DEF Inv, Position, ReadBeforeStore
  <2> QED
    BY <1>1, <2>1, ReadBeyond DEF ReadBeforeStore
<1>2. CASE StrobeOn \/ StrobeOff
  BY <1>2 DEF StrobeOn, StrobeOff, WritePad
<1>3. CASE Keyboard \/ Sound \/ UNCHANGED pollVars
  BY <1>3 DEF Keyboard, Press, Sound, WriteSound, pollVars, padVars
<1> QED
  BY <1>1, <1>2, <1>3 DEF PollNext, Program

(* A poll reports a button only if that button is latched (psg_read), in    *)
(* every interleaving of the program, the sound driver and the keyboard.    *)
THEOREM NoPhantom == PollSpec => NoPhantomButton
<1>1. Inv /\ [PollNext]_pollVars
      => \A b \in Button :
           (bits' # bits /\ Len(bits') = b /\ bits'[b] = 1) => b \in key
  <2> SUFFICES ASSUME Inv, [PollNext]_pollVars, NEW b \in Button,
                      bits' # bits, Len(bits') = b, bits'[b] = 1
               PROVE  b \in key
    OBVIOUS
  <2>1. bits' # <<>>
    OBVIOUS
  <2>2. Load
    BY <2>1, OnlyLoads
  <2>3. Answer = 1 /\ b = Len(bits) + 1
    BY <2>2, LoadAnswers
  <2>4. Latched
    BY <2>3 DEF Answer
  <2> QED
    BY <2>2, <2>3, <2>4, LoadAnswers
<1> QED
  BY <1>1, Invariance, PTL DEF PollSpec, NoPhantomButton

(* Each press is reported exactly Lasting times before it is forgotten: no  *)
(* report is lost to the read that comes with a store, none is repeated.    *)
THEOREM InFull == PollSpec => ReportedInFull
<1>1. Inv /\ [PollNext]_pollVars
      => \A b \in Button : (b \in key /\ b \notin key') => reports[b] = Lasting
  <2> SUFFICES ASSUME Inv, [PollNext]_pollVars, NEW b \in Button, b \in key, b \notin key'
               PROVE  reports[b] = Lasting
    OBVIOUS
  <2>1. Load
    BY OnlyLoads
  <2>2. /\ b = p + 1 /\ ~(count[p + 1] < Lasting)
    BY <2>1 DEF Load, Read
  <2>3. count[b] \in 0 .. Lasting /\ reports[b] = count[b]
    BY DEF Inv, Tallied, PadTypeOK
  <2> QED
    BY <2>2, <2>3
<1> QED
  BY <1>1, Invariance, PTL DEF PollSpec, ReportedInFull

=============================================================================
