---------------------------- MODULE Stack6502Proofs ----------------------------
(***************************************************************************)
(* For every size of the stack page, every program address and every       *)
(* interrupt vector: while a program is sound, the frames it and the       *)
(* interrupts have on the stack stay whole, each return restores what its  *)
(* push saved, and no cell outside the page is touched.                    *)
(***************************************************************************)
EXTENDS Stack6502History, SequenceTheorems, TLAPS

-----------------------------------------------------------------------------
(* The status byte: packing and unpacking are inverse to each other, which  *)
(* helper.c and translate.c rely on when one packs what the other unpacks.  *)

(* A number is a multiple of another and a remainder.                       *)
LEMMA BlockOf ==
  ASSUME NEW b \in Nat \ {0}, NEW k \in Nat, NEW a \in Nat,
         k * b <= a, a < (k + 1) * b
  PROVE  a \div b = k
OBVIOUS

LEMMA BitAt ==
  ASSUME NEW w \in Nat \ {0}, NEW lo \in 0 .. w - 1, NEW bit \in {0, 1},
         NEW hi \in Nat
  PROVE  ((lo + w * (bit + 2 * hi)) \div w) % 2 = bit
<1> DEFINE k == bit + 2 * hi
           y == lo + w * k
<1>1. k \in Nat /\ k % 2 = bit
  OBVIOUS
<1> HIDE DEF k
<1>2. w * k \in Nat /\ k * w = w * k /\ (k + 1) * w = w * k + w
  BY <1>1
<1>3. y \in Nat /\ k * w <= y /\ y < (k + 1) * w
  BY <1>2
<1> HIDE DEF y
<1>4. y \div w = k
  BY <1>1, <1>3, BlockOf
<1> QED
  BY <1>1, <1>4 DEF y, k

LEMMA UnpackType ==
  ASSUME NEW y \in Byte
  PROVE  Unpack(y) \in Flags
BY DEF Unpack, Bit, Flags, Byte, PageBytes

LEMMA PackType ==
  ASSUME NEW f \in Flags
  PROVE  Pack(f) \in Byte
BY DEF Pack, Flags, Byte, PageBytes

LEMMA UnpackPack ==
  ASSUME NEW f \in Flags
  PROVE  Unpack(Pack(f)) = f
<1> DEFINE c == f.c
           z == f.z
           i == f.i
           d == f.d
           b == f.b
           u == f.u
           v == f.v
           n == f.n
           y == Pack(f)
<1>1. /\ c \in 0 .. 1 /\ z \in 0 .. 1 /\ i \in 0 .. 1 /\ d \in 0 .. 1
      /\ b \in 0 .. 1 /\ u \in 0 .. 1 /\ v \in 0 .. 1 /\ n \in 0 .. 1
  BY DEF Flags
<1>2. y = c + 2 * z + 4 * i + 8 * d + 16 * b + 32 * u + 64 * v + 128 * n
  BY DEF Pack
<1> HIDE DEF c, z, i, d, b, u, v, n, y
<1>3. PICK h6 \in Nat : h6 = v + 2 * n
  BY <1>1
<1>4. PICK h5 \in Nat : h5 = u + 2 * h6
  BY <1>1
<1>5. PICK h4 \in Nat : h4 = b + 2 * h5
  BY <1>1
<1>6. PICK h3 \in Nat : h3 = d + 2 * h4
  BY <1>1
<1>7. PICK h2 \in Nat : h2 = i + 2 * h3
  BY <1>1
<1>8. PICK h1 \in Nat : h1 = z + 2 * h2
  BY <1>1
<1>9. /\ c + 2 * z \in 0 .. 3
      /\ c + 2 * z + 4 * i \in 0 .. 7
      /\ c + 2 * z + 4 * i + 8 * d \in 0 .. 15
      /\ c + 2 * z + 4 * i + 8 * d + 16 * b \in 0 .. 31
      /\ c + 2 * z + 4 * i + 8 * d + 16 * b + 32 * u \in 0 .. 63
      /\ c + 2 * z + 4 * i + 8 * d + 16 * b + 32 * u + 64 * v \in 0 .. 127
  BY <1>1
<1>10. /\ y = 0 + 1 * (c + 2 * h1)
      /\ y = c + 2 * (z + 2 * h2)
      /\ y = (c + 2 * z) + 4 * (i + 2 * h3)
      /\ y = (c + 2 * z + 4 * i) + 8 * (d + 2 * h4)
      /\ y = (c + 2 * z + 4 * i + 8 * d) + 16 * (b + 2 * h5)
      /\ y = (c + 2 * z + 4 * i + 8 * d + 16 * b) + 32 * (u + 2 * h6)
      /\ y = (c + 2 * z + 4 * i + 8 * d + 16 * b + 32 * u) + 64 * (v + 2 * n)
      /\ y = (c + 2 * z + 4 * i + 8 * d + 16 * b + 32 * u + 64 * v) + 128 * (n + 2 * 0)
  BY <1>1, <1>2, <1>3, <1>4, <1>5, <1>6, <1>7, <1>8
<1>11. /\ c \in {0, 1} /\ z \in {0, 1} /\ i \in {0, 1} /\ d \in {0, 1}
       /\ b \in {0, 1} /\ u \in {0, 1} /\ v \in {0, 1} /\ n \in {0, 1} /\ n \in Nat
  BY <1>1
<1>12. (y \div 1) % 2 = c /\ (y \div 2) % 2 = z
  BY <1>10, <1>11, BitAt
<1>13. (y \div 4) % 2 = i
  BY <1>9, <1>10, <1>11, BitAt
<1>14. (y \div 8) % 2 = d
  BY <1>9, <1>10, <1>11, BitAt
<1>15. (y \div 16) % 2 = b
  BY <1>9, <1>10, <1>11, BitAt
<1>16. (y \div 32) % 2 = u
  BY <1>9, <1>10, <1>11, BitAt
<1>17. (y \div 64) % 2 = v
  BY <1>9, <1>10, <1>11, BitAt
<1>18. (y \div 128) % 2 = n
  BY <1>9, <1>10, <1>11, BitAt
<1>19. Unpack(y) = [c |-> c, z |-> z, i |-> i, d |-> d, b |-> b, u |-> u, v |-> v, n |-> n]
  BY <1>12, <1>13, <1>14, <1>15, <1>16, <1>17, <1>18 DEF Unpack, Bit
<1>20. f = [c |-> c, z |-> z, i |-> i, d |-> d, b |-> b, u |-> u, v |-> v, n |-> n]
  BY DEF Flags, c, z, i, d, b, u, v, n
<1> QED
  BY <1>19, <1>20 DEF y

LEMMA PackUnpack ==
  ASSUME NEW y \in Byte
  PROVE  Pack(Unpack(y)) = y
BY DEF Pack, Unpack, Bit, Byte, PageBytes

(* Setting and clearing the bit of a flag in the byte is setting and        *)
(* clearing the flag.                                                       *)
LEMMA WithBits ==
  ASSUME NEW y \in Byte
  PROVE  /\ WithBit(y, 16) = Pack([Unpack(y) EXCEPT !.b = 1])
         /\ WithBit(y, 32) = Pack([Unpack(y) EXCEPT !.u = 1])
         /\ SansBit(y, 16) = Pack([Unpack(y) EXCEPT !.b = 0])
<1> DEFINE f == Unpack(y)
<1>1. /\ f \in Flags /\ Pack(f) = y
  BY UnpackType, PackUnpack
<1>2. f.b = Bit(y, 16) /\ f.u = Bit(y, 32)
  BY DEF Unpack
<1>3. Bit(y, 16) \in {0, 1} /\ Bit(y, 32) \in {0, 1} /\ y \in Nat
  BY DEF Bit, Byte, PageBytes
<1> HIDE DEF f
<1>4. /\ Pack([f EXCEPT !.b = 1]) = Pack(f) + 16 * (1 - f.b)
      /\ Pack([f EXCEPT !.u = 1]) = Pack(f) + 32 * (1 - f.u)
      /\ Pack([f EXCEPT !.b = 0]) = Pack(f) - 16 * f.b
  BY <1>1 DEF Pack, Flags
<1> QED
  BY <1>1, <1>2, <1>3, <1>4 DEF WithBit, SansBit, f

LEMMA WithBitsType ==
  ASSUME NEW y \in Byte
  PROVE  /\ WithBit(y, 16) \in Byte
         /\ WithBit(y, 32) \in Byte
         /\ SansBit(y, 16) \in Byte
<1>1. \A f \in Flags : /\ [f EXCEPT !.b = 1] \in Flags
                       /\ [f EXCEPT !.u = 1] \in Flags
                       /\ [f EXCEPT !.b = 0] \in Flags
  BY DEF Flags
<1> QED
  BY <1>1, UnpackType, PackType, WithBits

(* A word is its two bytes.                                                 *)
LEMMA WordOfBytes ==
  ASSUME NEW w \in 0 .. WordSize - 1
  PROVE  /\ w % PageBytes \in Byte
         /\ (w \div PageBytes) % PageBytes \in Byte
         /\ (w % PageBytes) + PageBytes * ((w \div PageBytes) % PageBytes) = w
<1>1. w \in Nat /\ w < 256 * 256
  BY DEF WordSize, PageBytes
<1>2. PICK h \in Nat, l \in 0 .. 255 : w = 256 * h + l
  BY <1>1, w \div 256 \in Nat, w % 256 \in 0 .. 255, w = 256 * (w \div 256) + (w % 256)
<1>3. h \in 0 .. 255
  BY <1>1, <1>2
<1>4. w \div 256 = h /\ h % 256 = h
  BY <1>1, <1>2, <1>3, BlockOf
<1>5. w % 256 = l
  BY <1>1, <1>2, <1>4, w = 256 * (w \div 256) + (w % 256), w % 256 \in 0 .. 255
<1> QED
  BY <1>2, <1>3, <1>4, <1>5 DEF Byte, PageBytes

-----------------------------------------------------------------------------
(* Sums the code masks and sums it does not: in the stack page, far enough  *)
(* from its ends, they agree.                                               *)

LEMMA SmallModulus ==
  ASSUME NEW n \in Nat \ {0}, NEW x \in 0 .. n - 1
  PROVE  x % n = x /\ (x + n) % n = x
<1>1. x \div n = 0 /\ (x + n) \div n = 1
  OBVIOUS
<1>2. x = (x \div n) * n + (x % n) /\ x % n \in Nat
  OBVIOUS
<1>3. x + n = ((x + n) \div n) * n + ((x + n) % n) /\ (x + n) % n \in Nat
  OBVIOUS
<1> QED
  BY <1>1, <1>2, <1>3

LEMMA StackSums ==
  ASSUME NEW s \in 0 .. StackSize - 1
  PROVE  /\ (s + StackSize) % MemSize = s + StackSize
         /\ (s + 1 + StackSize) % MemSize = s + 1 + StackSize
         /\ \A n \in 1 .. 2 : n <= s => Down(s, n) = s - n
         /\ s + 2 < StackSize => UpWord(s) = s + 2
<1>1. StackSize \in Nat /\ StackSize > 3 /\ MemSize \in Nat \ {0} /\ MemSize = 8 * StackSize
  BY StackAssumption DEF MemSize
<1>2. s + StackSize \in 0 .. MemSize - 1 /\ s + 1 + StackSize \in 0 .. MemSize - 1
  BY <1>1
<1>3. ASSUME NEW n \in 1 .. 2, n <= s PROVE Down(s, n) = s - n
  <2>1. s + StackSize - n = (s - n) + StackSize /\ s - n \in 0 .. StackSize - 1
    BY <1>1, <1>3
  <2> QED
    BY <1>1, <2>1, SmallModulus DEF Down
<1>4. ASSUME s + 2 < StackSize PROVE UpWord(s) = s + 2
  <2>1. s + 2 \in 0 .. StackSize - 1
    BY <1>1, <1>4
  <2> QED
    BY <1>1, <2>1, SmallModulus DEF UpWord
<1> QED
  BY <1>1, <1>2, <1>3, <1>4, SmallModulus

-----------------------------------------------------------------------------
(* The inductive invariant.                                                 *)

(* Where the pointer starts, and the highest a frame's push may begin.      *)
Ceiling == StackSize - 3

FrameSet ==
  [kind : {"data", "status"}, size : {1}, at : 0 .. Ceiling, value : Byte]
    \cup [kind : {"call"}, size : {2}, at : 0 .. Ceiling, value : 0 .. WordSize - 1]
    \cup [kind : {"nmi"}, size : {3}, at : 0 .. Ceiling,
          value : [pc : 0 .. WordSize - 1, flags : Flags]]

(* Frames touch: each begins where the next one ends.                       *)
Contiguous ==
  \A i \in 1 .. Len(frames) :
    frames[i].at = (IF i = Len(frames) THEN stack_point ELSE frames[i + 1].at)
                     + frames[i].size

(* FramesIntact's chain of frames says it of neighbours; for a push to      *)
(* spare the frames above, and for a pull to uncover the one below, it has  *)
(* to hold of any two frames, and of each and the pointer.                  *)
Above ==
  /\ \A i \in 1 .. Len(frames) : frames[i].at >= stack_point + frames[i].size
  /\ \A i, j \in 1 .. Len(frames) :
       i < j => frames[i].at >= frames[j].at + frames[i].size

Whole == \A i \in 1 .. Len(frames) : Held(frames[i])

Good ==
  /\ TypeOK
  /\ stack_point <= Ceiling
  /\ frames \in Seq(FrameSet)
  /\ Contiguous
  /\ Above
  /\ Whole

(* Of a program that is not sound nothing is said.                          *)
Inv == sound => Good

LEMMA FrameFacts ==
  ASSUME NEW f \in FrameSet
  PROVE  /\ f.at \in 0 .. Ceiling /\ f.size \in 1 .. 3
         /\ f.kind \in {"data", "status", "call", "nmi"}
         /\ f.kind \in {"data", "status"} => f.size = 1 /\ f.value \in Byte
         /\ f.kind = "call" => f.size = 2 /\ f.value \in 0 .. WordSize - 1
         /\ f.kind = "nmi" => /\ f.size = 3 /\ f.value.pc \in 0 .. WordSize - 1
                             /\ f.value.flags \in Flags
BY DEF FrameSet

LEMMA HeldAt ==
  ASSUME NEW f, Held(f), NEW top, top = f.at + StackSize
  PROVE  /\ f.kind = "call" => mem[top - 1] + PageBytes * mem[top] = f.value
         /\ f.kind = "nmi" => /\ mem[top - 1] + PageBytes * mem[top] = f.value.pc
                             /\ Unpack(mem[top - 2]) =
                                  [f.value.flags EXCEPT !.i = 1, !.u = 0]
BY DEF Held

LEMMA PulledAt ==
  ASSUME NEW s, NEW u \in Nat, u = UpWord(s), NEW top, top = u + StackSize
  PROVE  PulledWord(mem, s) = mem[top - 1] + PageBytes * mem[top]
<1>1. PulledWord(mem, s) = mem[u + StackSize - 1] + PageBytes * mem[u + StackSize]
  BY DEF PulledWord
<1>2. u + StackSize - 1 = top - 1
  BY StackAssumption
<1> QED
  BY <1>1, <1>2

(* A frame is held by the cells above the pointer, size of them down from   *)
(* its place: a step that keeps those keeps the frame.                      *)
LEMMA HeldKept ==
  ASSUME NEW f \in FrameSet, NEW s \in Nat, f.at >= s + f.size, Held(f),
         \A a \in 0 .. MemSize - 1 : a > s + StackSize => mem'[a] = mem[a]
  PROVE  Held(f)'
<1> DEFINE top == f.at + StackSize
<1>1. StackSize \in Nat /\ StackSize > 3 /\ MemSize = 8 * StackSize
  BY StackAssumption DEF MemSize
<1>2. f.at \in 0 .. StackSize - 3 /\ f.size \in 1 .. 3
  BY FrameFacts DEF Ceiling
<1>3. \A k \in 0 .. 2 : k < f.size => mem'[top - k] = mem[top - k]
  <2> SUFFICES ASSUME NEW k \in 0 .. 2, k < f.size PROVE mem'[top - k] = mem[top - k]
    OBVIOUS
  <2>1. top - k \in 0 .. MemSize - 1 /\ top - k > s + StackSize
    BY <1>1, <1>2
  <2> QED
    BY <2>1
<1>4. top - 0 = top
  BY <1>1, <1>2
<1>5. mem'[top] = mem[top]
  BY <1>2, <1>3, <1>4
<1>6. f.size >= 2 => mem'[top - 1] = mem[top - 1]
  BY <1>2, <1>3
<1>7. f.size >= 3 => mem'[top - 2] = mem[top - 2]
  BY <1>2, <1>3
<1> HIDE DEF top
<1>8. CASE f.kind \in {"data", "status"}
  BY <1>5, <1>8, FrameFacts DEF Held, top
<1>9. CASE f.kind = "call"
  BY <1>5, <1>6, <1>9, FrameFacts DEF Held, top
<1>10. CASE f.kind = "nmi"
  BY <1>5, <1>6, <1>7, <1>10, FrameFacts DEF Held, top
<1> QED
  BY <1>8, <1>9, <1>10, FrameFacts

-----------------------------------------------------------------------------
(* What the three kinds of step do to the frames.                           *)

LEMMA StayKeeps ==
  ASSUME Good, TypeOK', UNCHANGED <<stack_point, mem, frames>>
  PROVE  Good'
BY DEF Good, Contiguous, Above, Whole, Held

LEMMA PushKeeps ==
  ASSUME Good, TypeOK', NEW f \in FrameSet, f.at = stack_point, stack_point >= f.size,
         frames' = Append(frames, f), stack_point' = stack_point - f.size,
         \A a \in 0 .. MemSize - 1 : a > stack_point + StackSize => mem'[a] = mem[a],
         Held(f)'
  PROVE  Good'
<1> DEFINE n == Len(frames)
<1>1. /\ frames \in Seq(FrameSet) /\ n \in Nat
      /\ stack_point \in Nat /\ stack_point <= Ceiling /\ f.size \in 1 .. 3
      /\ Ceiling \in Nat
  BY FrameFacts, StackAssumption DEF Good, TypeOK, Ceiling
<1>2. /\ frames' \in Seq(FrameSet) /\ Len(frames') = n + 1
      /\ \A i \in 1 .. n : frames'[i] = frames[i]
      /\ frames'[n + 1] = f
  BY <1>1
<1>3. \A i \in 1 .. n : frames[i] \in FrameSet /\ frames[i].at \in Nat
                                              /\ frames[i].size \in Nat
  BY <1>1, ElementOfSeq, FrameFacts
<1>4. stack_point' \in Nat /\ stack_point' <= Ceiling /\ stack_point' < stack_point
  BY <1>1
<1>5. \A i \in 1 .. n + 1 : i \in 1 .. n \/ i = n + 1
  BY <1>1
<1> HIDE DEF n
<1>6. Contiguous'
  <2> SUFFICES ASSUME NEW i \in 1 .. n + 1
               PROVE  frames'[i].at = (IF i = n + 1 THEN stack_point' ELSE frames'[i + 1].at)
                                        + frames'[i].size
    BY <1>2 DEF Contiguous
  <2>1. CASE i = n + 1
    BY <1>1, <1>2, <2>1
  <2>2. CASE i \in 1 .. n /\ i # n + 1
    <3>1. i = n \/ (i # n /\ i + 1 \in 1 .. n)
      BY <1>1, <2>2 DEF n
    <3>2. frames[i].at = (IF i = n THEN stack_point ELSE frames[i + 1].at) + frames[i].size
      BY <2>2 DEF Good, Contiguous, n
    <3> QED
      BY <1>2, <2>2, <3>1, <3>2
  <2> QED
    BY <1>1, <1>5, <2>1, <2>2
<1>7. Above'
  <2>1. ASSUME NEW i \in 1 .. n + 1
        PROVE  frames'[i].at >= stack_point' + frames'[i].size
    <3>1. CASE i = n + 1
      BY <1>1, <1>2, <3>1
    <3>2. CASE i \in 1 .. n
      <4>1. frames[i].at >= stack_point + frames[i].size
        BY <3>2 DEF Good, Above, n
      <4>2. frames'[i] = frames[i] /\ frames[i].at \in Nat /\ frames[i].size \in Nat
        BY <1>2, <1>3, <3>2
      <4>3. stack_point \in Nat /\ stack_point' \in Nat /\ stack_point' < stack_point
        BY <1>1, <1>4
      <4>4. frames[i].at >= stack_point' + frames[i].size
        BY <4>1, <4>2, <4>3
      <4> QED
        BY <4>2, <4>4
    <3> QED
      BY <1>5, <3>1, <3>2
  <2>2. ASSUME NEW i \in 1 .. n + 1, NEW j \in 1 .. n + 1, i < j
        PROVE  frames'[i].at >= frames'[j].at + frames'[i].size
    <3>1. i \in 1 .. n
      BY <1>1, <2>2 DEF n
    <3>2. CASE j = n + 1
      <4>1. frames[i].at >= stack_point + frames[i].size
        BY <3>1 DEF Good, Above, n
      <4> QED
        BY <1>2, <3>1, <3>2, <4>1
    <3>3. CASE j \in 1 .. n
      BY <1>2, <2>2, <3>1, <3>3 DEF Good, Above, n
    <3> QED
      BY <1>5, <3>2, <3>3
  <2> QED
    BY <1>2, <2>1, <2>2 DEF Above
<1>8. Whole'
  <2> SUFFICES ASSUME NEW i \in 1 .. n + 1 PROVE Held(frames[i])'
    BY <1>2 DEF Whole
  <2>1. CASE i = n + 1
    BY <1>2, <2>1 DEF Held
  <2>2. CASE i \in 1 .. n
    <3>1. PICK g \in FrameSet : g = frames[i]
      BY <1>3, <2>2
    <3>2. Held(frames[i]) /\ frames[i].at >= stack_point + frames[i].size
      BY <2>2 DEF Good, Whole, Above, n
    <3>3. Held(g) /\ g.at >= stack_point + g.size
      BY <3>1, <3>2 DEF Held
    <3>4. Held(g)'
      BY <1>1, <3>3, HeldKept
    <3>5. frames'[i] = g
      BY <1>2, <2>2, <3>1
    <3> QED
      BY <3>4, <3>5 DEF Held
  <2> QED
    BY <1>5, <2>1, <2>2
<1> QED
  BY <1>2, <1>4, <1>6, <1>7, <1>8 DEF Good

(* The frame a pull takes: the last, just above the pointer.                *)
LEMMA TopFrame ==
  ASSUME Good, frames # <<>>
  PROVE  /\ Len(frames) \in Nat /\ Len(frames) > 0
         /\ Last(frames) = frames[Len(frames)]
         /\ Last(frames) \in FrameSet
         /\ Held(Last(frames))
         /\ Last(frames).at = stack_point + Last(frames).size
<1> DEFINE n == Len(frames)
<1>1. frames \in Seq(FrameSet) /\ n \in Nat /\ n > 0 /\ Last(frames) = frames[n]
  BY EmptySeq, LenProperties DEF Good, Last
<1>2. n \in 1 .. n
  BY <1>1
<1>3. frames[n] \in FrameSet
  BY <1>1, <1>2, ElementOfSeq
<1>4. frames[n].at = stack_point + frames[n].size
  BY <1>2 DEF Good, Contiguous
<1>5. Held(frames[n])
  BY <1>2 DEF Good, Whole
<1> QED
  BY <1>1, <1>3, <1>4, <1>5 DEF Held

LEMMA PullKeeps ==
  ASSUME Good, TypeOK', frames # <<>>, frames' = Front(frames), mem' = mem,
         stack_point' = Last(frames).at
  PROVE  Good'
<1> DEFINE n == Len(frames)
<1>1. /\ frames \in Seq(FrameSet) /\ n \in Nat /\ n > 0
      /\ stack_point' = frames[n].at /\ frames[n] \in FrameSet
  BY TopFrame DEF Good
<1>2. /\ frames' \in Seq(FrameSet) /\ Len(frames') = n - 1
      /\ \A i \in 1 .. n - 1 : frames'[i] = frames[i]
  <2>1. frames' = SubSeq(frames, 1, n - 1)
    BY DEF Front
  <2>2. \A i \in 1 .. n - 1 : frames[i] \in FrameSet
    BY <1>1, ElementOfSeq
  <2>3. 1 \in Int /\ n - 1 \in Int
    BY <1>1
  <2>4. /\ frames' \in Seq(FrameSet)
        /\ Len(frames') = IF 1 <= n - 1 THEN n - 1 - 1 + 1 ELSE 0
        /\ \A i \in 1 .. n - 1 - 1 + 1 : frames'[i] = frames[1 + i - 1]
    BY <2>1, <2>2, <2>3, SubSeqProperties
  <2> HIDE DEF n
  <2> QED
    BY <1>1, <2>4
<1>3. stack_point' <= Ceiling
  BY <1>1, FrameFacts, StackAssumption DEF Ceiling
<1> HIDE DEF n
<1>4. Contiguous'
  <2> SUFFICES ASSUME NEW i \in 1 .. n - 1
               PROVE  frames'[i].at
                        = (IF i = n - 1 THEN stack_point' ELSE frames'[i + 1].at)
                            + frames'[i].size
    BY <1>2 DEF Contiguous
  <2>1. frames[i].at = frames[i + 1].at + frames[i].size
    BY <1>1 DEF Good, Contiguous, n
  <2>2. frames'[i] = frames[i]
    BY <1>2
  <2>3. CASE i = n - 1
    BY <1>1, <2>1, <2>2, <2>3
  <2>4. CASE i # n - 1
    <3>1. i + 1 \in 1 .. n - 1
      BY <1>1, <2>4
    <3> QED
      BY <1>2, <2>1, <2>2, <2>4, <3>1
  <2> QED
    BY <2>3, <2>4
<1>5. Above'
  <2>1. ASSUME NEW i \in 1 .. n - 1
        PROVE  frames'[i].at >= stack_point' + frames'[i].size
    BY <1>1, <1>2 DEF Good, Above, n
  <2>2. ASSUME NEW i \in 1 .. n - 1, NEW j \in 1 .. n - 1, i < j
        PROVE  frames'[i].at >= frames'[j].at + frames'[i].size
    BY <1>1, <1>2, <2>2 DEF Good, Above, n
  <2> QED
    BY <1>2, <2>1, <2>2 DEF Above
<1>6. Whole'
  <2> SUFFICES ASSUME NEW i \in 1 .. n - 1 PROVE Held(frames[i])'
    BY <1>2 DEF Whole
  <2>1. Held(frames[i])
    BY <1>1 DEF Good, Whole, n
  <2>2. frames'[i] = frames[i]
    BY <1>2
  <2> QED
    BY <2>1, <2>2 DEF Held
<1> QED
  BY <1>2, <1>3, <1>4, <1>5, <1>6 DEF Good

-----------------------------------------------------------------------------
(* One lemma per kind of instruction.                                       *)

LEMMA SpTypes ==
  ASSUME Good
  PROVE  /\ StackSize \in Nat /\ StackSize > 3 /\ MemSize = 8 * StackSize
         /\ PullLimit \in Nat /\ StackSize <= PullLimit
         /\ stack_point \in 0 .. StackSize - 3
BY StackAssumption DEF Good, TypeOK, Ceiling, MemSize

LEMMA Words == WordSize \in Nat /\ WordSize > 0
BY DEF WordSize, PageBytes

LEMMA GoType ==
  ASSUME Go
  PROVE  pc' \in 0 .. WordSize
<1>1. Code \subseteq 0 .. WordSize - 1
  BY StackAssumption
<1>2. WordSize \in Nat
  BY Words
<1>3. pc' \in Code
  BY DEF Go
<1> QED
  BY <1>1, <1>2, <1>3

LEMMA PlainKeeps ==
  ASSUME Good, LDA \/ LDX \/ SEC \/ CLC \/ CLI \/ TSX \/ (TXS /\ X = stack_point),
         UNCHANGED frames
  PROVE  Good'
<1>1. pc' \in 0 .. WordSize
  BY GoType DEF LDA, LDX, SEC, CLC, CLI, TSX, TXS
<1>2. stack_point' = stack_point /\ mem' = mem /\ P' = P /\ nmi' = nmi
  BY DEF LDA, LDX, SEC, CLC, CLI, TSX, TXS
<1>3. flags' \in Flags
  BY DEF Good, TypeOK, Flags, ZN, LDA, LDX, SEC, CLC, CLI, TSX, TXS
<1>4. A' \in Byte /\ X' \in 0 .. PullLimit \cup Byte
  BY StackAssumption DEF Good, TypeOK, LDA, LDX, SEC, CLC, CLI, TSX, TXS
<1>5. TypeOK'
  BY <1>1, <1>2, <1>3, <1>4 DEF Good, TypeOK
<1> QED
  BY <1>2, <1>5, StayKeeps

(* What a push of a byte, and of a word, leaves in memory.                  *)
LEMMA PushByteEffect ==
  ASSUME NEW m \in [0 .. MemSize - 1 -> Byte], NEW s \in 0 .. StackSize - 1,
         NEW y \in Byte
  PROVE  /\ PushByte(m, s, y) \in [0 .. MemSize - 1 -> Byte]
         /\ PushByte(m, s, y)[s + StackSize] = y
         /\ \A a \in 0 .. MemSize - 1 :
              a # s + StackSize => PushByte(m, s, y)[a] = m[a]
<1>1. s + StackSize \in 0 .. MemSize - 1
  BY StackAssumption DEF MemSize
<1>2. PushByte(m, s, y) = [m EXCEPT ![s + StackSize] = y]
  <2>1. (s + StackSize) % MemSize = s + StackSize
    BY StackSums
  <2> QED
    BY <2>1, Zenon DEF PushByte
<1> QED
  BY <1>1, <1>2

LEMMA PushWordEffect ==
  ASSUME NEW m \in [0 .. MemSize - 1 -> Byte], NEW s \in 1 .. StackSize - 1,
         NEW w \in Nat
  PROVE  LET n == PushWord(m, s, w)
             top == s + StackSize
         IN  /\ n \in [0 .. MemSize - 1 -> Byte]
             /\ w < WordSize => n[top - 1] + PageBytes * n[top] = w
             /\ \A a \in 0 .. MemSize - 1 : a \notin {top - 1, top} => n[a] = m[a]
<1> DEFINE top == s + StackSize
           below == s + StackSize - 1
           S == 0 .. MemSize - 1
           n == PushWord(m, s, w)
           lo == w % PageBytes
           hi == (w \div PageBytes) % PageBytes
<1>1. top \in S /\ below \in S /\ top # below /\ below = top - 1
  BY StackAssumption DEF MemSize
<1>2. lo \in Byte /\ hi \in Byte
  <2>1. w \in Nat /\ w \div PageBytes \in Nat
    BY DEF PageBytes
  <2>2. \A k \in Nat : k % PageBytes \in Byte
    BY DEF Byte, PageBytes
  <2> QED
    BY <2>1, <2>2
<1>3. w < WordSize => lo + PageBytes * hi = w
  <2> SUFFICES ASSUME w < WordSize PROVE lo + PageBytes * hi = w
    OBVIOUS
  <2>1. WordSize \in Nat
    BY DEF WordSize, PageBytes
  <2>2. w \in 0 .. WordSize - 1
    BY <2>1
  <2> QED
    BY <2>2, WordOfBytes
<1>4. n = [m EXCEPT ![below] = lo, ![top] = hi]
  BY DEF PushWord
<1> HIDE DEF n, lo, hi, below, top, S
<1>5. /\ n \in [S -> Byte] /\ n[below] = lo /\ n[top] = hi
      /\ \A a \in S : a \notin {below, top} => n[a] = m[a]
  <2>1. m \in [S -> Byte]
    BY DEF S
  <2> QED
    BY <1>1, <1>2, <1>4, <2>1
<1> QED
  BY <1>1, <1>3, <1>5 DEF n, top, S

(* Cells outside the stack page are left alone.                             *)
Spared ==
  \A a \in 0 .. MemSize - 1 \ (StackSize .. 2 * StackSize - 1) : mem'[a] = mem[a]

(* A push of one byte, by PHA and PHP.                                      *)
LEMMA BytePushed ==
  ASSUME Good, pc' \in 0 .. WordSize, UNCHANGED <<flags, P, A, X, nmi>>,
         NEW f \in FrameSet, f.kind \in {"data", "status"}, f.at = stack_point,
         stack_point >= 1, frames' = Append(frames, f),
         mem' = PushByte(mem, stack_point, f.value),
         stack_point' = Down(stack_point, 1)
  PROVE  Good' /\ Spared
<1> DEFINE top == stack_point + StackSize
<1>1. f.size = 1 /\ f.value \in Byte
  BY FrameFacts
<1>2. /\ mem' \in [0 .. MemSize - 1 -> Byte] /\ mem'[top] = f.value
      /\ \A a \in 0 .. MemSize - 1 : a # top => mem'[a] = mem[a]
  <2>1. mem \in [0 .. MemSize - 1 -> Byte] /\ stack_point \in 0 .. StackSize - 1
    BY SpTypes DEF Good, TypeOK
  <2> QED
    BY <1>1, <2>1, PushByteEffect
<1>3. stack_point' = stack_point - 1
  <2>1. stack_point \in 0 .. StackSize - 1 /\ 1 \in 1 .. 2
    BY SpTypes
  <2> QED
    BY <2>1, StackSums
<1>4. TypeOK'
  <2>1. stack_point' \in 0 .. PullLimit
    BY <1>3, SpTypes
  <2> QED
    BY <1>2, <2>1 DEF Good, TypeOK
<1>5. Held(f)'
  BY <1>2 DEF Held
<1>6. ASSUME NEW a \in 0 .. MemSize - 1, a > stack_point + StackSize
      PROVE  mem'[a] = mem[a]
  <2>1. a # top
    BY <1>6, SpTypes
  <2> QED
    BY <1>2, <2>1
<1>7. Good'
  BY <1>1, <1>3, <1>4, <1>5, <1>6, PushKeeps
<1>8. Spared
  <2> SUFFICES ASSUME NEW a \in 0 .. MemSize - 1, a \notin StackSize .. 2 * StackSize - 1
               PROVE  mem'[a] = mem[a]
    BY DEF Spared
  <2>1. a # top
    BY SpTypes
  <2> QED
    BY <1>2, <2>1
<1> QED
  BY <1>7, <1>8

LEMMA PhaKeeps ==
  ASSUME Good, PHA, stack_point >= 1, frames' = Append(frames, Frame("data", 1, A))
  PROVE  Good' /\ Spared
<1> DEFINE f == Frame("data", 1, A)
<1>1. f \in FrameSet /\ f.kind = "data" /\ f.at = stack_point /\ f.value = A
  BY SpTypes DEF Good, TypeOK, FrameSet, Frame, Ceiling
<1>2. pc' \in 0 .. WordSize
  BY GoType DEF PHA
<1> HIDE DEF f
<1> QED
  BY <1>1, <1>2, BytePushed DEF PHA, f

LEMMA PhpKeeps ==
  ASSUME Good, PHP, stack_point >= 1,
         frames' = Append(frames, Frame("status", 1, WithBit(WithBit(P, 16), 32)))
  PROVE  Good' /\ Spared
<1> DEFINE y == WithBit(WithBit(P, 16), 32)
           f == Frame("status", 1, y)
<1>1. y \in Byte
  BY WithBitsType DEF Good, TypeOK
<1>2. mem' = PushByte(mem, stack_point, y)
  BY DEF PHP
<1> HIDE DEF y
<1>3. f \in FrameSet /\ f.kind = "status" /\ f.at = stack_point /\ f.value = y
  BY <1>1, SpTypes DEF Good, TypeOK, FrameSet, Frame, Ceiling
<1>4. pc' \in 0 .. WordSize
  BY GoType DEF PHP
<1>5. frames' = Append(frames, f)
  BY DEF y
<1> HIDE DEF f
<1> QED
  BY <1>2, <1>3, <1>4, <1>5, BytePushed DEF PHP

(* BRK's push, pull and push come back to the pointer they began at; with   *)
(* no frame on the stack, all they overwrite is free.                       *)
LEMMA BrkKeeps ==
  ASSUME Good, BRK, frames = <<>>, stack_point > 0, UNCHANGED frames
  PROVE  Good' /\ Spared
<1> DEFINE s == stack_point
           m == PushWord(mem, s, pc + 1)
           top == s + StackSize
<1>1. s \in 1 .. StackSize - 3 /\ s \in 1 .. StackSize - 1 /\ s \in 0 .. StackSize - 1
      /\ s + 1 \in 0 .. StackSize - 1 /\ StackSize \in Nat /\ StackSize > 3
  BY SpTypes
<1>2. mem \in [0 .. MemSize - 1 -> Byte] /\ pc + 1 \in Nat
  BY DEF Good, TypeOK
<1>3. /\ m \in [0 .. MemSize - 1 -> Byte]
      /\ \A a \in 0 .. MemSize - 1 : a \notin {top - 1, top} => m[a] = mem[a]
  BY <1>1, <1>2, PushWordEffect
<1>4. UpWord(Down(s, 2)) = s
  <2>1. CASE s >= 2
    <3>1. Down(s, 2) = s - 2
      BY <1>1, <2>1, StackSums
    <3>2. s - 2 \in 0 .. StackSize - 1 /\ (s - 2) + 2 < StackSize /\ (s - 2) + 2 = s
      BY <1>1, <2>1
    <3> QED
      BY <3>1, <3>2, StackSums
  <2>2. CASE s = 1
    <3>1. s + StackSize - 2 = StackSize - 1 /\ StackSize - 1 \in 0 .. StackSize - 1
          /\ StackSize \in Nat \ {0} /\ 1 \in 0 .. StackSize - 1
          /\ (StackSize - 1) + 2 = 1 + StackSize
      BY <1>1, <2>2
    <3>2. Down(s, 2) = StackSize - 1
      BY <3>1, SmallModulus DEF Down
    <3>3. UpWord(StackSize - 1) = 1
      BY <3>1, SmallModulus DEF UpWord
    <3> QED
      BY <2>2, <3>2, <3>3
  <2> QED
    BY <1>1, <2>1, <2>2
<1>5. mem' = PushByte(m, s + 1, 0) /\ stack_point' = Down(s + 1, 1)
  BY <1>4 DEF BRK, UpByte
<1>6. stack_point' = s
  <2>1. Down(s + 1, 1) = s + 1 - 1
    BY <1>1, StackSums
  <2> QED
    BY <1>1, <1>5, <2>1
<1> HIDE DEF m
<1>7. 0 \in Byte
  BY DEF Byte, PageBytes
<1>8. /\ mem' \in [0 .. MemSize - 1 -> Byte]
      /\ \A a \in 0 .. MemSize - 1 : a # s + 1 + StackSize => mem'[a] = m[a]
  BY <1>1, <1>3, <1>5, <1>7, PushByteEffect
<1>9. Spared
  <2> SUFFICES ASSUME NEW a \in 0 .. MemSize - 1, a \notin StackSize .. 2 * StackSize - 1
               PROVE  mem'[a] = mem[a]
    BY DEF Spared
  <2>1. a # s + 1 + StackSize /\ a # top /\ a # top - 1
    BY <1>1, SpTypes
  <2> QED
    BY <1>3, <1>8, <2>1
<1>10. pc' \in 0 .. WordSize /\ UNCHANGED <<flags, P, A, X, nmi>>
  BY GoType DEF BRK
<1>11. TypeOK' /\ stack_point' <= Ceiling
  BY <1>6, <1>8, <1>10 DEF Good, TypeOK
<1>12. Len(frames') = 0 /\ frames' \in Seq(FrameSet)
  BY DEF Good
<1>13. Contiguous' /\ Above' /\ Whole'
  BY <1>12 DEF Contiguous, Above, Whole
<1> QED
  BY <1>9, <1>11, <1>12, <1>13 DEF Good

LEMMA JsrKeeps ==
  ASSUME Good, JSR, stack_point >= 2,
         frames' = Append(frames, Frame("call", 2, (pc + 2) % WordSize))
  PROVE  Good' /\ Spared
<1> DEFINE s == stack_point
           w == (pc + 2) % WordSize
           top == s + StackSize
<1>1. s \in 2 .. StackSize - 3 /\ s \in 1 .. StackSize - 1 /\ s \in 0 .. StackSize - 1
      /\ StackSize \in Nat /\ StackSize > 3 /\ MemSize = 8 * StackSize
      /\ PullLimit \in Nat /\ StackSize <= PullLimit
  BY SpTypes
<1>2. w \in 0 .. WordSize - 1 /\ w \in Nat /\ w < WordSize
  BY Words DEF Good, TypeOK
<1>3. mem \in [0 .. MemSize - 1 -> Byte]
  BY DEF Good, TypeOK
<1>4. mem' = PushWord(mem, s, w) /\ pc' \in 0 .. WordSize
      /\ UNCHANGED <<flags, P, A, X, nmi>>
  BY GoType DEF JSR
<1> HIDE DEF w
<1>5. /\ mem' \in [0 .. MemSize - 1 -> Byte]
      /\ mem'[top - 1] + PageBytes * mem'[top] = w
      /\ \A a \in 0 .. MemSize - 1 : a \notin {top - 1, top} => mem'[a] = mem[a]
  BY <1>1, <1>2, <1>3, <1>4, PushWordEffect
<1>6. stack_point' = s - 2
  <2>1. stack_point' = Down(s, 2)
    BY DEF JSR
  <2> QED
    BY <1>1, <2>1, StackSums
<1>7. PICK f : f = Frame("call", 2, w)
  OBVIOUS
<1>8. /\ f \in FrameSet /\ f.kind = "call" /\ f.at = s /\ f.size = 2 /\ f.value = w
      /\ frames' = Append(frames, f)
  BY <1>1, <1>2, <1>7 DEF FrameSet, Frame, Ceiling, w
<1>9. TypeOK'
  <2>1. stack_point' \in 0 .. PullLimit
    BY <1>1, <1>6
  <2> QED
    BY <1>4, <1>5, <2>1 DEF Good, TypeOK
<1>10. Held(f)'
  <2>1. f.at + StackSize = top
    BY <1>8
  <2> HIDE DEF top
  <2>2. f.kind = "call" /\ mem'[top - 1] + PageBytes * mem'[top] = f.value
    BY <1>5, <1>8
  <2> QED
    BY <2>1, <2>2 DEF Held
<1>11. ASSUME NEW a \in 0 .. MemSize - 1, a > s + StackSize
       PROVE  mem'[a] = mem[a]
  <2>1. a # top /\ a # top - 1
    BY <1>1, <1>11
  <2> QED
    BY <1>5, <2>1
<1>12. Good'
  <2>1. stack_point >= f.size /\ stack_point' = stack_point - f.size /\ f.at = stack_point
    BY <1>1, <1>6, <1>8
  <2> QED
    BY <1>8, <1>9, <1>10, <1>11, <2>1, PushKeeps
<1>13. Spared
  <2> SUFFICES ASSUME NEW a \in 0 .. MemSize - 1, a \notin StackSize .. 2 * StackSize - 1
               PROVE  mem'[a] = mem[a]
    BY DEF Spared
  <2>1. a # top /\ a # top - 1
    BY <1>1
  <2> QED
    BY <1>5, <2>1
<1> QED
  BY <1>12, <1>13

(* The interrupt pushes a word and a byte, by helper.c's own arithmetic.    *)
LEMMA NmiKeeps ==
  ASSUME Good, TakeNmi, pc < WordSize, stack_point >= 3,
         frames' = Append(frames, Frame("nmi", 3, [pc |-> pc, flags |-> flags]))
  PROVE  Good' /\ Spared
<1> DEFINE s == stack_point
           top == s + StackSize
           m == PushWord(mem, s, pc)
           saved == [flags EXCEPT !.i = 1, !.u = 0]
<1>1. s \in 3 .. StackSize - 3 /\ s \in 1 .. StackSize - 1 /\ s \in 0 .. StackSize - 1
      /\ s - 2 \in 0 .. StackSize - 1
      /\ StackSize \in Nat /\ StackSize > 3 /\ MemSize = 8 * StackSize
      /\ PullLimit \in Nat /\ StackSize <= PullLimit
  BY SpTypes
<1>2. pc \in Nat /\ pc \in 0 .. WordSize - 1
  BY Words DEF Good, TypeOK
<1>3. mem \in [0 .. MemSize - 1 -> Byte]
  BY DEF Good, TypeOK
<1>4. saved \in Flags /\ flags \in Flags
  BY DEF Good, TypeOK, Flags
<1>5. /\ flags' = saved /\ P' = Pack(flags') /\ nmi' = FALSE /\ UNCHANGED <<A, X>>
      /\ pc' = Vector
  BY DEF TakeNmi
<1> HIDE DEF saved
<1>6. P' \in Byte /\ Unpack(P') = saved
  BY <1>4, <1>5, PackType, UnpackPack
<1>7. Down(s, 2) = s - 2 /\ Down(s - 2, 1) = s - 3
  <2>1. Down(s, 2) = s - 2
    BY <1>1, StackSums
  <2>2. Down(s - 2, 1) = s - 2 - 1
    BY <1>1, StackSums
  <2> QED
    BY <1>1, <2>1, <2>2
<1>8. mem' = PushByte(m, s - 2, P') /\ stack_point' = s - 3
  BY <1>7 DEF TakeNmi
<1>9. /\ m \in [0 .. MemSize - 1 -> Byte]
      /\ m[top - 1] + PageBytes * m[top] = pc
      /\ \A a \in 0 .. MemSize - 1 : a \notin {top - 1, top} => m[a] = mem[a]
  BY <1>1, <1>2, <1>3, PushWordEffect
<1> HIDE DEF m
<1>10. s - 2 + StackSize = top - 2
  BY <1>1
<1>11. /\ mem' \in [0 .. MemSize - 1 -> Byte]
       /\ mem'[top - 2] = P'
       /\ \A a \in 0 .. MemSize - 1 : a # top - 2 => mem'[a] = m[a]
  <2> DEFINE p == s - 2
             y == P'
  <2>1. /\ p \in 0 .. StackSize - 1 /\ y \in Byte
        /\ mem' = PushByte(m, p, y) /\ p + StackSize = top - 2
    BY <1>1, <1>6, <1>8, <1>10
  <2> HIDE DEF p, y, top
  <2>2. /\ PushByte(m, p, y) \in [0 .. MemSize - 1 -> Byte]
        /\ PushByte(m, p, y)[p + StackSize] = y
        /\ \A a \in 0 .. MemSize - 1 :
             a # p + StackSize => PushByte(m, p, y)[a] = m[a]
    BY <1>9, <2>1, PushByteEffect
  <2>3. /\ mem' \in [0 .. MemSize - 1 -> Byte]
        /\ mem'[top - 2] = y
        /\ \A a \in 0 .. MemSize - 1 : a # top - 2 => mem'[a] = m[a]
    BY <2>1, <2>2
  <2> QED
    BY <2>3 DEF y
<1>12. /\ top \in 0 .. MemSize - 1 /\ top - 1 \in 0 .. MemSize - 1
       /\ top # top - 2 /\ top - 1 # top - 2
  BY <1>1
<1>13. mem'[top - 1] + PageBytes * mem'[top] = pc
  <2> HIDE DEF top
  <2> QED
    BY <1>9, <1>11, <1>12
<1>14. PICK f : f = Frame("nmi", 3, [pc |-> pc, flags |-> flags])
  OBVIOUS
<1>15. /\ f \in FrameSet /\ f.kind = "nmi" /\ f.at = s /\ f.size = 3
       /\ f.value = [pc |-> pc, flags |-> flags] /\ frames' = Append(frames, f)
  BY <1>1, <1>2, <1>4, <1>14 DEF FrameSet, Frame, Ceiling
<1>16. TypeOK'
  <2>1. stack_point' \in 0 .. PullLimit
    BY <1>1, <1>8
  <2>2. pc' \in 0 .. WordSize
    <3>1. WordSize \in Nat /\ Vector \in 0 .. WordSize - 1
      BY Words, StackAssumption
    <3> QED
      BY <1>5, <3>1
  <2>3. nmi' \in BOOLEAN /\ flags' \in Flags
    BY <1>4, <1>5
  <2> QED
    BY <1>5, <1>6, <1>11, <2>1, <2>2, <2>3 DEF Good, TypeOK
<1>17. Held(f)'
  <2>1. Unpack(mem'[top - 2]) = [f.value.flags EXCEPT !.i = 1, !.u = 0]
    BY <1>6, <1>11, <1>15 DEF saved
  <2>2. f.at + StackSize = top
    BY <1>15
  <2> HIDE DEF top
  <2>3. f.kind = "nmi" /\ mem'[top - 1] + PageBytes * mem'[top] = f.value.pc
    BY <1>13, <1>15
  <2> QED
    BY <2>1, <2>2, <2>3 DEF Held
<1>18. ASSUME NEW a \in 0 .. MemSize - 1, a > s + StackSize
       PROVE  mem'[a] = mem[a]
  <2>1. a # top /\ a # top - 1 /\ a # top - 2
    BY <1>1, <1>18
  <2> HIDE DEF top
  <2> QED
    BY <1>9, <1>11, <2>1
<1>19. Good'
  <2>1. stack_point >= f.size /\ stack_point' = stack_point - f.size /\ f.at = stack_point
    BY <1>1, <1>8, <1>15
  <2> QED
    BY <1>15, <1>16, <1>17, <1>18, <2>1, PushKeeps
<1>20. Spared
  <2> SUFFICES ASSUME NEW a \in 0 .. MemSize - 1, a \notin StackSize .. 2 * StackSize - 1
               PROVE  mem'[a] = mem[a]
    BY DEF Spared
  <2>1. a # top /\ a # top - 1 /\ a # top - 2
    BY <1>1
  <2> HIDE DEF top
  <2> QED
    BY <1>9, <1>11, <2>1
<1> QED
  BY <1>19, <1>20

(* What the pull of frame f brings back.                                    *)
Returned(f) ==
  /\ stack_point' = f.at
  /\ \/ f.kind = "data" /\ A' = f.value
     \/ f.kind = "status" /\ P' = WithBit(SansBit(f.value, 16), 32)
     \/ f.kind = "call" /\ pc' = f.value + 1
     \/ f.kind = "nmi" /\ pc' = f.value.pc
          /\ flags' = [f.value.flags EXCEPT !.i = 1, !.u = 1]

(* The cells above the pointer that pulls read, and what they hold of the   *)
(* last frame.                                                              *)
LEMMA BytePulled ==
  ASSUME Good, frames # <<>>
  PROVE  /\ PulledByte(mem, stack_point) \in Byte
         /\ PulledByte(mem, stack_point) = mem[stack_point + 1 + StackSize]
         /\ Last(frames).kind \in {"data", "status"} =>
              /\ PulledByte(mem, stack_point) = Last(frames).value
              /\ UpByte(stack_point) = Last(frames).at
<1> DEFINE s == stack_point
<1>1. s \in 0 .. StackSize - 1 /\ s + 1 + StackSize \in 0 .. MemSize - 1
  BY SpTypes
<1>2. (s + 1 + StackSize) % MemSize = s + 1 + StackSize
  BY <1>1, StackSums
<1>3. PulledByte(mem, s) = mem[s + 1 + StackSize]
  BY <1>2 DEF PulledByte, UpByte
<1>4. mem \in [0 .. MemSize - 1 -> Byte]
  BY DEF Good, TypeOK
<1>5. ASSUME Last(frames).kind \in {"data", "status"}
      PROVE  mem[s + 1 + StackSize] = Last(frames).value /\ s + 1 = Last(frames).at
  <2>1. PICK f \in FrameSet : f = Last(frames)
    BY TopFrame
  <2>2. f.kind \in {"data", "status"} /\ f.at = s + f.size /\ f.size = 1
    BY <1>5, <2>1, TopFrame, FrameFacts
  <2>3. Held(f)
    BY <2>1, TopFrame
  <2>4. mem[f.at + StackSize] = f.value
    BY <2>2, <2>3 DEF Held
  <2> QED
    BY <2>1, <2>2, <2>4
<1> QED
  BY <1>1, <1>3, <1>4, <1>5 DEF UpByte

LEMMA PlaKeeps ==
  ASSUME Good, PLA, frames # <<>>, Last(frames).kind = "data", frames' = Front(frames)
  PROVE  Good' /\ Returned(Last(frames))
<1>1. Last(frames) \in FrameSet /\ Last(frames).at \in 0 .. Ceiling
  BY TopFrame, FrameFacts
<1>2. A' \in Byte /\ A' = Last(frames).value /\ stack_point' = Last(frames).at
  BY BytePulled DEF PLA
<1>3. pc' \in 0 .. WordSize /\ mem' = mem
  BY GoType DEF PLA
<1>4. flags' \in Flags
  BY DEF PLA, ZN, Good, TypeOK, Flags
<1>5. stack_point' \in 0 .. PullLimit
  BY <1>1, <1>2, SpTypes DEF Ceiling
<1>6. TypeOK'
  BY <1>2, <1>3, <1>4, <1>5 DEF Good, TypeOK, PLA
<1> QED
  BY <1>2, <1>3, <1>6, PullKeeps DEF Returned

LEMMA PlpKeeps ==
  ASSUME Good, PLP, frames # <<>>, Last(frames).kind = "status", frames' = Front(frames)
  PROVE  Good' /\ Returned(Last(frames))
<1> DEFINE y == PulledByte(mem, stack_point)
<1>1. Last(frames) \in FrameSet /\ Last(frames).at \in 0 .. Ceiling
  BY TopFrame, FrameFacts
<1>2. y \in Byte /\ y = Last(frames).value /\ stack_point' = Last(frames).at
  BY BytePulled DEF PLP
<1>3. P' = WithBit(SansBit(y, 16), 32) /\ flags' = Unpack(P')
  BY DEF PLP
<1> HIDE DEF y
<1>4. P' \in Byte /\ flags' \in Flags
  BY <1>2, <1>3, WithBitsType, UnpackType
<1>5. pc' \in 0 .. WordSize /\ mem' = mem
  BY GoType DEF PLP
<1>6. stack_point' \in 0 .. PullLimit
  BY <1>1, <1>2, SpTypes DEF Ceiling
<1>7. TypeOK'
  BY <1>4, <1>5, <1>6 DEF Good, TypeOK, PLP
<1>8. P' = WithBit(SansBit(Last(frames).value, 16), 32)
  BY <1>2, <1>3
<1> QED
  BY <1>2, <1>5, <1>7, <1>8, PullKeeps DEF Returned

LEMMA RtsKeeps ==
  ASSUME Good, RTS, frames # <<>>, Last(frames).kind = "call", frames' = Front(frames)
  PROVE  Good' /\ Returned(Last(frames))
<1> DEFINE s == stack_point
<1>1. PICK f \in FrameSet : f = Last(frames)
  BY TopFrame
<1>2. f.kind = "call" /\ f.at = s + 2 /\ f.value \in 0 .. WordSize - 1 /\ s + 2 <= Ceiling
  <2>1. f.size = 2 /\ f.at = s + f.size /\ f.at \in 0 .. Ceiling
    BY <1>1, TopFrame, FrameFacts
  <2>2. Ceiling \in Nat
    BY SpTypes DEF Ceiling
  <2> QED
    BY <1>1, <2>1, <2>2, FrameFacts
<1>3. UpWord(s) = s + 2
  <2>1. s \in 0 .. StackSize - 1 /\ s + 2 < StackSize
    BY <1>2, SpTypes DEF Ceiling
  <2> QED
    BY <2>1, StackSums
<1>4. PulledWord(mem, s) = f.value
  <2>1. Held(f)
    BY <1>1, TopFrame
  <2>2. PICK top : top = f.at + StackSize
    OBVIOUS
  <2>3. mem[top - 1] + PageBytes * mem[top] = f.value
    BY <1>2, <2>1, <2>2, HeldAt
  <2>4. f.at \in Nat /\ f.at = UpWord(s)
    BY <1>2, <1>3, FrameFacts
  <2> QED
    BY <2>2, <2>3, <2>4, PulledAt
<1>5. pc' = f.value + 1 /\ stack_point' = f.at
  BY <1>2, <1>3, <1>4 DEF RTS
<1>6. pc' \in 0 .. WordSize
  BY <1>2, <1>5, Words
<1>7. stack_point' \in 0 .. PullLimit
  BY <1>2, <1>5, SpTypes DEF Ceiling
<1>8. TypeOK' /\ mem' = mem
  BY <1>6, <1>7 DEF Good, TypeOK, RTS
<1>9. stack_point' = Last(frames).at
  BY <1>1, <1>5
<1>10. Good'
  BY <1>8, <1>9, PullKeeps
<1> QED
  BY <1>1, <1>2, <1>5, <1>10 DEF Returned

LEMMA RtiKeeps ==
  ASSUME Good, RTI, frames # <<>>, Last(frames).kind = "nmi", frames' = Front(frames)
  PROVE  Good' /\ Returned(Last(frames))
<1> DEFINE s == stack_point
           y == PulledByte(mem, s)
<1>1. PICK f \in FrameSet : f = Last(frames)
  BY TopFrame
<1>2. /\ f.kind = "nmi" /\ f.at = s + 3 /\ s + 3 <= Ceiling
      /\ f.value.pc \in 0 .. WordSize - 1 /\ f.value.flags \in Flags
  <2>1. f.size = 3 /\ f.at = s + f.size /\ f.at \in 0 .. Ceiling
    BY <1>1, TopFrame, FrameFacts
  <2>2. Ceiling \in Nat
    BY SpTypes DEF Ceiling
  <2> QED
    BY <1>1, <2>1, <2>2, FrameFacts
<1>3. UpWord(UpByte(s)) = s + 3
  <2>1. s + 1 \in 0 .. StackSize - 1 /\ (s + 1) + 2 < StackSize /\ (s + 1) + 2 = s + 3
    BY <1>2, SpTypes DEF Ceiling
  <2>2. UpWord(s + 1) = (s + 1) + 2
    BY <2>1, StackSums
  <2> QED
    BY <2>1, <2>2 DEF UpByte
<1>4. Held(f)
  BY <1>1, TopFrame
<1>5. PulledWord(mem, UpByte(s)) = f.value.pc
  <2>1. PICK top : top = f.at + StackSize
    OBVIOUS
  <2>2. mem[top - 1] + PageBytes * mem[top] = f.value.pc
    BY <1>2, <1>4, <2>1, HeldAt
  <2>3. f.at \in Nat /\ f.at = UpWord(UpByte(s))
    BY <1>2, <1>3, FrameFacts
  <2> QED
    BY <2>1, <2>2, <2>3, PulledAt
<1>6. y \in Byte /\ Unpack(y) = [f.value.flags EXCEPT !.i = 1, !.u = 0]
  <2>1. PICK top : top = f.at + StackSize
    OBVIOUS
  <2>2. Unpack(mem[top - 2]) = [f.value.flags EXCEPT !.i = 1, !.u = 0]
    BY <1>2, <1>4, <2>1, HeldAt
  <2>3. top - 2 = s + 1 + StackSize
    BY <1>2, <2>1, SpTypes
  <2>4. y \in Byte /\ y = mem[s + 1 + StackSize]
    BY BytePulled
  <2> QED
    BY <2>2, <2>3, <2>4
<1>7. P' = WithBit(y, 32) /\ flags' = Unpack(P')
  BY DEF RTI
<1>8. pc' = f.value.pc /\ stack_point' = f.at /\ mem' = mem
  BY <1>2, <1>3, <1>5 DEF RTI
<1> HIDE DEF y
<1>9. P' \in Byte /\ flags' \in Flags
  BY <1>6, <1>7, WithBitsType, UnpackType
<1>10. flags' = [f.value.flags EXCEPT !.i = 1, !.u = 1]
  <2> DEFINE g == [Unpack(y) EXCEPT !.u = 1]
  <2>1. Unpack(y) \in Flags
    BY <1>6, UnpackType
  <2>2. g \in Flags
    BY <2>1 DEF Flags
  <2>3. P' = Pack(g)
    BY <1>6, <1>7, WithBits
  <2> HIDE DEF g
  <2>4. flags' = g
    BY <1>7, <2>2, <2>3, UnpackPack
  <2> QED
    BY <1>2, <1>6, <2>4 DEF g, Flags
<1>11. stack_point' \in 0 .. PullLimit /\ pc' \in 0 .. WordSize
  BY <1>2, <1>8, SpTypes, Words DEF Ceiling
<1>12. TypeOK'
  BY <1>8, <1>9, <1>11 DEF Good, TypeOK, RTI
<1>13. stack_point' = Last(frames).at
  BY <1>1, <1>8
<1>14. Good'
  BY <1>8, <1>12, <1>13, PullKeeps
<1> QED
  BY <1>1, <1>2, <1>8, <1>10, <1>14 DEF Returned

-----------------------------------------------------------------------------
(* The invariant and what follows from it.                                  *)

(* A step that leaves the program sound began in a sound one and is one of  *)
(* the instructions above: it ends in a good state, spares the other pages  *)
(* and, if it takes a frame away, returns it.                               *)
LEMMA SoundStep ==
  ASSUME Inv, [HNext]_historyVars, sound'
  PROVE  /\ Good' /\ Spared
         /\ Len(frames') < Len(frames) => Returned(Last(frames))
<1> DEFINE Fine == /\ Good' /\ Spared
                   /\ Len(frames') < Len(frames) => Returned(Last(frames))
<1>1. Good
  BY DEF Inv, HNext, Keeps, historyVars
<1>2. Len(frames) \in Nat /\ frames \in Seq(FrameSet)
  BY <1>1 DEF Good
<1>3. ASSUME NEW f \in FrameSet, frames' = Append(frames, f)
      PROVE  ~(Len(frames') < Len(frames))
  BY <1>2, <1>3
<1>4. ASSUME Good', Spared, UNCHANGED frames PROVE Fine
  BY <1>2, <1>4
<1>5. ASSUME mem' = mem PROVE Spared
  BY <1>5 DEF Spared
<1>6. CASE UNCHANGED historyVars
  <2>1. Good'
    BY <1>1, <1>6, StayKeeps DEF historyVars, vars, Good, TypeOK
  <2> QED
    BY <1>4, <1>5, <1>6, <2>1 DEF historyVars, vars
<1>7. CASE RaiseNmi /\ Keeps
  <2>1. UNCHANGED <<stack_point, mem, frames>>
    BY <1>7 DEF RaiseNmi, Keeps
  <2>2. TypeOK'
    BY <1>1, <1>7 DEF RaiseNmi, Good, TypeOK
  <2> QED
    BY <1>1, <1>4, <1>5, <2>1, <2>2, StayKeeps
<1>8. CASE (LDA \/ LDX \/ SEC \/ CLC \/ CLI \/ TSX) /\ Keeps
  <2>1. Good'
    <3>1. UNCHANGED frames /\ (LDA \/ LDX \/ SEC \/ CLC \/ CLI \/ TSX)
      BY <1>8 DEF Keeps
    <3> QED
      BY <1>1, <3>1, PlainKeeps, Zenon
  <2>2. mem' = mem
    BY <1>8 DEF LDA, LDX, SEC, CLC, CLI, TSX
  <2> QED
    BY <1>4, <1>5, <1>8, <2>1, <2>2 DEF Keeps
<1>9. CASE TXS /\ sound' = (X = stack_point) /\ UNCHANGED frames
  <2>1. Good'
    BY <1>1, <1>9, PlainKeeps
  <2>2. mem' = mem
    BY <1>9 DEF TXS
  <2> QED
    BY <1>4, <1>5, <1>9, <2>1, <2>2
<1>10. CASE BRK /\ sound' = (frames = <<>> /\ stack_point > 0) /\ UNCHANGED frames
  <2>1. Good' /\ Spared
    BY <1>1, <1>10, BrkKeeps
  <2> QED
    BY <1>4, <1>10, <2>1
<1>11. CASE PHA /\ Pushes(Frame("data", 1, A))
  <2>1. stack_point >= 1 /\ frames' = Append(frames, Frame("data", 1, A))
    BY <1>11 DEF Pushes, Frame
  <2>2. Good' /\ Spared
    BY <1>1, <1>11, <2>1, PhaKeeps
  <2> QED
    BY <1>2, <2>1, <2>2
<1>12. CASE PHP /\ Pushes(Frame("status", 1, WithBit(WithBit(P, 16), 32)))
  <2>1. /\ stack_point >= 1
        /\ frames' = Append(frames, Frame("status", 1, WithBit(WithBit(P, 16), 32)))
    BY <1>12 DEF Pushes, Frame
  <2>2. Good' /\ Spared
    BY <1>1, <1>12, <2>1, PhpKeeps
  <2> QED
    BY <1>2, <2>1, <2>2
<1>13. CASE JSR /\ Pushes(Frame("call", 2, (pc + 2) % WordSize))
  <2>1. /\ stack_point >= 2
        /\ frames' = Append(frames, Frame("call", 2, (pc + 2) % WordSize))
    BY <1>13 DEF Pushes, Frame
  <2>2. Good' /\ Spared
    BY <1>1, <1>13, <2>1, JsrKeeps
  <2> QED
    BY <1>2, <2>1, <2>2
<1>14. CASE pc < WordSize /\ TakeNmi /\ Pushes(Frame("nmi", 3, [pc |-> pc, flags |-> flags]))
  <2>1. /\ stack_point >= 3
        /\ frames' = Append(frames, Frame("nmi", 3, [pc |-> pc, flags |-> flags]))
    BY <1>14 DEF Pushes, Frame
  <2>2. Good' /\ Spared
    BY <1>1, <1>14, <2>1, NmiKeeps
  <2> QED
    BY <1>2, <2>1, <2>2
<1>15. CASE PLA /\ Pulls("data")
  <2>1. frames # <<>> /\ Last(frames).kind = "data" /\ frames' = Front(frames)
    BY <1>15 DEF Pulls
  <2>2. mem' = mem
    BY <1>15 DEF PLA
  <2> QED
    BY <1>1, <1>5, <1>15, <2>1, <2>2, PlaKeeps
<1>16. CASE PLP /\ Pulls("status")
  <2>1. frames # <<>> /\ Last(frames).kind = "status" /\ frames' = Front(frames)
    BY <1>16 DEF Pulls
  <2>2. mem' = mem
    BY <1>16 DEF PLP
  <2> QED
    BY <1>1, <1>5, <1>16, <2>1, <2>2, PlpKeeps
<1>17. CASE RTS /\ Pulls("call")
  <2>1. frames # <<>> /\ Last(frames).kind = "call" /\ frames' = Front(frames)
    BY <1>17 DEF Pulls
  <2>2. mem' = mem
    BY <1>17 DEF RTS
  <2> QED
    BY <1>1, <1>5, <1>17, <2>1, <2>2, RtsKeeps
<1>18. CASE RTI /\ Pulls("nmi")
  <2>1. frames # <<>> /\ Last(frames).kind = "nmi" /\ frames' = Front(frames)
    BY <1>18 DEF Pulls
  <2>2. mem' = mem
    BY <1>18 DEF RTI
  <2> QED
    BY <1>1, <1>5, <1>18, <2>1, <2>2, RtiKeeps
<1> QED
  <2>1. CASE pc < WordSize /\ HInstruction
    BY <1>8, <1>9, <1>10, <1>11, <1>12, <1>13, <1>14, <1>15, <1>16, <1>17, <1>18, <2>1,
       Zenon DEF HInstruction
  <2>2. (pc < WordSize /\ HInstruction) \/ (RaiseNmi /\ Keeps) \/ UNCHANGED historyVars
    BY DEF HNext
  <2> QED
    BY <1>6, <1>7, <2>1, <2>2

LEMMA Invariance == HSpec => []Inv
<1>1. HInit => Inv
  <2> SUFFICES ASSUME HInit PROVE Good
    BY DEF Inv
  <2>1. stack_point = StackSize - 3 /\ frames = <<>> /\ Len(frames) = 0
    BY DEF HInit, Init
  <2>2. pc \in 0 .. WordSize
    BY StackAssumption, Words DEF HInit, Init
  <2>3. stack_point \in 0 .. PullLimit
    BY <2>1, StackAssumption
  <2>4. flags \in Flags
    BY DEF HInit, Init, Flags
  <2>5. P \in Byte /\ A \in Byte /\ X \in Byte /\ mem \in [0 .. MemSize - 1 -> Byte]
    BY DEF HInit, Init, Byte, PageBytes
  <2>6. TypeOK
    BY <2>2, <2>3, <2>4, <2>5 DEF TypeOK, HInit, Init
  <2>7. stack_point <= Ceiling /\ frames \in Seq(FrameSet)
    BY <2>1, StackAssumption DEF Ceiling
  <2> QED
    BY <2>1, <2>6, <2>7 DEF Good, Contiguous, Above, Whole
<1>2. Inv /\ [HNext]_historyVars => Inv'
  BY SoundStep DEF Inv
<1> QED
  BY <1>1, <1>2, PTL DEF HSpec

(* As long as the program is sound, every register, flag and byte of memory *)
(* keeps its range: pulls, which do not wrap the pointer, cannot carry it   *)
(* past the page, nor a return the program counter past the last address    *)
(* plus one.                                                                *)
THEOREM TypeCorrect == HSpec => [](sound => TypeOK)
<1>1. Inv => (sound => TypeOK)
  BY DEF Inv, Good
<1> QED
  BY <1>1, Invariance, PTL

(* Whatever sequence of pushes, pulls, calls, returns and interrupts a      *)
(* sound program has been through, its frames lie one below the other down  *)
(* to the pointer, each intact: translate.c's pushes and helper.c's, which  *)
(* compute their addresses apart, never write over one another's bytes.     *)
THEOREM FramesWhole == HSpec => []FramesIntact
<1>1. Inv => FramesIntact
  BY DEF Inv, Good, Contiguous, Whole, FramesIntact
<1> QED
  BY <1>1, Invariance, PTL

(* Each PLA, PLP, RTS and RTI of a sound program brings back what the       *)
(* matching push saved, and the pointer as it was before it: the flags an   *)
(* interrupt packed in helper.c are those RTI unpacks in translate.c, all   *)
(* but I and the unused bit.                                                *)
THEOREM ReturnsRestore == HSpec => Restores
<1>1. Inv /\ [HNext]_historyVars =>
        [sound' /\ Len(frames') < Len(frames)
          => LET f == Last(frames)
             IN  /\ stack_point' = f.at
                 /\ \/ f.kind = "data" /\ A' = f.value
                    \/ f.kind = "status" /\ P' = WithBit(SansBit(f.value, 16), 32)
                    \/ f.kind = "call" /\ pc' = f.value + 1
                    \/ f.kind = "nmi" /\ pc' = f.value.pc
                         /\ flags' = [f.value.flags EXCEPT !.i = 1, !.u = 1]]_historyVars
  BY SoundStep DEF Returned
<1> QED
  BY <1>1, Invariance, PTL DEF HSpec, Restores

(* No push, and no interrupt, of a sound program reaches a byte outside the *)
(* stack page.                                                              *)
THEOREM StaysInPage == HSpec => PageKept
<1>1. Inv /\ [HNext]_historyVars =>
        [sound' => \A a \in 0 .. MemSize - 1 \ (StackSize .. 2 * StackSize - 1) :
                     mem'[a] = mem[a]]_historyVars
  BY SoundStep DEF Spared
<1> QED
  BY <1>1, Invariance, PTL DEF HSpec, PageKept

=============================================================================
