---------------------------- MODULE PointerProofs ----------------------------
(***************************************************************************)
(* Proofs about Pointer, for every size of the screen and of the pointer   *)
(* and for all movements a packet can hold.                                *)
(***************************************************************************)
EXTENDS Pointer, TLAPS

Hand == [left : BOOLEAN, right : BOOLEAN, x : -256..255, y : -256..255]

\* What is left of a packet is its end.
WireEnds ==
    /\ wire \in Seq(Byte) /\ Len(wire) <= 3
    /\ \A k \in 1..Len(wire) : wire[k] = Bytes(hand)[3 - Len(wire) + k]

\* How far the driver and the packet have come, in a packet that is read whole: in
\* step, with one byte or two of an earlier packet before it, or past these.
Progress == {<<0, 3>>, <<1, 2>>, <<2, 1>>, <<0, 0>>,
             <<1, 3>>, <<2, 3>>, <<2, 2>>, <<0, 2>>, <<0, 1>>}

\* The driver never comes out of a packet without look-alikes in the middle of one.
CalmProgress ==
    calm => /\ <<mouse_cycle, Len(wire)>> \in Progress
            /\ ~Bit3(Bytes(hand)[2]) /\ ~Bit3(Bytes(hand)[3])

\* The inductive invariant.
PointerInv ==
    /\ mouse_byte \in Seq(Byte) /\ mouse_cycle <= 2
    /\ mouse_x \in PointerX /\ mouse_y \in PointerY
    /\ {mouse_left_btn, mouse_right_btn, calm} \subseteq BOOLEAN
    /\ hand \in Hand
    /\ WireEnds
    /\ CalmProgress
-----------------------------------------------------------------------------
(***************************************************************************)
(* Bytes and movements.                                                    *)
(***************************************************************************)
\* A packet's bytes are bytes, only its header has to look like one, and it tells the
\* buttons.
LEMMA PacketBytes ==
    ASSUME NEW p \in Hand
    PROVE  /\ Bytes(p) = <<Bytes(p)[1], p.x % 256, p.y % 256>>
           /\ Bytes(p) \in Seq(Byte) /\ Len(Bytes(p)) = 3
           /\ Bit3(Bytes(p)[1])
           /\ LeftBit(Bytes(p)[1]) = p.left
           /\ RightBit(Bytes(p)[1]) = p.right
<1> DEFINE l == IF p.left THEN 1 ELSE 0
           r == IF p.right THEN 2 ELSE 0
           a == IF p.x < 0 THEN 16 ELSE 0
           b == IF p.y < 0 THEN 32 ELSE 0
           h == 8 + l + r + a + b
<1>1. /\ p.left \in BOOLEAN /\ p.right \in BOOLEAN
      /\ p.x \in -256..255 /\ p.y \in -256..255
  BY DEF Hand
<1>2. Bytes(p) = <<h, p.x % 256, p.y % 256>>
  BY DEF Bytes
<1>3. /\ l \in {0, 1} /\ (l = 1 <=> p.left)
      /\ r \in {0, 2} /\ (r = 2 <=> p.right)
      /\ a \in {0, 16} /\ b \in {0, 32}
  BY <1>1
<1> HIDE DEF l, r, a, b
<1>4. h \in Byte /\ p.x % 256 \in Byte /\ p.y % 256 \in Byte
  BY <1>1, <1>3 DEF Byte
<1>5. Bit3(h) /\ (LeftBit(h) <=> l = 1) /\ (RightBit(h) <=> r = 2)
  BY <1>3 DEF Bit3, LeftBit, RightBit
<1>6. LeftBit(h) \in BOOLEAN /\ RightBit(h) \in BOOLEAN
  BY DEF LeftBit, RightBit
<1>7. LeftBit(h) = p.left /\ RightBit(h) = p.right
  BY <1>1, <1>3, <1>5, <1>6
<1> HIDE DEF h
<1> QED
  BY <1>2, <1>4, <1>5, <1>7

LEMMA DeltaBounds ==
    ASSUME NEW b \in Byte
    PROVE  DeltaX(b) \in -50..50 /\ DeltaY(b) \in -50..50
BY DEF Byte, DeltaX, DeltaY, Int8, Limited

\* A movement that fits a byte is read as it is, down to its limit, and upside down
\* too unless it is -128.
LEMMA DeltaXReads ==
    ASSUME NEW v \in -128..127
    PROVE  DeltaX(v % 256) = Limited(v)
<1>1. Int8(v % 256) = v
  BY DEF Int8
<1> QED
  BY <1>1 DEF DeltaX

LEMMA DeltaYReads ==
    ASSUME NEW v \in -127..127
    PROVE  DeltaY(v % 256) = Limited(-v)
<1>1. Int8(v % 256) = v
  BY DEF Int8
<1>2. Int8(-v) = -v
  BY DEF Int8
<1> QED
  BY <1>1, <1>2 DEF DeltaY

LEMMA ScreenRoom ==
    /\ fb_width - CursorW \in Nat /\ fb_height - CursorH \in Nat
    /\ StartX \in PointerX /\ StartY \in PointerY
BY ScreenAssumption

\* The pointer stays on the screen, and only an edge keeps it back.
LEMMA ClampedMove ==
    ASSUME NEW limit \in Nat, NEW v \in 0..limit, NEW d \in Int
    PROVE  /\ Clamped(v + d, limit) \in 0..limit
           /\ SameWay(d, Clamped(v + d, limit) - v)
           /\ d = 0 => Clamped(v + d, limit) = v
BY DEF Clamped, SameWay

LEMMA PointerMoves ==
    ASSUME NEW x \in PointerX, NEW y \in PointerY, NEW d \in Int
    PROVE  /\ NewX(x, d) \in PointerX /\ SameWay(d, NewX(x, d) - x)
           /\ NewY(y, d) \in PointerY /\ SameWay(d, NewY(y, d) - y)
           /\ NewX(x, 0) = x /\ NewY(y, 0) = y
<1>1. x \in 0..(fb_width - CursorW) /\ y \in 0..(fb_height - CursorH)
  BY DEF PointerX, PointerY
<1>2. PICK width \in Nat : width = fb_width - CursorW
  BY ScreenRoom
<1>3. PICK height \in Nat : height = fb_height - CursorH
  BY ScreenRoom
<1>4. ASSUME NEW e \in Int
      PROVE  /\ Clamped(x + e, width) \in 0..width
             /\ SameWay(e, Clamped(x + e, width) - x)
             /\ e = 0 => Clamped(x + e, width) = x
  BY <1>1, <1>2, ClampedMove
<1>5. ASSUME NEW e \in Int
      PROVE  /\ Clamped(y + e, height) \in 0..height
             /\ SameWay(e, Clamped(y + e, height) - y)
             /\ e = 0 => Clamped(y + e, height) = y
  BY <1>1, <1>3, ClampedMove
<1>6. 0 \in Int
  OBVIOUS
<1> QED
  BY <1>2, <1>3, <1>4, <1>5, <1>6 DEF NewX, NewY, PointerX, PointerY

LEMMA SameWayBack ==
    ASSUME NEW v \in Int, NEW a \in Int, NEW b \in Int, SameWay(-v, a - b)
    PROVE  SameWay(v, b - a)
BY DEF SameWay

LEMMA LimitKeepsWay ==
    ASSUME NEW v \in Int, NEW w \in Int, SameWay(Limited(v), w)
    PROVE  SameWay(v, w)
BY DEF SameWay, Limited
-----------------------------------------------------------------------------
(***************************************************************************)
(* The bytes on their way.                                                 *)
(***************************************************************************)
LEMMA TailFacts ==
    ASSUME NEW S, NEW s \in Seq(S), s # <<>>
    PROVE  /\ Len(s) \in Nat /\ Len(s) >= 1
           /\ Head(s) = s[1] /\ Head(s) \in S
           /\ Tail(s) \in Seq(S) /\ Len(Tail(s)) = Len(s) - 1
           /\ \A k \in 1..(Len(s) - 1) : Tail(s)[k] = s[k + 1]
OBVIOUS

LEMMA AppendFacts ==
    ASSUME NEW S, NEW s \in Seq(S), NEW e \in S
    PROVE  /\ Len(s) \in Nat
           /\ Append(s, e) \in Seq(S) /\ Len(Append(s, e)) = Len(s) + 1
OBVIOUS

LEMMA LenIsNatural ==
    ASSUME NEW S, NEW s \in Seq(S)
    PROVE  Len(s) \in Nat
OBVIOUS

LEMMA CycleIs ==
    ASSUME mouse_byte \in Seq(Byte), mouse_cycle <= 2
    PROVE  mouse_cycle \in 0..2 /\ mouse_cycle = Len(mouse_byte)
<1>1. mouse_cycle \in Nat
  BY LenIsNatural DEF mouse_cycle
<1>2. mouse_cycle = Len(mouse_byte)
  BY DEF mouse_cycle
<1> QED
  BY <1>1, <1>2

LEMMA EmptyFacts == <<>> \in Seq(Byte) /\ Len(<<>>) = 0
OBVIOUS

LEMMA LenZero ==
    ASSUME NEW S, NEW s \in Seq(S), Len(s) = 0
    PROVE  s = <<>>
OBVIOUS

\* The byte that comes next, and the end that is left after it.
LEMMA NextByte ==
    ASSUME WireEnds, wire # <<>>
    PROVE  /\ Len(wire) \in 1..3
           /\ Head(wire) \in Byte
           /\ Head(wire) = Bytes(hand)[4 - Len(wire)]
           /\ Tail(wire) \in Seq(Byte)
           /\ Len(Tail(wire)) = Len(wire) - 1
           /\ \A k \in 1..Len(Tail(wire)) : Tail(wire)[k] = Bytes(hand)[3 - Len(Tail(wire)) + k]
<1>1. wire \in Seq(Byte) /\ Len(wire) <= 3
  BY DEF WireEnds
<1>2. PICK l \in 1..3 : l = Len(wire)
  <2>1. PICK l \in Nat : l = Len(wire)
    BY <1>1, LenIsNatural
  <2>2. l >= 1 /\ l <= 3
    BY <1>1, <2>1, TailFacts
  <2> QED
    BY <2>1, <2>2
<1>3. /\ Head(wire) = wire[1] /\ Head(wire) \in Byte
      /\ Tail(wire) \in Seq(Byte) /\ Len(Tail(wire)) = l - 1
      /\ \A k \in 1..(l - 1) : Tail(wire)[k] = wire[k + 1]
  BY <1>1, <1>2, TailFacts
<1>4. \A k \in 1..l : wire[k] = Bytes(hand)[3 - l + k]
  BY <1>2 DEF WireEnds
<1>5. wire[1] = Bytes(hand)[4 - l]
  <2>1. 1 \in 1..l /\ 3 - l + 1 = 4 - l
    OBVIOUS
  <2> QED
    BY <1>4, <2>1
<1>6. ASSUME NEW k \in 1..(l - 1)
      PROVE  Tail(wire)[k] = Bytes(hand)[3 - (l - 1) + k]
  <2>1. k + 1 \in 1..l /\ 3 - l + (k + 1) = 3 - (l - 1) + k
    OBVIOUS
  <2> QED
    BY <1>3, <1>4, <2>1
<1> QED
  BY <1>2, <1>3, <1>5, <1>6

LEMMA WireShrinks ==
    ASSUME WireEnds, wire # <<>>, wire' = Tail(wire), UNCHANGED hand
    PROVE  WireEnds'
<1>1. /\ Len(wire) \in 1..3
      /\ Tail(wire) \in Seq(Byte)
      /\ Len(Tail(wire)) = Len(wire) - 1
      /\ \A k \in 1..Len(Tail(wire)) : Tail(wire)[k] = Bytes(hand)[3 - Len(Tail(wire)) + k]
  BY NextByte
<1> QED
  BY <1>1 DEF WireEnds

LEMMA ConcatFacts ==
    ASSUME NEW S, NEW s \in Seq(S), NEW t \in Seq(S), NEW m \in Nat, m = Len(s),
           NEW l \in Nat, l = Len(t)
    PROVE  /\ Len(s \o t) = m + l
           /\ \A k \in 1..m : (s \o t)[k] = s[k]
           /\ \A k \in 1..l : (s \o t)[m + k] = t[k]
OBVIOUS

LEMMA ConcatNotEmpty ==
    ASSUME NEW S, NEW s \in Seq(S), NEW t \in Seq(S), s # <<>>
    PROVE  s \o t # <<>>
OBVIOUS

\* The two bytes kept and the one that comes, of a packet read in step.
LEMMA TwoAndOne ==
    ASSUME NEW S, NEW s \in Seq(S), NEW t \in Seq(S), NEW u \in Seq(S)
    PROVE  Len(s) = 2 /\ Len(u) = 3 /\ s \o t = u =>
              s[1] = u[1] /\ s[2] = u[2] /\ Len(t) = 1 /\ t[1] = u[3]
<1>1. SUFFICES ASSUME Len(s) = 2, Len(u) = 3, s \o t = u
               PROVE  s[1] = u[1] /\ s[2] = u[2] /\ Len(t) = 1 /\ t[1] = u[3]
  OBVIOUS
<1>2. PICK m \in Nat : m = Len(s)
  BY LenIsNatural
<1>3. PICK l \in Nat : l = Len(t)
  BY LenIsNatural
<1>4. /\ Len(s \o t) = m + l
      /\ \A k \in 1..m : (s \o t)[k] = s[k]
      /\ \A k \in 1..l : (s \o t)[m + k] = t[k]
  BY <1>2, <1>3, ConcatFacts
<1>5. m = 2
  BY <1>1, <1>2
<1>6. m + l = 3
  BY <1>1, <1>4
<1>7. l = 1
  BY <1>5, <1>6
<1>8. 1 \in 1..m /\ 2 \in 1..m /\ 1 \in 1..l /\ m + 1 = 3
  BY <1>5, <1>7
<1>9. (s \o t)[1] = s[1] /\ (s \o t)[2] = s[2] /\ (s \o t)[3] = t[1]
  BY <1>4, <1>8, Zenon
<1> QED
  BY <1>1, <1>3, <1>7, <1>9, Zenon
-----------------------------------------------------------------------------
(***************************************************************************)
(* The invariant.                                                          *)
(***************************************************************************)
LEMMA InitSound == Init => PointerInv
<1> SUFFICES ASSUME Init PROVE PointerInv
  OBVIOUS
<1>1. mouse_byte \in Seq(Byte) /\ mouse_cycle <= 2
  BY EmptyFacts DEF Init, mouse_cycle
<1>2. WireEnds /\ CalmProgress
  BY EmptyFacts DEF Init, WireEnds, CalmProgress
<1>3. hand \in Hand
  <2>1. 0 \in -256..255 /\ FALSE \in BOOLEAN
    OBVIOUS
  <2>2. hand \in [left : {FALSE}, right : {FALSE}, x : {0}, y : {0}]
    BY DEF Init
  <2> QED
    BY <2>1, <2>2 DEF Hand
<1> QED
  BY <1>1, <1>2, <1>3, ScreenRoom DEF Init, PointerInv

LEMMA SendSound ==
    ASSUME PointerInv, NEW p \in Packet, Send(p)
    PROVE  PointerInv'
<1>1. p \in Hand
  BY MovesAssumption DEF Packet, Hand
<1>2. /\ Bytes(p) \in Seq(Byte) /\ Len(Bytes(p)) = 3
  BY <1>1, PacketBytes
<1>3. /\ hand' = p /\ wire' = Bytes(p) /\ mouse_byte' = mouse_byte
      /\ calm' = ~(Bit3(Bytes(p)[2]) \/ Bit3(Bytes(p)[3]))
  BY DEF Send
<1>4. WireEnds'
  <2>1. wire' = Bytes(hand')
    BY <1>3
  <2>2. PICK l \in Nat : l = Len(wire') /\ l = 3
    BY <1>2, <1>3
  <2>3. ASSUME NEW k \in 1..l
        PROVE  wire'[k] = Bytes(hand')[3 - l + k]
    <3>1. 3 - l + k = k
      BY <2>2
    <3> QED
      BY <2>1, <3>1, Zenon
  <2>4. wire' \in Seq(Byte) /\ l <= 3
    BY <1>2, <1>3, <2>2
  <2> QED
    BY <2>2, <2>3, <2>4 DEF WireEnds
<1>5. mouse_cycle' = mouse_cycle /\ mouse_cycle \in 0..2
  BY <1>3, CycleIs DEF mouse_cycle, PointerInv
<1>6. CalmProgress'
  <2>1. <<mouse_cycle', Len(wire')>> \in Progress
    <3>1. Len(wire') = 3
      BY <1>2, <1>3
    <3> QED
      BY <1>5, <3>1 DEF Progress
  <2>2. calm' => ~Bit3(Bytes(hand')[2]) /\ ~Bit3(Bytes(hand')[3])
    BY <1>3
  <2> QED
    BY <2>1, <2>2 DEF CalmProgress
<1>7. calm' \in BOOLEAN
  BY <1>3
<1> QED
  BY <1>1, <1>3, <1>4, <1>5, <1>6, <1>7 DEF Send, PointerInv

LEMMA LoseSound ==
    ASSUME PointerInv, Lose
    PROVE  PointerInv'
<1>1. WireEnds'
  BY WireShrinks DEF PointerInv, Lose
<1>2. CalmProgress'
  BY DEF Lose, CalmProgress
<1> QED
  BY <1>1, <1>2 DEF Lose, PointerInv, mouse_cycle

\* The three things one call can do with a byte.
Skips == /\ mouse_cycle = 0 /\ ~IsHeader(Head(wire))
         /\ UNCHANGED <<mouse_byte, mouse_x, mouse_y, mouse_left_btn, mouse_right_btn>>

Keeps == /\ \/ mouse_cycle = 0 /\ IsHeader(Head(wire))
            \/ mouse_cycle = 1
         /\ mouse_byte' = Append(mouse_byte, Head(wire))
         /\ UNCHANGED <<mouse_x, mouse_y, mouse_left_btn, mouse_right_btn>>

Completes == /\ mouse_cycle = 2
             /\ mouse_byte' = <<>>
             /\ mouse_x' = NewX(mouse_x, DeltaX(mouse_byte[2]))
             /\ mouse_y' = NewY(mouse_y, DeltaY(Head(wire)))
             /\ mouse_left_btn' = LeftBit(mouse_byte[1])
             /\ mouse_right_btn' = RightBit(mouse_byte[1])

LEMMA HandlerCases ==
    ASSUME mouse_handler
    PROVE  /\ wire # <<>> /\ wire' = Tail(wire) /\ UNCHANGED <<hand, calm>>
           /\ Skips \/ Keeps \/ Completes
BY DEF mouse_handler, Skips, Keeps, Completes

LEMMA KeptBytes ==
    ASSUME PointerInv, mouse_cycle = 2
    PROVE  mouse_byte[1] \in Byte /\ mouse_byte[2] \in Byte
<1>1. mouse_byte \in Seq(Byte) /\ Len(mouse_byte) = 2
  BY DEF PointerInv, mouse_cycle
<1> QED
  BY <1>1

LEMMA HandlerSound ==
    ASSUME PointerInv, mouse_handler
    PROVE  PointerInv'
<1>1. /\ wire # <<>> /\ wire' = Tail(wire) /\ UNCHANGED <<hand, calm>>
      /\ Skips \/ Keeps \/ Completes
  BY HandlerCases
<1>2. /\ WireEnds /\ mouse_byte \in Seq(Byte) /\ mouse_x \in PointerX /\ mouse_y \in PointerY
      /\ mouse_cycle = Len(mouse_byte) /\ mouse_cycle \in 0..2
  BY CycleIs DEF PointerInv
<1>3. WireEnds'
  BY <1>1, <1>2, WireShrinks
<1>4. PICK l \in 1..3 : /\ l = Len(wire) /\ Len(wire') = l - 1
                        /\ Head(wire) \in Byte /\ Head(wire) = Bytes(hand)[4 - l]
  BY <1>1, <1>2, NextByte
<1>5. calm => /\ <<mouse_cycle, l>> \in Progress
              /\ ~Bit3(Bytes(hand)[2]) /\ ~Bit3(Bytes(hand)[3])
  BY <1>4 DEF PointerInv, CalmProgress
<1>6. hand \in Hand
  BY DEF PointerInv
<1>7. ASSUME mouse_cycle' \in 0..2, calm => <<mouse_cycle', l - 1>> \in Progress
      PROVE  CalmProgress'
  BY <1>1, <1>4, <1>5, <1>7 DEF CalmProgress
<1>8. CASE Skips
  <2>1. mouse_cycle = 0 /\ mouse_cycle' = 0 /\ mouse_byte' = mouse_byte
    BY <1>8, <1>2 DEF Skips, mouse_cycle
  <2>2. l # 3
    <3>1. Bit3(Bytes(hand)[1])
      BY <1>6, PacketBytes
    <3>2. ~Bit3(Bytes(hand)[4 - l])
      BY <1>4, <1>8 DEF Skips, IsHeader
    <3> QED
      BY <3>1, <3>2
  <2>3. calm => <<0, l - 1>> \in Progress
    BY <1>5, <2>1, <2>2 DEF Progress
  <2>4. CalmProgress'
    BY <1>7, <2>1, <2>3
  <2> QED
    BY <1>1, <1>2, <1>3, <1>8, <2>1, <2>4 DEF PointerInv, Skips
<1>9. CASE Keeps
  <2>1. /\ mouse_byte' \in Seq(Byte)
        /\ mouse_cycle' = mouse_cycle + 1 /\ mouse_cycle \in {0, 1}
    BY <1>2, <1>4, <1>9, AppendFacts DEF Keeps, mouse_cycle
  <2>2. calm => (mouse_cycle = 0 => l = 3)
    BY <1>4, <1>5, <1>9 DEF Keeps, IsHeader, Progress
  <2>3. calm => <<mouse_cycle + 1, l - 1>> \in Progress
    BY <1>5, <2>1, <2>2 DEF Progress
  <2>4. CalmProgress'
    BY <1>7, <2>1, <2>3
  <2> QED
    BY <1>1, <1>2, <1>3, <1>9, <2>1, <2>4 DEF PointerInv, Keeps
<1>10. CASE Completes
  <2>1. mouse_cycle = 2 /\ mouse_cycle' = 0 /\ mouse_byte' \in Seq(Byte)
    BY <1>10, EmptyFacts DEF Completes, mouse_cycle
  <2>2. calm => <<0, l - 1>> \in Progress
    BY <1>5, <2>1 DEF Progress
  <2>3. CalmProgress'
    BY <1>7, <2>1, <2>2
  <2>4. DeltaX(mouse_byte[2]) \in Int /\ DeltaY(Head(wire)) \in Int
    <3>1. mouse_byte[2] \in Byte /\ Head(wire) \in Byte
      BY <1>4, <2>1, KeptBytes
    <3>2. DeltaX(mouse_byte[2]) \in -50..50 /\ DeltaY(Head(wire)) \in -50..50
      BY <3>1, DeltaBounds
    <3> QED
      BY <3>2
  <2>5. mouse_x' \in PointerX /\ mouse_y' \in PointerY
    BY <1>2, <1>10, <2>4, PointerMoves DEF Completes
  <2>6. mouse_left_btn' \in BOOLEAN /\ mouse_right_btn' \in BOOLEAN
    BY <1>10 DEF Completes, LeftBit, RightBit
  <2> QED
    BY <1>1, <1>3, <2>1, <2>3, <2>5, <2>6 DEF PointerInv
<1> QED
  BY <1>1, <1>8, <1>9, <1>10

LEMMA NextSound == PointerInv /\ [Next]_vars => PointerInv'
<1> SUFFICES ASSUME PointerInv, [Next]_vars PROVE PointerInv'
  OBVIOUS
<1>1. CASE UNCHANGED vars
  BY <1>1 DEF vars, devvars, PointerInv, WireEnds, CalmProgress, mouse_cycle
<1> QED
  BY <1>1, SendSound, LoseSound, HandlerSound DEF Next
-----------------------------------------------------------------------------
(***************************************************************************)
(* The theorems.                                                           *)
(***************************************************************************)
\* The types, the pointer's place, and how far the driver and a calm packet have come
\* are inductive together.
THEOREM PointerInductive == Spec => []PointerInv
BY InitSound, NextSound, PTL DEF Spec

\* The pointer is on the screen and at most two bytes are kept, whatever bytes were
\* lost or taken for another's.
THEOREM PointerTypeCorrect == Spec => []PointerTypeOK
<1>1. PointerInv => PointerTypeOK
  BY DEF PointerInv, PointerTypeOK, WireEnds
<1> QED
  BY <1>1, PointerInductive, PTL

\* Whatever was lost before, the driver stands at the beginning of a packet once it has
\* read one whole packet in which only the header looks like one.
THEOREM OnePacketIsEnough == Spec => []OnePacketSuffices
<1>1. PointerInv => OnePacketSuffices
  <2> SUFFICES ASSUME PointerInv, calm, wire = <<>> PROVE mouse_byte = <<>>
    BY DEF OnePacketSuffices
  <2>1. mouse_byte \in Seq(Byte) /\ <<mouse_cycle, 0>> \in Progress
    BY EmptyFacts DEF PointerInv, CalmProgress
  <2>2. Len(mouse_byte) = 0
    BY <2>1 DEF Progress, mouse_cycle
  <2> QED
    BY <2>1, <2>2
<1> QED
  BY <1>1, PointerInductive, PTL

\* A driver in step has the first bytes of the packet and the wire the others.
LEMMA InStepMeans ==
    ASSUME PointerInv, InStep, mouse_cycle = 2
    PROVE  /\ mouse_byte[1] = Bytes(hand)[1] /\ mouse_byte[2] = Bytes(hand)[2]
           /\ Len(wire) = 1 /\ wire[1] = Bytes(hand)[3]
<1>1. /\ mouse_byte \in Seq(Byte) /\ Len(mouse_byte) = 2 /\ wire \in Seq(Byte)
  BY DEF PointerInv, WireEnds, mouse_cycle
<1>2. Bytes(hand) \in Seq(Byte) /\ Len(Bytes(hand)) = 3
  BY PacketBytes DEF PointerInv
<1>3. mouse_byte \o wire # <<>>
  <2>1. mouse_byte # <<>>
    BY <1>1, EmptyFacts
  <2> QED
    BY <1>1, <2>1, ConcatNotEmpty
<1>4. mouse_byte \o wire = Bytes(hand)
  BY <1>3 DEF InStep
<1> QED
  BY <1>1, <1>2, <1>4, TwoAndOne

\* A packet read in step does what the hand did, on every screen and for every
\* movement that fits a byte.
THEOREM HandIsFollowed == Spec => FollowsHand
<1> DEFINE Follows ==
       InStep /\ mouse_cycle = 2 /\ mouse_byte' = <<>> =>
         /\ mouse_left_btn' = hand.left /\ mouse_right_btn' = hand.right
         /\ hand.x \in -128..127 => SameWay(hand.x, mouse_x' - mouse_x)
         /\ hand.y \in -127..127 => SameWay(hand.y, mouse_y - mouse_y')
<1>1. ASSUME PointerInv, [Next]_vars PROVE Follows
  <2> SUFFICES ASSUME InStep, mouse_cycle = 2, mouse_byte' = <<>>
               PROVE  /\ mouse_left_btn' = hand.left /\ mouse_right_btn' = hand.right
                      /\ hand.x \in -128..127 => SameWay(hand.x, mouse_x' - mouse_x)
                      /\ hand.y \in -127..127 => SameWay(hand.y, mouse_y - mouse_y')
    OBVIOUS
  <2>1. mouse_byte # <<>>
    BY EmptyFacts DEF mouse_cycle
  <2>2. mouse_handler
    BY <1>1, <2>1 DEF Next, Send, Lose, vars
  <2>3. wire # <<>> /\ Completes
    <3>1. ~Skips /\ ~Keeps
      BY DEF Skips, Keeps
    <3> QED
      BY <2>2, <3>1, HandlerCases
  <2>4. /\ mouse_byte[1] = Bytes(hand)[1] /\ mouse_byte[2] = Bytes(hand)[2]
        /\ Len(wire) = 1 /\ wire[1] = Bytes(hand)[3]
    BY <1>1, InStepMeans
  <2>5. Head(wire) = Bytes(hand)[3]
    <3>1. wire \in Seq(Byte)
      BY <1>1 DEF PointerInv, WireEnds
    <3> QED
      BY <2>3, <2>4, <3>1, TailFacts
  <2>6. hand \in Hand
    BY <1>1 DEF PointerInv
  <2>7. /\ Bytes(hand)[2] = hand.x % 256 /\ Bytes(hand)[3] = hand.y % 256
        /\ LeftBit(Bytes(hand)[1]) = hand.left /\ RightBit(Bytes(hand)[1]) = hand.right
    <3>1. Bytes(hand) = <<Bytes(hand)[1], hand.x % 256, hand.y % 256>>
      BY <2>6, PacketBytes
    <3>2. LeftBit(Bytes(hand)[1]) = hand.left /\ RightBit(Bytes(hand)[1]) = hand.right
      BY <2>6, PacketBytes
    <3> QED
      BY <3>1, <3>2
  <2>8. /\ mouse_left_btn' = hand.left /\ mouse_right_btn' = hand.right
        /\ mouse_x' = NewX(mouse_x, DeltaX(hand.x % 256))
        /\ mouse_y' = NewY(mouse_y, DeltaY(hand.y % 256))
    BY <2>3, <2>4, <2>5, <2>7 DEF Completes
  <2>9. mouse_x \in PointerX /\ mouse_y \in PointerY
    BY <1>1 DEF PointerInv
  <2>10. ASSUME hand.x \in -128..127
         PROVE  SameWay(hand.x, mouse_x' - mouse_x)
    <3>1. PICK v \in -128..127 : v = hand.x
      BY <2>10
    <3>2. mouse_x' = NewX(mouse_x, Limited(v)) /\ Limited(v) \in Int
      <4>1. DeltaX(v % 256) = Limited(v)
        BY DeltaXReads
      <4>2. Limited(v) \in Int
        BY DEF Limited
      <4> QED
        BY <2>8, <3>1, <4>1, <4>2
    <3>3. SameWay(Limited(v), mouse_x' - mouse_x) /\ mouse_x' \in PointerX
      BY <2>9, <3>2, PointerMoves
    <3>4. mouse_x' - mouse_x \in Int
      BY <2>9, <3>3 DEF PointerX
    <3> QED
      BY <3>1, <3>3, <3>4, LimitKeepsWay
  <2>11. ASSUME hand.y \in -127..127
         PROVE  SameWay(hand.y, mouse_y - mouse_y')
    <3>1. PICK v \in -127..127 : v = hand.y
      BY <2>11
    <3>2. mouse_y' = NewY(mouse_y, Limited(-v)) /\ Limited(-v) \in Int
      <4>1. DeltaY(v % 256) = Limited(-v)
        BY DeltaYReads
      <4>2. Limited(-v) \in Int
        BY DEF Limited
      <4> QED
        BY <2>8, <3>1, <4>1, <4>2
    <3>3. SameWay(Limited(-v), mouse_y' - mouse_y) /\ mouse_y' \in PointerY
      BY <2>9, <3>2, PointerMoves
    <3>4. mouse_y' \in Int /\ mouse_y \in Int
      BY <2>9, <3>3 DEF PointerY
    <3>5. SameWay(-v, mouse_y' - mouse_y)
      BY <3>3, <3>4, LimitKeepsWay
    <3>6. SameWay(v, mouse_y - mouse_y')
      BY <3>4, <3>5, SameWayBack
    <3> QED
      BY <3>1, <3>6
  <2> QED
    BY <2>8, <2>10, <2>11
<1>2. PointerInv /\ [Next]_vars => [Follows]_vars
  BY <1>1
<1>3. FollowsHand <=> [][Follows]_vars
  BY PTL DEF FollowsHand
<1> QED
  BY <1>2, <1>3, PointerInductive, PTL DEF Spec

\* Only a lost byte brings the driver out of step, also for movements that look like a
\* header.
THEOREM InStepUntilLoss == Spec => [][InStep /\ ~Lose => InStep']_vars
<1> DEFINE Stays == InStep /\ ~Lose => InStep'
<1>1. ASSUME PointerInv, [Next]_vars PROVE Stays
  <2> SUFFICES ASSUME InStep, ~Lose PROVE InStep'
    OBVIOUS
  <2>1. /\ mouse_byte \in Seq(Byte) /\ wire \in Seq(Byte) /\ hand \in Hand
        /\ mouse_cycle \in 0..2 /\ mouse_cycle = Len(mouse_byte)
    BY <1>1, CycleIs DEF PointerInv, WireEnds
  <2>2. Bytes(hand) \in Seq(Byte) /\ Len(Bytes(hand)) = 3 /\ Bit3(Bytes(hand)[1])
    BY <2>1, PacketBytes
  <2>3. CASE UNCHANGED vars
    BY <2>3 DEF vars, devvars, InStep
  <2>4. ASSUME NEW p \in Packet, Send(p)
        PROVE  InStep'
    <3>1. mouse_byte \o wire = mouse_byte
      BY <2>1, <2>4 DEF Send
    <3>2. mouse_byte # Bytes(hand)
      <4>1. mouse_cycle # 3
        <5>1. mouse_cycle \in 0..2
          BY <2>1
        <5> QED
          BY <5>1
      <4>2. mouse_byte = Bytes(hand) => mouse_cycle = 3
        BY <2>2 DEF mouse_cycle
      <4> QED
        BY <4>1, <4>2
    <3>3. mouse_byte = <<>>
      BY <3>1, <3>2 DEF InStep
    <3>4. Bytes(p) \in Seq(Byte)
      BY PacketBytes, MovesAssumption DEF Packet, Hand
    <3>5. <<>> \o Bytes(p) = Bytes(p)
      BY <3>4
    <3> QED
      BY <2>4, <3>3, <3>5 DEF Send, InStep
  <2>5. CASE mouse_handler
    <3>1. /\ wire # <<>> /\ wire' = Tail(wire) /\ UNCHANGED <<hand, calm>>
          /\ Skips \/ Keeps \/ Completes
      BY <2>5, HandlerCases
    <3>2. mouse_byte \o wire = Bytes(hand)
      <4>1. mouse_byte \o wire # <<>>
        BY <2>1, <3>1
      <4> QED
        BY <4>1 DEF InStep
    <3>3. CASE Skips
      <4>1. mouse_byte = <<>> /\ ~Bit3(Head(wire))
        <5>1. mouse_cycle = 0 /\ ~Bit3(Head(wire))
          BY <3>3 DEF Skips, IsHeader
        <5>2. Len(mouse_byte) = 0
          BY <2>1, <5>1
        <5> QED
          BY <2>1, <5>1, <5>2
      <4>2. wire = Bytes(hand)
        BY <2>1, <3>2, <4>1
      <4> QED
        BY <2>2, <4>1, <4>2
    <3>4. CASE Keeps
      <4>1. Append(mouse_byte, Head(wire)) \o Tail(wire) = mouse_byte \o wire
        BY <2>1, <3>1
      <4> QED
        BY <3>1, <3>2, <3>4, <4>1 DEF Keeps, InStep
    <3>5. CASE Completes
      <4>1. Len(wire) = 1
        BY <1>1, <3>5, InStepMeans DEF Completes
      <4>2. Tail(wire) = <<>>
        <5>1. PICK l \in Nat : l = Len(wire) /\ l = 1
          BY <4>1
        <5>2. Tail(wire) \in Seq(Byte) /\ Len(Tail(wire)) = l - 1
          BY <2>1, <3>1, <5>1, TailFacts
        <5>3. l - 1 = 0
          BY <5>1
        <5> QED
          BY <5>2, <5>3, LenZero
      <4>3. <<>> \o <<>> = <<>>
        OBVIOUS
      <4> QED
        BY <3>1, <3>5, <4>2, <4>3 DEF Completes, InStep
    <3> QED
      BY <3>1, <3>3, <3>4, <3>5
  <2> QED
    BY <1>1, <2>3, <2>4, <2>5 DEF Next
<1>2. PointerInv /\ [Next]_vars => [Stays]_vars
  BY <1>1
<1> QED
  BY <1>2, PointerInductive, PTL DEF Spec

\* Whatever bytes come, the pointer moves by at most 50 columns and 50 rows at a time,
\* the movements Drag takes for granted.
THEOREM PointerMovesInSteps ==
    Spec => [][\E dx, dy \in -50..50 : /\ mouse_x' = NewX(mouse_x, dx)
                                       /\ mouse_y' = NewY(mouse_y, dy)]_<<mouse_x, mouse_y>>
<1> DEFINE Moved == \E dx, dy \in -50..50 : /\ mouse_x' = NewX(mouse_x, dx)
                                            /\ mouse_y' = NewY(mouse_y, dy)
<1>1. ASSUME PointerInv, [Next]_vars PROVE [Moved]_<<mouse_x, mouse_y>>
  <2>1. CASE UNCHANGED <<mouse_x, mouse_y>>
    BY <2>1
  <2>2. CASE mouse_handler /\ Completes
    <3>1. wire # <<>> /\ mouse_cycle = 2
      BY <2>2, HandlerCases DEF Completes
    <3>2. mouse_byte[2] \in Byte /\ Head(wire) \in Byte
      BY <1>1, <3>1, KeptBytes, NextByte DEF PointerInv
    <3>3. DeltaX(mouse_byte[2]) \in -50..50 /\ DeltaY(Head(wire)) \in -50..50
      BY <3>2, DeltaBounds
    <3> QED
      BY <2>2, <3>3 DEF Completes
  <2> QED
    BY <1>1, <2>1, <2>2, HandlerCases DEF Next, Send, Lose, Skips, Keeps, vars
<1>2. PointerInv /\ [Next]_vars => [Moved]_<<mouse_x, mouse_y>>
  BY <1>1
<1> QED
  BY <1>2, PointerInductive, PTL DEF Spec
=============================================================================
