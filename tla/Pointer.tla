------------------------------- MODULE Pointer -------------------------------
(***************************************************************************)
(* The mouse driver: mouse_handler (system/terminal.cpp) puts a stream of  *)
(* bytes together to packets of three, finds where a packet begins by one  *)
(* bit of its first byte, and moves the pointer.                           *)
(*                                                                         *)
(* The mouse itself is external: a packet is a header with bit 3 set, the  *)
(* two buttons and the signs, and the low eight bits of two movements,     *)
(* upwards positive.  A byte may be lost: the boot menu reads them away,   *)
(* and nothing is read while the boot screen is shown.                     *)
(***************************************************************************)
EXTENDS Screen, Sequences

CONSTANT Moves   \* movements of the hand between two packets, of nine bits

ASSUME MovesAssumption == Moves \subseteq -256..255

VARIABLES mouse_byte,            \* the first mouse_cycle bytes of the packet
          mouse_x, mouse_y, mouse_left_btn, mouse_right_btn,
          wire,                  \* what is left of the packet the mouse sends
          hand,                  \* what that packet says
          calm                   \* history: it is whole, and only its header
                                 \* has bit 3 set

devvars == <<wire, hand, calm>>
vars == <<mouse_byte, mouse_x, mouse_y, mouse_left_btn, mouse_right_btn, devvars>>

mouse_cycle == Len(mouse_byte)

Byte == 0..255
Int8(b) == IF b % 256 < 128 THEN b % 256 ELSE (b % 256) - 256
Bit3(b) == (b \div 8) % 2 = 1
LeftBit(b) == b % 2 = 1
RightBit(b) == (b \div 2) % 2 = 1

Packet == [left : BOOLEAN, right : BOOLEAN, x : Moves, y : Moves]

Bytes(p) ==
    << 8 + (IF p.left THEN 1 ELSE 0) + (IF p.right THEN 2 ELSE 0)
         + (IF p.x < 0 THEN 16 ELSE 0) + (IF p.y < 0 THEN 32 ELSE 0),
       p.x % 256, p.y % 256 >>

Init ==
    /\ mouse_byte = <<>>
    /\ mouse_x = StartX /\ mouse_y = StartY
    /\ mouse_left_btn = FALSE /\ mouse_right_btn = FALSE
    /\ wire = <<>> /\ calm = FALSE
    /\ hand \in [left : {FALSE}, right : {FALSE}, x : {0}, y : {0}]

\* The hand moves or presses, and the mouse begins a packet.
Send(p) ==
    /\ wire = <<>>
    /\ hand' = p
    /\ wire' = Bytes(p)
    /\ calm' = ~(Bit3(Bytes(p)[2]) \/ Bit3(Bytes(p)[3]))
    /\ UNCHANGED <<mouse_byte, mouse_x, mouse_y, mouse_left_btn, mouse_right_btn>>

Lose ==
    /\ wire # <<>>
    /\ wire' = Tail(wire)
    /\ calm' = FALSE
    /\ UNCHANGED <<mouse_byte, mouse_x, mouse_y, mouse_left_btn, mouse_right_btn, hand>>
-----------------------------------------------------------------------------
\* Mutant: any byte begins a packet.
AnyByte(b) == TRUE

IsHeader(b) == Bit3(b)

Limited(d) == IF d < -50 THEN -50 ELSE IF d > 50 THEN 50 ELSE d

\* Mutant: the movement is taken for unsigned.
UnsignedX(b) == Limited(b)

\* The byte as an int8_t; the negated one is an int8_t again, so that -128 stays.
DeltaX(b) == Limited(Int8(b))
DeltaY(b) == Limited(Int8(-Int8(b)))

\* One call that finds a byte of the mouse.
mouse_handler ==
    /\ wire # <<>>
    /\ wire' = Tail(wire)
    /\ UNCHANGED <<hand, calm>>
    /\ LET b == Head(wire)
       IN  \/ /\ mouse_cycle = 0 /\ ~IsHeader(b)
              /\ UNCHANGED <<mouse_byte, mouse_x, mouse_y, mouse_left_btn, mouse_right_btn>>
           \/ /\ \/ mouse_cycle = 0 /\ IsHeader(b)
                 \/ mouse_cycle = 1
              /\ mouse_byte' = Append(mouse_byte, b)
              /\ UNCHANGED <<mouse_x, mouse_y, mouse_left_btn, mouse_right_btn>>
           \/ /\ mouse_cycle = 2
              /\ mouse_byte' = <<>>
              /\ mouse_x' = NewX(mouse_x, DeltaX(mouse_byte[2]))
              /\ mouse_y' = NewY(mouse_y, DeltaY(b))
              /\ mouse_left_btn' = LeftBit(mouse_byte[1])
              /\ mouse_right_btn' = RightBit(mouse_byte[1])

Next == \/ \E p \in Packet : Send(p)
        \/ Lose
        \/ mouse_handler

\* The main loop calls mouse_handler for ever.
Spec == Init /\ [][Next]_vars /\ WF_vars(mouse_handler)
-----------------------------------------------------------------------------
(***************************************************************************)
(* Properties.                                                             *)
(***************************************************************************)
\* Every variable has its type, and the pointer is on the screen, whatever bytes
\* were lost or taken for another's.
PointerTypeOK ==
    /\ mouse_byte \in Seq(Byte) /\ mouse_cycle <= 2
    /\ mouse_x \in PointerX /\ mouse_y \in PointerY
    /\ {mouse_left_btn, mouse_right_btn, calm} \subseteq BOOLEAN
    /\ wire \in Seq(Byte) /\ Len(wire) <= 3

\* What the driver has and what is still to come make up the packet of the hand.
InStep == mouse_byte \o wire \in {<<>>, Bytes(hand)}

\* One whole packet in which only the header looks like one is enough: whatever was
\* lost before, the driver waits for the next packet once it is read.
OnePacketSuffices == calm /\ wire = <<>> => mouse_byte = <<>>

\* After lost bytes the driver finds the beginning of a packet again, if the mouse
\* keeps sending and from some time on no byte is lost and no movement looks like
\* a header.
Resynchronises == <>[]calm /\ []<>(wire # <<>>) => <>[]InStep

\* a and b are not of opposite signs.
SameWay(a, b) == (a > 0 => b >= 0) /\ (a < 0 => b <= 0) /\ (a = 0 => b = 0)

\* A packet read in step sets the buttons the hand holds and moves the pointer the
\* way the hand went, down the screen for a movement towards the user.  The driver
\* ignores the signs in the header, so this holds of movements that fit a byte only,
\* and of -128 not even then: upside down it is -128 again.
FollowsHand ==
    [][InStep /\ mouse_cycle = 2 /\ mouse_byte' = <<>> =>
         /\ mouse_left_btn' = hand.left /\ mouse_right_btn' = hand.right
         /\ hand.x \in -128..127 => SameWay(hand.x, mouse_x' - mouse_x)
         /\ hand.y \in -127..127 => SameWay(hand.y, mouse_y - mouse_y')]_vars
=============================================================================
