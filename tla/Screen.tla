------------------------------- MODULE Screen --------------------------------
(***************************************************************************)
(* The framebuffer and the pointer on it: what mouse_handler               *)
(* (system/terminal.cpp) makes of a movement.                              *)
(***************************************************************************)
EXTENDS Integers

CONSTANTS fb_width, fb_height,   \* of the framebuffer, in pixels
          CursorW, CursorH,      \* 11 and 16
          StartX, StartY         \* 400 and 300, where the pointer is at boot

PointerX == 0..(fb_width - CursorW)
PointerY == 0..(fb_height - CursorH)

ASSUME ScreenAssumption ==
    /\ fb_width \in Nat /\ fb_height \in Nat
    /\ CursorW \in 1..fb_width /\ CursorH \in 1..fb_height
    /\ StartX \in PointerX /\ StartY \in PointerY

Clamped(v, limit) == IF v < 0 THEN 0 ELSE IF v >= limit THEN limit ELSE v

NewX(x, dx) == Clamped(x + dx, fb_width - CursorW)
NewY(y, dy) == Clamped(y + dy, fb_height - CursorH)
=============================================================================
