-------------------------------- MODULE Drag ---------------------------------
(***************************************************************************)
(* A window that is dragged: the position of the terminal's window under   *)
(* packets of the mouse, through mouse_handler (system/terminal.cpp),      *)
(* handle_click, update_window_drag and stop_window_drag                   *)
(* (system/applications.cpp) and handle_terminal_click                     *)
(* (apps/terminal.cpp).  The browser's window has the same code, the file  *)
(* manager's the same without the maximize box.                            *)
(*                                                                         *)
(* Where the other windows and the menus are is left open: they may take   *)
(* any click that the routing of handle_click lets them have.              *)
(***************************************************************************)
EXTENDS Screen

CONSTANTS Steps,                  \* movements of the pointer, after their limit
          Taskbar,                \* 50, the rows of the taskbar
          Title,                  \* 35, the last row of the title, from the top
          WinX, WinY, WinW, WinH, \* 50, 50, 700 and 430: the window at boot
          Grip,                   \* 80; and the boxes: 70..60, 50..30, 20..5,
          MinimizeBox, MaximizeBox, CloseBox   \* columns from the right edge

RoomX == 0..(fb_width - WinW)
RoomY == 0..(fb_height - Taskbar - WinH)

ASSUME DragAssumption ==
    /\ Steps \subseteq -50..50
    /\ Taskbar \in Nat /\ Title \in Nat /\ Grip \in Nat
    /\ WinW \in Nat /\ WinH \in Nat
    /\ WinX \in RoomX /\ WinY \in RoomY
    /\ \A box \in {MinimizeBox, MaximizeBox, CloseBox} : box \subseteq 0..Grip

VARIABLES mouse_x, mouse_y, mouse_left_btn, mouse_right_btn,
          term_win   \* the window, and the drag as far as it is about it

vars == <<mouse_x, mouse_y, mouse_left_btn, mouse_right_btn, term_win>>

\* off_x and off_y are 0 unless this window is dragged.  by and held are history:
\* the button that began the drag, and whether since then the left button was always
\* down and the window never maximized.
Window == [x : RoomX, y : RoomY, open : BOOLEAN, minimized : BOOLEAN,
           maximized : BOOLEAN, focused : BOOLEAN,
           drag : {"none", "this", "other"}, off_x : Int, off_y : Int,
           by : {"none", "left", "right"}, held : BOOLEAN]

Init ==
    /\ mouse_x = StartX /\ mouse_y = StartY
    /\ mouse_left_btn = FALSE /\ mouse_right_btn = FALSE
    /\ term_win = [x |-> WinX, y |-> WinY, open |-> FALSE, minimized |-> FALSE,
                   maximized |-> FALSE, focused |-> FALSE, drag |-> "none",
                   off_x |-> 0, off_y |-> 0, by |-> "none", held |-> FALSE]
-----------------------------------------------------------------------------
(***************************************************************************)
(* Moving the window.                                                      *)
(***************************************************************************)
\* Mutant: the far edges are not looked at.
NearEdge(v, room) == IF v < 0 THEN 0 ELSE v

\* The tests of the near and of the far edge, in this order.
Fit(v, room) == LET near == IF v < 0 THEN 0 ELSE v
                IN  IF near > room THEN room ELSE near

FitX(v) == Fit(v, fb_width - WinW)
FitY(v) == Fit(v, fb_height - Taskbar - WinH)

update_window_drag(w, x, y) ==
    IF w.drag = "this" /\ ~w.maximized
    THEN [w EXCEPT !.x = FitX(x - w.off_x), !.y = FitY(y - w.off_y)]
    ELSE w

Dragged(w, drag, off_x, off_y, by, held) ==
    [w EXCEPT !.drag = drag, !.off_x = off_x, !.off_y = off_y, !.by = by, !.held = held]

\* Mutant: letting go of the button does not end the drag.
DragKept(w) == [w EXCEPT !.held = FALSE]

stop_window_drag(w) == Dragged(w, "none", 0, 0, "none", FALSE)

\* Mutant: the drag takes the offset of the one before.
OffsetKept(w, x, y, button, left) == Dragged(w, "this", w.off_x, w.off_y, button, left)

\* left: whether the left button is down.
BeginDrag(w, x, y, button, left) == Dragged(w, "this", x - w.x, y - w.y, button, left)
-----------------------------------------------------------------------------
(***************************************************************************)
(* A click.  Each operator is the set of what may become of the window.    *)
(***************************************************************************)
Left(w) == IF w.maximized THEN 0 ELSE w.x
Top(w) == IF w.maximized THEN 0 ELSE w.y
Width(w) == IF w.maximized THEN fb_width ELSE WinW
Height(w) == IF w.maximized THEN fb_height - Taskbar ELSE WinH

\* The last column and row lie just outside of what is drawn.
Hit(w, x, y) == /\ w.open /\ ~w.minimized
                /\ x \in Left(w)..(Left(w) + Width(w))
                /\ y \in Top(w)..(Top(w) + Height(w))

InTitle(w, y) == y <= Top(w) + Title
FromRight(w, x) == Left(w) + Width(w) - x

handle_terminal_click(w, x, y) ==
    IF ~InTitle(w, y) THEN w
    ELSE IF FromRight(w, x) \in MinimizeBox THEN [w EXCEPT !.minimized = TRUE]
    ELSE IF FromRight(w, x) \in MaximizeBox
         THEN [w EXCEPT !.maximized = ~w.maximized, !.held = FALSE]
    ELSE IF FromRight(w, x) \in CloseBox THEN [w EXCEPT !.open = FALSE]
    ELSE w

close_terminal(w) == [w EXCEPT !.open = FALSE, !.focused = FALSE]

\* What handle_click does itself about a title row.  w is the window the click met,
\* v what the window's own handler has made of it.
TitleRow(w, v, x, y, button, left) ==
    IF ~InTitle(w, y) \/ v.maximized THEN v
    ELSE IF FromRight(w, x) \in CloseBox THEN close_terminal(v)
    ELSE IF FromRight(w, x) > Grip THEN BeginDrag(v, x, y, button, left)
    ELSE v

FocusedClick(w, x, y, button, left) ==
    TitleRow(w, handle_terminal_click(w, x, y), x, y, button, left)

\* The window's own handler runs only for what is not the title of a window.
UnfocusedClick(w, x, y, button, left) ==
    LET v == [w EXCEPT !.focused = TRUE]
    IN  IF InTitle(w, y) /\ ~w.maximized THEN TitleRow(w, v, x, y, button, left)
                                         ELSE handle_terminal_click(v, x, y)

\* Another window takes the click, and the drag if it is its title that was hit.
OtherClick(w, button) ==
    {[w EXCEPT !.focused = FALSE],
     Dragged([w EXCEPT !.focused = FALSE], "other", 0, 0, button, FALSE)}

WindowClick(w, x, y, button, left) ==
    IF Hit(w, x, y)
    THEN IF w.focused THEN {FocusedClick(w, x, y, button, left)}
         ELSE OtherClick(w, button) \union {UnfocusedClick(w, x, y, button, left)}
    ELSE OtherClick(w, button) \union {w}

\* The task button of this window, of another one, and the rest of the bar.
TaskbarClick(w) ==
    {w, [w EXCEPT !.focused = FALSE]} \union
    {[w EXCEPT !.minimized = ~w.minimized, !.focused = TRUE] : opened \in {w.open} \ {FALSE}}

\* The menu of the applications opens this window or another one; the other menus
\* and the prompt leave the windows alone.
MenuClick(w) == {w, [w EXCEPT !.focused = FALSE],
                 [w EXCEPT !.open = TRUE, !.minimized = FALSE, !.focused = TRUE]}

handle_click(w, x, y, button, left) ==
    IF y >= fb_height - Taskbar THEN TaskbarClick(w)
                                ELSE MenuClick(w) \union WindowClick(w, x, y, button, left)
-----------------------------------------------------------------------------
(***************************************************************************)
(* A whole packet.                                                         *)
(***************************************************************************)
Moved(w, x, y, left) ==
    IF <<x, y>> # <<mouse_x, mouse_y>> /\ left /\ mouse_left_btn
    THEN update_window_drag(w, x, y) ELSE w

LeftButton(w, x, y, left) ==
    IF left /\ ~mouse_left_btn THEN handle_click(w, x, y, "left", left)
    ELSE IF ~left /\ mouse_left_btn THEN {stop_window_drag(w)}
    ELSE {w}

RightButton(w, x, y, left, right) ==
    IF right /\ ~mouse_right_btn THEN handle_click(w, x, y, "right", left) ELSE {w}

mouse_handler(dx, dy, left, right) ==
    /\ mouse_x' = NewX(mouse_x, dx)
    /\ mouse_y' = NewY(mouse_y, dy)
    /\ mouse_left_btn' = left
    /\ mouse_right_btn' = right
    /\ \E w \in LeftButton(Moved(term_win, mouse_x', mouse_y', left), mouse_x', mouse_y', left) :
           term_win' \in RightButton(w, mouse_x', mouse_y', left, right)

Next == \E dx, dy \in Steps, left, right \in BOOLEAN : mouse_handler(dx, dy, left, right)

Spec == Init /\ [][Next]_vars
-----------------------------------------------------------------------------
(***************************************************************************)
(* Properties.                                                             *)
(***************************************************************************)
\* Every variable has its type; the window has room on the screen, above the
\* taskbar, wherever and by whatever offset it is dragged.
DragTypeOK ==
    /\ mouse_x \in PointerX /\ mouse_y \in PointerY
    /\ mouse_left_btn \in BOOLEAN /\ mouse_right_btn \in BOOLEAN
    /\ term_win \in Window

\* A window that is held hangs at the point where it was taken, or is kept back by
\* an edge of the screen.
HeldAt(w, x, y) ==
    w.held => /\ w.drag = "this" /\ ~w.maximized
              /\ w.x = FitX(x - w.off_x) /\ w.y = FitY(y - w.off_y)

GrabHeld == HeldAt(term_win, mouse_x, mouse_y)

\* Only a drag that the right button began goes on, or waits, while the left button
\* is up; the window then follows the next movement with the left button down.
StrayDragIsRight ==
    term_win.drag # "none" /\ ~mouse_left_btn => term_win.by = "right"

\* The distance of two numbers.
Apart(a, b) == IF a > b THEN a - b ELSE b - a

\* While it is held, the window moves with the pointer and never further: it does
\* not jump when the drag begins, is begun again by the other button, or meets and
\* leaves an edge.
NoJump ==
    [][term_win.held /\ term_win'.held =>
         /\ Apart(term_win'.x, term_win.x) <= Apart(mouse_x', mouse_x)
         /\ Apart(term_win'.y, term_win.y) <= Apart(mouse_y', mouse_y)]_vars
=============================================================================
