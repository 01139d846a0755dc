----------------------------- MODULE DragProofs ------------------------------
(***************************************************************************)
(* Proofs about Drag, for every size of the screen, of the window and of   *)
(* its boxes.                                                              *)
(***************************************************************************)
EXTENDS Drag, TLAPS

\* What the proofs carry through the parts of a packet, for the window w, the pointer
\* at x and y, and the left button: the properties, and that nothing is held while the
\* button is up, without which a movement could leave a held window behind.
Sound(w, x, y, left) ==
    /\ w \in Window
    /\ HeldAt(w, x, y)
    /\ w.held => left
    /\ w.drag # "none" /\ ~left => w.by = "right"

DragInv ==
    /\ mouse_x \in PointerX /\ mouse_y \in PointerY
    /\ mouse_left_btn \in BOOLEAN /\ mouse_right_btn \in BOOLEAN
    /\ Sound(term_win, mouse_x, mouse_y, mouse_left_btn)
-----------------------------------------------------------------------------
(***************************************************************************)
(* The edges.                                                              *)
(***************************************************************************)
LEMMA Rooms == /\ fb_width - WinW \in Nat
               /\ fb_height - Taskbar - WinH \in Nat
BY ScreenAssumption, DragAssumption DEF RoomX, RoomY

\* Fit puts every number into its room.
LEMMA FitInRoom ==
    ASSUME NEW v \in Int, NEW room \in Nat
    PROVE  Fit(v, room) \in 0..room
BY DEF Fit

\* What is in its room stays where it is.
LEMMA FitStays ==
    ASSUME NEW room \in Nat, NEW v \in 0..room
    PROVE  Fit(v, room) = v
BY DEF Fit

\* Fit brings no two numbers further apart.
LEMMA FitBringsTogether ==
    ASSUME NEW u \in Int, NEW v \in Int, NEW room \in Nat
    PROVE  Apart(Fit(u, room), Fit(v, room)) <= Apart(u, v)
BY DEF Fit, Apart

\* The pointer stays on the screen.
LEMMA PointerStays ==
    ASSUME NEW x \in PointerX, NEW y \in PointerY, NEW dx \in Steps, NEW dy \in Steps
    PROVE  NewX(x, dx) \in PointerX /\ NewY(y, dy) \in PointerY
<1>1. dx \in Int /\ dy \in Int
  BY DragAssumption
<1>2. fb_width - CursorW \in Nat /\ fb_height - CursorH \in Nat
  BY ScreenAssumption
<1> QED
  BY <1>1, <1>2 DEF NewX, NewY, Clamped, PointerX, PointerY
-----------------------------------------------------------------------------
(***************************************************************************)
(* The parts of a packet keep the window sound.                            *)
(***************************************************************************)
\* A window that starts to be dragged is held where it is.
LEMMA BeginDragSound ==
    ASSUME NEW x \in Int, NEW y \in Int, NEW left \in BOOLEAN,
           NEW button \in {"left", "right"}, left \/ button = "right",
           NEW w, Sound(w, x, y, left), ~w.maximized
    PROVE  Sound(BeginDrag(w, x, y, button, left), x, y, left)
<1> DEFINE v == BeginDrag(w, x, y, button, left)
<1>1. w \in Window
  BY DEF Sound
<1>2. w.x \in RoomX /\ w.y \in RoomY
  BY <1>1 DEF Window
<1>3. /\ v \in Window
      /\ v.x = w.x /\ v.y = w.y /\ v.drag = "this" /\ ~v.maximized
      /\ v.off_x = x - w.x /\ v.off_y = y - w.y /\ v.by = button /\ v.held = left
  <2>1. x - w.x \in Int /\ y - w.y \in Int
    BY <1>2, Rooms DEF RoomX, RoomY
  <2> QED
    BY <1>1, <2>1 DEF BeginDrag, Dragged, Window
<1>4. v.x = FitX(x - v.off_x) /\ v.y = FitY(y - v.off_y)
  <2>1. x - (x - w.x) = w.x /\ y - (y - w.y) = w.y
    BY <1>2, Rooms DEF RoomX, RoomY
  <2>2. FitX(w.x) = w.x /\ FitY(w.y) = w.y
    BY <1>2, Rooms, FitStays DEF FitX, FitY, RoomX, RoomY
  <2> QED
    BY <1>3, <2>1, <2>2
<1> QED
  BY <1>3, <1>4 DEF Sound, HeldAt

\* The moves that leave the drag and the place alone, or end what is held.
LEMMA FlagsSound ==
    ASSUME NEW x \in Int, NEW y \in Int, NEW left \in BOOLEAN,
           NEW w, Sound(w, x, y, left)
    PROVE  /\ Sound([w EXCEPT !.minimized = TRUE], x, y, left)
           /\ Sound([w EXCEPT !.minimized = ~w.minimized, !.focused = TRUE], x, y, left)
           /\ Sound([w EXCEPT !.maximized = ~w.maximized, !.held = FALSE], x, y, left)
           /\ Sound([w EXCEPT !.open = FALSE], x, y, left)
           /\ Sound([w EXCEPT !.open = FALSE, !.focused = FALSE], x, y, left)
           /\ Sound([w EXCEPT !.open = TRUE, !.minimized = FALSE, !.focused = TRUE], x, y, left)
           /\ Sound([w EXCEPT !.focused = FALSE], x, y, left)
           /\ Sound([w EXCEPT !.focused = TRUE], x, y, left)
BY DEF Sound, HeldAt, Window

LEMMA TerminalClickSound ==
    ASSUME NEW x \in Int, NEW y \in Int, NEW left \in BOOLEAN,
           NEW w, Sound(w, x, y, left)
    PROVE  Sound(handle_terminal_click(w, x, y), x, y, left)
BY FlagsSound DEF handle_terminal_click

LEMMA TitleRowSound ==
    ASSUME NEW x \in Int, NEW y \in Int, NEW left \in BOOLEAN,
           NEW button \in {"left", "right"}, left \/ button = "right",
           NEW w, NEW v, Sound(v, x, y, left)
    PROVE  Sound(TitleRow(w, v, x, y, button, left), x, y, left)
BY FlagsSound, BeginDragSound DEF TitleRow, close_terminal

\* Another window that takes the drag ends what was held.
LEMMA OtherClickSound ==
    ASSUME NEW x \in Int, NEW y \in Int, NEW left \in BOOLEAN,
           NEW button \in {"left", "right"}, left \/ button = "right",
           NEW w, Sound(w, x, y, left),
           NEW v \in OtherClick(w, button)
    PROVE  Sound(v, x, y, left)
<1>1. CASE v = [w EXCEPT !.focused = FALSE]
  BY <1>1, FlagsSound
<1>2. CASE v = Dragged([w EXCEPT !.focused = FALSE], "other", 0, 0, button, FALSE)
  <2>1. PICK off \in Int : off = 0
    OBVIOUS
  <2>2. PICK u : u = [w EXCEPT !.focused = FALSE]
    OBVIOUS
  <2>3. u \in Window
    BY <2>2 DEF Sound, Window
  <2>4. v = Dragged(u, "other", off, off, button, FALSE)
    BY <1>2, <2>1, <2>2
  <2>5. v \in Window /\ v.by = button /\ v.held = FALSE
    BY <2>3, <2>4 DEF Dragged, Window
  <2> QED BY <2>5 DEF Sound, HeldAt
<1> QED BY <1>1, <1>2 DEF OtherClick

LEMMA ClickSound ==
    ASSUME NEW x \in Int, NEW y \in Int, NEW left \in BOOLEAN,
           NEW button \in {"left", "right"}, left \/ button = "right",
           NEW w, Sound(w, x, y, left),
           NEW v \in handle_click(w, x, y, button, left)
    PROVE  Sound(v, x, y, left)
<1>0. /\ Sound([w EXCEPT !.focused = FALSE], x, y, left)
      /\ Sound([w EXCEPT !.minimized = ~w.minimized, !.focused = TRUE], x, y, left)
      /\ Sound([w EXCEPT !.open = TRUE, !.minimized = FALSE, !.focused = TRUE], x, y, left)
  BY FlagsSound
<1>1. ASSUME v \in TaskbarClick(w) PROVE Sound(v, x, y, left)
  <2>1. \/ v = w
        \/ v = [w EXCEPT !.focused = FALSE]
        \/ v = [w EXCEPT !.minimized = ~w.minimized, !.focused = TRUE]
    BY <1>1, Zenon DEF TaskbarClick
  <2> QED BY <1>0, <2>1, Zenon
<1>2. ASSUME v \in MenuClick(w) PROVE Sound(v, x, y, left)
  <2>1. \/ v = w
        \/ v = [w EXCEPT !.focused = FALSE]
        \/ v = [w EXCEPT !.open = TRUE, !.minimized = FALSE, !.focused = TRUE]
    BY <1>2, Zenon DEF MenuClick
  <2> QED BY <1>0, <2>1, Zenon
<1>3. ASSUME v \in WindowClick(w, x, y, button, left) PROVE Sound(v, x, y, left)
  <2>1. Sound(FocusedClick(w, x, y, button, left), x, y, left)
    BY TerminalClickSound, TitleRowSound DEF FocusedClick
  <2>2. Sound(UnfocusedClick(w, x, y, button, left), x, y, left)
    <3>1. Sound([w EXCEPT !.focused = TRUE], x, y, left)
      BY FlagsSound
    <3> QED BY <3>1, TerminalClickSound, TitleRowSound DEF UnfocusedClick
  <2>3. v \in OtherClick(w, button) => Sound(v, x, y, left)
    BY OtherClickSound
  <2>4. \/ v \in OtherClick(w, button)
        \/ v = FocusedClick(w, x, y, button, left)
        \/ v = UnfocusedClick(w, x, y, button, left)
        \/ v = w
    BY <1>3 DEF WindowClick
  <2> QED BY <2>1, <2>2, <2>3, <2>4
<1> QED BY <1>1, <1>2, <1>3 DEF handle_click

\* A window that is held follows the pointer; one that is not held moves into its room.
LEMMA MoveSound ==
    ASSUME DragInv, NEW x \in PointerX, NEW y \in PointerY, mouse_left_btn
    PROVE  Sound(Moved(term_win, x, y, TRUE), x, y, TRUE)
<1> DEFINE w == term_win
           v == update_window_drag(w, x, y)
<1>1. w \in Window /\ HeldAt(w, mouse_x, mouse_y) /\ x \in Int /\ y \in Int
  BY DEF DragInv, Sound, PointerX, PointerY
<1>2. CASE <<x, y>> = <<mouse_x, mouse_y>>
  BY <1>1, <1>2 DEF Moved, Sound, HeldAt
<1>3. CASE <<x, y>> # <<mouse_x, mouse_y>>
  <2>1. Moved(w, x, y, TRUE) = v
    BY <1>3 DEF Moved
  <2>2. CASE w.drag = "this" /\ ~w.maximized
    <3>1. w.off_x \in Int /\ w.off_y \in Int
      BY <1>1 DEF Window
    <3>2. FitX(x - w.off_x) \in RoomX /\ FitY(y - w.off_y) \in RoomY
      <4>1. x - w.off_x \in Int /\ y - w.off_y \in Int
        BY <1>1, <3>1
      <4> QED BY <4>1, Rooms, FitInRoom DEF FitX, FitY, RoomX, RoomY
    <3>3. v = [w EXCEPT !.x = FitX(x - w.off_x), !.y = FitY(y - w.off_y)]
      BY <2>2 DEF update_window_drag
    <3>4. /\ v \in Window /\ v.drag = "this" /\ ~v.maximized
          /\ v.x = FitX(x - v.off_x) /\ v.y = FitY(y - v.off_y)
      BY <1>1, <2>2, <3>2, <3>3 DEF Window
    <3> QED BY <2>1, <3>4 DEF Sound, HeldAt
  <2>3. CASE ~(w.drag = "this" /\ ~w.maximized)
    BY <1>1, <2>1, <2>3 DEF update_window_drag, Sound, HeldAt
  <2> QED BY <2>2, <2>3
<1> QED BY <1>2, <1>3

\* Letting go ends the drag.
LEMMA StopSound ==
    ASSUME NEW x \in Int, NEW y \in Int, NEW w \in Window
    PROVE  Sound(stop_window_drag(w), x, y, FALSE)
<1>1. PICK off \in Int : off = 0
  OBVIOUS
<1> DEFINE v == Dragged(w, "none", off, off, "none", FALSE)
<1>2. v \in Window /\ v.drag = "none" /\ v.held = FALSE
  BY DEF Dragged, Window
<1>3. stop_window_drag(w) = v
  BY <1>1 DEF stop_window_drag
<1> QED BY <1>2, <1>3 DEF Sound, HeldAt

LEMMA LeftButtonSound ==
    ASSUME DragInv, NEW x \in PointerX, NEW y \in PointerY, NEW left \in BOOLEAN,
           NEW w \in LeftButton(Moved(term_win, x, y, left), x, y, left)
    PROVE  Sound(w, x, y, left)
<1>1. x \in Int /\ y \in Int /\ term_win \in Window /\ mouse_left_btn \in BOOLEAN
  BY DEF DragInv, Sound, PointerX, PointerY
<1>2. ~left \/ ~mouse_left_btn => Moved(term_win, x, y, left) = term_win
  BY DEF Moved
<1>3. ~mouse_left_btn => ~term_win.held
  BY DEF DragInv, Sound
<1>4. CASE left /\ ~mouse_left_btn
  <2>1. Sound(term_win, x, y, left)
    BY <1>1, <1>3, <1>4 DEF Sound, HeldAt
  <2>2. w \in handle_click(term_win, x, y, "left", left)
    BY <1>2, <1>4 DEF LeftButton
  <2> QED BY <1>1, <1>4, <2>1, <2>2, ClickSound
<1>5. CASE ~left /\ mouse_left_btn
  BY <1>1, <1>2, <1>5, StopSound DEF LeftButton
<1>6. CASE left /\ mouse_left_btn
  BY <1>6, MoveSound DEF LeftButton
<1>7. CASE ~left /\ ~mouse_left_btn
  BY <1>1, <1>2, <1>3, <1>7 DEF LeftButton, DragInv, Sound, HeldAt
<1> QED BY <1>1, <1>4, <1>5, <1>6, <1>7
-----------------------------------------------------------------------------
(***************************************************************************)
(* The invariant and the theorems.                                         *)
(***************************************************************************)
LEMMA DragInit == Init => DragInv
<1> SUFFICES ASSUME Init PROVE DragInv
  OBVIOUS
<1>1. term_win \in Window
  BY DragAssumption DEF Init, Window
<1>2. ~term_win.held /\ term_win.drag = "none"
  BY DEF Init
<1> QED BY <1>1, <1>2, ScreenAssumption DEF Init, DragInv, Sound, HeldAt

LEMMA DragStep == DragInv /\ [Next]_vars => DragInv'
<1> SUFFICES ASSUME DragInv, [Next]_vars PROVE DragInv'
  OBVIOUS
<1>1. CASE Next
  <2>1. PICK dx \in Steps, dy \in Steps, left \in BOOLEAN, right \in BOOLEAN :
           mouse_handler(dx, dy, left, right)
    BY <1>1 DEF Next
  <2>2. mouse_x' \in PointerX /\ mouse_y' \in PointerY
    BY <2>1, PointerStays DEF mouse_handler, DragInv
  <2>3. PICK w \in LeftButton(Moved(term_win, mouse_x', mouse_y', left), mouse_x', mouse_y', left) :
           term_win' \in RightButton(w, mouse_x', mouse_y', left, right)
    BY <2>1 DEF mouse_handler
  <2>4. Sound(w, mouse_x', mouse_y', left)
    BY <2>2, <2>3, LeftButtonSound
  <2>5. Sound(term_win', mouse_x', mouse_y', left)
    <3>1. mouse_x' \in Int /\ mouse_y' \in Int
      BY <2>2 DEF PointerX, PointerY
    <3> QED BY <2>3, <2>4, <3>1, ClickSound DEF RightButton
  <2>6. mouse_left_btn' = left /\ mouse_right_btn' = right
    BY <2>1 DEF mouse_handler
  <2> QED BY <2>2, <2>5, <2>6 DEF DragInv, Sound, HeldAt
<1>2. CASE UNCHANGED vars
  BY <1>2 DEF vars, DragInv, Sound, HeldAt
<1> QED BY <1>1, <1>2

THEOREM DragInductive == Spec => []DragInv
BY DragInit, DragStep, PTL DEF Spec

\* The window never leaves the screen and never covers the taskbar.
THEOREM WindowOnScreen == Spec => []DragTypeOK
BY DragInductive, PTL DEF DragInv, Sound, DragTypeOK

\* A window that is held hangs where it was taken, as far as the edges let it.
THEOREM GrabsHold == Spec => []GrabHeld
BY DragInductive, PTL DEF DragInv, Sound, GrabHeld

\* A drag without the left button was begun by the right one.
THEOREM StrayDragsAreRight == Spec => []StrayDragIsRight
BY DragInductive, PTL DEF DragInv, Sound, StrayDragIsRight
-----------------------------------------------------------------------------
(***************************************************************************)
(* No jumps.                                                               *)
(***************************************************************************)
\* A click moves no window.
LEMMA ClickMovesNothing ==
    ASSUME NEW x, NEW y, NEW left, NEW button, NEW w \in Window,
           NEW v \in handle_click(w, x, y, button, left)
    PROVE  v.x = w.x /\ v.y = w.y
<1>1. ASSUME NEW u \in Window
      PROVE  /\ BeginDrag(u, x, y, button, left).x = u.x
             /\ BeginDrag(u, x, y, button, left).y = u.y
             /\ close_terminal(u).x = u.x /\ close_terminal(u).y = u.y
  BY DEF BeginDrag, Dragged, close_terminal, Window
<1>2. ASSUME NEW u \in Window
      PROVE  /\ handle_terminal_click(u, x, y) \in Window
             /\ handle_terminal_click(u, x, y).x = u.x
             /\ handle_terminal_click(u, x, y).y = u.y
  BY DEF handle_terminal_click, Window
<1>3. ASSUME NEW u \in Window, NEW t \in Window, t.x = u.x, t.y = u.y
      PROVE  /\ TitleRow(u, t, x, y, button, left).x = u.x
             /\ TitleRow(u, t, x, y, button, left).y = u.y
  BY <1>1, <1>3 DEF TitleRow
<1>4. /\ FocusedClick(w, x, y, button, left).x = w.x
      /\ FocusedClick(w, x, y, button, left).y = w.y
  BY <1>2, <1>3 DEF FocusedClick
<1>5. /\ UnfocusedClick(w, x, y, button, left).x = w.x
      /\ UnfocusedClick(w, x, y, button, left).y = w.y
  <2>1. PICK u : u = [w EXCEPT !.focused = TRUE]
    OBVIOUS
  <2>2. u \in Window /\ u.x = w.x /\ u.y = w.y
    BY <2>1 DEF Window
  <2>3. /\ TitleRow(w, u, x, y, button, left).x = w.x
        /\ TitleRow(w, u, x, y, button, left).y = w.y
    BY <1>3, <2>2
  <2> QED BY <1>2, <2>1, <2>2, <2>3 DEF UnfocusedClick
<1>6. v \in OtherClick(w, button) => v.x = w.x /\ v.y = w.y
  BY DEF OtherClick, Dragged, Window
<1>7. v \in TaskbarClick(w) \union MenuClick(w) => v.x = w.x /\ v.y = w.y
  BY DEF TaskbarClick, MenuClick, Window
<1>8. v \in WindowClick(w, x, y, button, left) => v.x = w.x /\ v.y = w.y
  BY <1>4, <1>5, <1>6 DEF WindowClick
<1> QED BY <1>7, <1>8 DEF handle_click

\* A window that is held moves no further than the pointer.
LEMMA MoveBounded ==
    ASSUME DragInv, NEW x \in PointerX, NEW y \in PointerY, term_win.held
    PROVE  LET w == Moved(term_win, x, y, TRUE)
           IN  /\ Apart(w.x, term_win.x) <= Apart(x, mouse_x)
               /\ Apart(w.y, term_win.y) <= Apart(y, mouse_y)
<1> DEFINE w == Moved(term_win, x, y, TRUE)
<1>1. /\ term_win \in Window /\ mouse_left_btn
      /\ term_win.drag = "this" /\ ~term_win.maximized
      /\ term_win.x = FitX(mouse_x - term_win.off_x)
      /\ term_win.y = FitY(mouse_y - term_win.off_y)
  BY DEF DragInv, Sound, HeldAt
<1>2. /\ x \in Int /\ y \in Int /\ mouse_x \in Int /\ mouse_y \in Int
      /\ term_win.off_x \in Int /\ term_win.off_y \in Int
      /\ term_win.x \in Int /\ term_win.y \in Int
  BY <1>1, Rooms DEF DragInv, PointerX, PointerY, Window, RoomX, RoomY
<1>3. CASE <<x, y>> = <<mouse_x, mouse_y>>
  BY <1>2, <1>3 DEF Moved, Apart
<1>4. CASE <<x, y>> # <<mouse_x, mouse_y>>
  <2>1. w = [term_win EXCEPT !.x = FitX(x - term_win.off_x), !.y = FitY(y - term_win.off_y)]
    BY <1>1, <1>4 DEF Moved, update_window_drag
  <2>2. w.x = FitX(x - term_win.off_x) /\ w.y = FitY(y - term_win.off_y)
    BY <1>1, <2>1 DEF Window
  <2>3. \A room \in Nat :
          /\ Apart(Fit(x - term_win.off_x, room), Fit(mouse_x - term_win.off_x, room))
               <= Apart(x - term_win.off_x, mouse_x - term_win.off_x)
          /\ Apart(Fit(y - term_win.off_y, room), Fit(mouse_y - term_win.off_y, room))
               <= Apart(y - term_win.off_y, mouse_y - term_win.off_y)
    <3>1. /\ x - term_win.off_x \in Int /\ mouse_x - term_win.off_x \in Int
          /\ y - term_win.off_y \in Int /\ mouse_y - term_win.off_y \in Int
      BY <1>2
    <3> QED BY <3>1, FitBringsTogether
  <2>4. /\ Apart(x - term_win.off_x, mouse_x - term_win.off_x) = Apart(x, mouse_x)
        /\ Apart(y - term_win.off_y, mouse_y - term_win.off_y) = Apart(y, mouse_y)
    BY <1>2 DEF Apart
  <2> QED BY <1>1, <2>2, <2>3, <2>4, Rooms DEF FitX, FitY
<1> QED BY <1>3, <1>4

\* A held window moves with the pointer and never further.
THEOREM NothingJumps == Spec => NoJump
<1> DEFINE A == term_win.held /\ term_win'.held =>
                  /\ Apart(term_win'.x, term_win.x) <= Apart(mouse_x', mouse_x)
                  /\ Apart(term_win'.y, term_win.y) <= Apart(mouse_y', mouse_y)
<1>1. DragInv /\ DragInv' /\ [Next]_vars => [A]_vars
  <2> SUFFICES ASSUME DragInv, DragInv', Next, term_win.held, term_win'.held PROVE A
    OBVIOUS
  <2>1. PICK dx \in Steps, dy \in Steps, left \in BOOLEAN, right \in BOOLEAN :
           mouse_handler(dx, dy, left, right)
    BY DEF Next
  <2>2. PICK w \in LeftButton(Moved(term_win, mouse_x', mouse_y', left), mouse_x', mouse_y', left) :
           term_win' \in RightButton(w, mouse_x', mouse_y', left, right)
    BY <2>1 DEF mouse_handler
  <2>3. left = TRUE /\ mouse_left_btn
    BY <2>1 DEF mouse_handler, DragInv, Sound
  <2>4. w = Moved(term_win, mouse_x', mouse_y', TRUE)
    BY <2>2, <2>3 DEF LeftButton
  <2>5. mouse_x' \in PointerX /\ mouse_y' \in PointerY
    BY DEF DragInv
  <2>6. term_win'.x = w.x /\ term_win'.y = w.y
    <3>1. w \in Window
      BY <2>3, <2>4, <2>5, MoveSound DEF Sound
    <3> QED BY <2>2, <3>1, ClickMovesNothing DEF RightButton
  <2> QED BY <2>4, <2>5, <2>6, MoveBounded
<1>2. NoJump <=> [][A]_vars
  BY PTL DEF NoJump
<1> QED BY <1>1, <1>2, DragInductive, PTL DEF Spec
=============================================================================
