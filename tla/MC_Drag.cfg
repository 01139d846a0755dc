\* A window of five by three on a screen of eight by six, with one row of taskbar.
CONSTANTS
    fb_width = 8
    fb_height = 6
    CursorW = 1
    CursorH = 1
    StartX = 1
    StartY = 1
    Steps <- OnePixel
    Taskbar = 1
    Title = 1
    WinX = 1
    WinY = 1
    WinW = 5
    WinH = 3
    Grip = 3
    MinimizeBox <- Third
    MaximizeBox <- Second
    CloseBox <- First
SPECIFICATION Spec
INVARIANTS DragTypeOK GrabHeld StrayDragIsRight
PROPERTY NoJump
