\* Three pixels by three for the pointer: at an edge, or one from each.
CONSTANTS
    fb_width = 13
    fb_height = 18
    CursorW = 11
    CursorH = 16
    StartX = 1
    StartY = 1
    Moves <- SomeMoves
SPECIFICATION Spec
INVARIANT OnePacketSuffices
PROPERTIES FollowsHand Resynchronises
