SPECIFICATION Spec
CONSTANTS
    CloseFrame = CloseFrame
    EndOfStream = EndOfStream
    Room = 2
    Frames = 3
INVARIANTS InOrder
PROPERTIES Forwards SessionEnds
CHECK_DEADLOCK FALSE
