SPECIFICATION Spec
CONSTANTS
    RingSize = 2
    LineSize = 2
    Lengths = {1, 4}
    MaxFrames = 1
INVARIANT ResyncsAtNewline
CHECK_DEADLOCK FALSE
