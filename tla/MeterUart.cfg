SPECIFICATION Spec
CONSTANTS
    RingSize = 2
    LineSize = 2
    Lengths = {1, 2, 4}
    MaxFrames = 2
INVARIANTS
    DamageIsLocal
    SnapshotIsWhole
PROPERTIES
    FramesArrive
CHECK_DEADLOCK FALSE
