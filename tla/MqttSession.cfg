SPECIFICATION Spec
CONSTANTS
    MaxSockets = 2
    MaxC2d = 2
INVARIANTS
    ConnectedMeansUp
    ConnectedIsServed
    StatusMirrorsSockets
    OnlyPumpExitLeaks
PROPERTIES
    DisconnectEnds
    KeepsContract
