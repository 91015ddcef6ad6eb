SPECIFICATION Spec
CONSTANTS
    MaxSockets = 2
    MaxC2d = 1
PROPERTY DisconnectStopsPump
