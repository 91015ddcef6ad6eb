SPECIFICATION SSpec
CONSTANTS
    MaxSockets = 1
    MaxC2d = 2
INVARIANTS
    NeverAlreadyConnected
    OneLostPerSession
PROPERTIES
    DeadPumpNoticed
    Reconnects
    PumpStops
    CallsReturn
