SPECIFICATION AllSpec
CONSTANTS
    MaxInits = 3
    Publishers = {"main", "c2d"}
    Limits = {1, 2}
    Boot = 1
    MaxSets = 1
    MaxSent = 4
INVARIANTS
    OnlyFailedInitDangles
    BrokerHandshakeIsCurrent
    NoCopyLost
    Overshoot
PROPERTY TelemetryStops
CHECK_DEADLOCK FALSE
