SPECIFICATION Spec
CONSTANTS
    Jobs = {j1, j2}
    Factory = Factory
    None = None
    Torn = Torn
    MaxDeliveries = 2
    MaxCrashes = 1
INVARIANTS
    BusyIsServedOrStranded
    TrialHasFallback
PROPERTIES
    JobStringsStable
    StrandedUntilReset
    KeepsUpdateContract
    AckPickedUp
    JobReleased
CHECK_DEADLOCK FALSE
