SPECIFICATION Spec
CONSTANTS
    Jobs = {j1, j2}
    Factory = Factory
    None = None
    Torn = Torn
    MaxDeliveries = 1
    MaxCrashes = 1
INVARIANT RevertedReportIsTrue
CHECK_DEADLOCK FALSE
