SPECIFICATION Spec
CONSTANTS
    Networks = {n1, n2, n3}
    NoNetwork = NoNetwork
    MaxEntries = 2
    Callers = {"http", "shell"}
    Configs <- MCConfigs
    MaxOps = 2
    MaxResets = 1
INVARIANTS
    NoSpaceNeedsRace
    OneEvictionPerCall
    PairMatches
    HandlesOwnBody
    AnsweredIsEnough
PROPERTIES
    Associates
CHECK_DEADLOCK FALSE
