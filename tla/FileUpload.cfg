SPECIFICATION Spec
CONSTANT MaxIdentities = 3
INVARIANTS
    StrayNeedsOverlap
    SignerFitsBucket
    AnnouncedIsStored
    
CHECK_DEADLOCK FALSE
