SPECIFICATION Spec
CONSTANTS
    ConfigOrder <- MCConfigOrder
    SetupOrder <- MCSetupOrder
    ProvisionOrder <- MCProvisionOrder
    Pems <- MCPems
    Values = {v1, v2}
    Default = v1
    Empty = Empty
    Garbled = Garbled
    NoBlob = NoBlob
    MaxCommands = 3
    MaxResets = 1
INVARIANTS
    
    MirrorsAreStored
PROPERTIES
    SavesOneField
CHECK_DEADLOCK FALSE
