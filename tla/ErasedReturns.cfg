SPECIFICATION Spec
CONSTANTS
    ConfigOrder <- MCConfigOrder
    SetupOrder <- MCSetupOrder
    ProvisionOrder <- MCProvisionOrder
    Pems <- MCPems
    Values = {v1, v2}
    Default = v1
    Empty = Empty
    Garbled = Garbled
    NoBlob = NoBlob
    MaxCommands = 2
    MaxResets = 1
INVARIANT ErasedStaysErased
CHECK_DEADLOCK FALSE
