SPECIFICATION Spec
CONSTANTS
    Programs <- MCPrograms
    MaxSize = 80
    Limit = 84
    Byte = 8
    Containers = 2
    Setups <- MCSetups
INVARIANTS
    SaveVerifies
    HeadInStep
PROPERTY
    OthersSurvive
