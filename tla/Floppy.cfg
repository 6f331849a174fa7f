SPECIFICATION Spec
CONSTANTS
    U = 2
    MaxPolls = 2
    StartGap = 5
    EndGap = 1
    Data = {1}
    Undefined = 9
    Explored = {1}
    Setups <- MCSetups
INVARIANTS
    ReadsBack
    TransferInv
PROPERTY
    CommandEnds
