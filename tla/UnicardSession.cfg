SPECIFICATION FairSpec
CONSTANTS
    CloudNames = {"game"}
    MaxRetries = 1
    Room = 1
    Whole = 1
    Windows = {}
    Volumes = {"mzpico.ini", "save"}
    Ini = "mzpico.ini"
    OutLens = {2}
    MaxOrphans = 1
INVARIANTS
    BuffersKept
    BusyIsBounded
PROPERTIES
    OnlyGetConfigHolds
    TransferLands
    EveryJobAnswered
