SPECIFICATION FairSpec
CONSTANTS
    NumFlashSectors = 6
    PagesPerSector = 2
    NumMegs = 2
    EntriesPerMeg = 2
    d0 = d0
    d1 = d1
    d2 = d2
    d3 = d3
    Data = {d0, d1, d2, d3}
    Zero = Zero
    Erased = Erased
    Junk = Junk
    AtRisk = AtRisk
    Requests <- TwoMegRequests
    MaxGeneration = 3
    BadPrograms = {"map"}
    CutWindows = {}
INVARIANTS
    MapInv
    SyncedDataWhole
PROPERTIES
    ImplementsStore
    WriteReturns
CHECK_DEADLOCK FALSE
