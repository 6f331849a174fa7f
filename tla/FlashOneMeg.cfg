SPECIFICATION Spec
CONSTANTS
    NumFlashSectors = 3
    PagesPerSector = 3
    NumMegs = 1
    EntriesPerMeg = 3
    d0 = d0
    d1 = d1
    d2 = d2
    d3 = d3
    Data = {d0, d1, d2, d3}
    Zero = Zero
    Erased = Erased
    Junk = Junk
    AtRisk = AtRisk
    Requests <- TagRequests
    MaxGeneration = 3
    BadPrograms = {"map","page"}
    CutWindows = {"exposed"}
INVARIANTS
    PagesApart
    NeverFullWhenHealthy
PROPERTIES
    NoOverprogram
    VolumeSurvives
